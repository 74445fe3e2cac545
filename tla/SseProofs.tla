------------------------------ MODULE SseProofs ------------------------------
(***************************************************************************)
(* Theorems about the two halves of the streaming reverser, sse.rs.        *)
(*                                                                         *)
(* SseFraming: however the network cuts a response, no byte of it is lost  *)
(* or moved, an event never holds more than the code's terminator ends,    *)
(* and nothing that is complete stays behind in a buffer.                  *)
(*                                                                         *)
(* SseReverser: however the upstream cuts a text into deltas, what was     *)
(* emitted and what is withheld make up the reversal of what was received. *)
(* From this, the reverser implements StreamReversal.  First come facts    *)
(* about reversing text in parts.  The main one is ReversedConcat: when no *)
(* placeholder lies across the cut, reversing two parts separately is      *)
(* reversing the whole.  And, for the holdback rule, SafeCut: a            *)
(* placeholder that begins in what SafeEmitPosition lets out also ends     *)
(* there, whatever text follows.                                           *)
(***************************************************************************)
EXTENDS SseFraming, SseReverser, SequenceTheorems, WellFoundedInduction, TLAPS

-----------------------------------------------------------------------------
(***************************************************************************)
(* SseFraming.                                                             *)
(***************************************************************************)

\* The lemmas on sequences, without kinds of secrets.
Shared == INSTANCE LibraryProofs WITH Kind <- {}, Text <- {}, TypeSlug <- << >>

LEMMA SharedAssumption == Shared!SlugsDistinct
  BY DEF Shared!SlugsDistinct

LEMMA FlattenIs == \A s : FlattenSeq(s) = Shared!FlattenSeq(s)
  BY DEF FlattenSeq, Shared!FlattenSeq

StandsIn(a, s, d) == \A i \in 1 .. Len(a) : a[i] = s[d + i]

LEMMA Cut ==
  ASSUME NEW S, NEW s \in Seq(S), NEW n \in 0 .. Len(s)
  PROVE  /\ SubSeq(s, 1, n) \in Seq(S) /\ SubSeq(s, n + 1, Len(s)) \in Seq(S)
         /\ Len(SubSeq(s, 1, n)) = n /\ Len(SubSeq(s, n + 1, Len(s))) = Len(s) - n
         /\ StandsIn(SubSeq(s, 1, n), s, 0) /\ StandsIn(SubSeq(s, n + 1, Len(s)), s, n)
         /\ SubSeq(s, 1, n) \o SubSeq(s, n + 1, Len(s)) = s
  BY Shared!Cut, SharedAssumption DEF Shared!StandsIn, StandsIn

Bytes == Seq(Byte)
Event == [text : Bytes, terminator : {Crlf, Lflf, << >>}]

Pieces(evs) == [k \in 1 .. Len(evs) |-> EventBytes(evs[k])]

\* What has become text: the events and the text still in the buffer.
Text == FlattenSeq(Pieces(events)) \o parse_buf

\* The bytes kept back begin with no character.
NoCharacterHeld == \A n \in 1 .. Len(byte_buf) : ~ IsUtf8(SubSeq(byte_buf, 1, n))

\* Nothing is dropped before the end.
DroppedLast == pc # "flushed" => dropped = << >>

\* The text loop leaves no terminator behind.
LoopDone == pc = "waiting" => \A t \in {Crlf, Lflf} : ~ HasMatch(parse_buf, t)

FramingInv ==
  /\ BuffersOK
  /\ NothingLost
  /\ EventsAreMinimal
  /\ IsUtf8(Text)
  /\ NoCharacterHeld
  /\ DroppedLast
  /\ LoopDone

-----------------------------------------------------------------------------
(* Characters.                                                             *)

LEMMA Terminator ==
  /\ Crlf \in Bytes /\ Len(Crlf) = 4 /\ Crlf[1] = CR /\ Crlf[4] = LF
  /\ Lflf \in Bytes /\ Len(Lflf) = 2 /\ Lflf[1] = LF /\ Lflf[2] = LF
  BY DEF Crlf, Lflf, Bytes, Byte

LEMMA Distinct ==
  /\ Lead \notin {CR, LF} \cup Ascii /\ Cont \notin {CR, LF} \cup Ascii
  /\ CR # LF /\ CR # Lead /\ CR # Cont /\ LF # Lead /\ LF # Cont /\ Lead # Cont
  BY ByteAssumption

LEMMA Utf8Empty == IsUtf8(<< >>)
  BY DEF IsUtf8

\* Text after text is text.
LEMMA Utf8Concat ==
  ASSUME NEW s \in Bytes, NEW t \in Bytes, IsUtf8(s), IsUtf8(t)
  PROVE  IsUtf8(s \o t)
  <1>1. ASSUME NEW c, c = s \o t, NEW k \in 1 .. Len(c)
        PROVE  \/ c[k] \in {CR, LF} \cup Ascii
               \/ c[k] = Lead /\ k < Len(c) /\ c[k + 1] = Cont
               \/ c[k] = Cont /\ k > 1 /\ c[k - 1] = Lead
    <2>0. Len(s) \in Nat /\ Len(t) \in Nat
      BY DEF Bytes
    <2>1. /\ Len(c) = Len(s) + Len(t)
          /\ \A i \in 1 .. Len(s) + Len(t) : c[i] = IF i <= Len(s) THEN s[i] ELSE t[i - Len(s)]
      BY <1>1, ConcatProperties DEF Bytes
    <2>2. CASE k <= Len(s)
      <3>1. k \in 1 .. Len(s) /\ c[k] = s[k]
        BY <2>0, <2>1, <2>2
      <3>2. k < Len(s) => c[k + 1] = s[k + 1]
        BY <2>0, <2>1, <3>1
      <3>3. k > 1 => c[k - 1] = s[k - 1]
        BY <2>0, <2>1, <3>1
      <3>4. QED
        BY <2>0, <2>1, <3>1, <3>2, <3>3 DEF IsUtf8
    <2>3. CASE k > Len(s)
      <3>1. k - Len(s) \in 1 .. Len(t) /\ c[k] = t[k - Len(s)]
        BY <2>0, <2>1, <2>3
      <3>2. k < Len(c) => c[k + 1] = t[(k - Len(s)) + 1]
        BY <2>0, <2>1, <2>3
      <3>3. k - Len(s) > 1 => c[k - 1] = t[(k - Len(s)) - 1]
        BY <2>0, <2>1, <3>1
      <3>4. QED
        BY <2>0, <2>1, <2>3, <3>1, <3>2, <3>3 DEF IsUtf8
    <2>4. QED
      BY <2>0, <2>1, <2>2, <2>3
  <1>2. QED
    BY <1>1 DEF IsUtf8

\* What follows text in a text is text.
LEMMA Utf8Rest ==
  ASSUME NEW s \in Bytes, NEW t \in Bytes, IsUtf8(s), IsUtf8(s \o t)
  PROVE  IsUtf8(t)
  <1>1. ASSUME NEW c, c = s \o t, IsUtf8(c), NEW k \in 1 .. Len(t)
        PROVE  \/ t[k] \in {CR, LF} \cup Ascii
               \/ t[k] = Lead /\ k < Len(t) /\ t[k + 1] = Cont
               \/ t[k] = Cont /\ k > 1 /\ t[k - 1] = Lead
    <2>0. Len(s) \in Nat /\ Len(t) \in Nat
      BY DEF Bytes
    <2>1. /\ Len(c) = Len(s) + Len(t)
          /\ \A i \in 1 .. Len(s) + Len(t) : c[i] = IF i <= Len(s) THEN s[i] ELSE t[i - Len(s)]
      BY <1>1, ConcatProperties DEF Bytes
    <2>2. ASSUME NEW j, j = Len(s) + k
          PROVE  /\ j \in 1 .. Len(c) /\ c[j] = t[k]
                 /\ (j < Len(c) => k < Len(t) /\ c[j + 1] = t[k + 1])
                 /\ (k > 1 => c[j - 1] = t[k - 1])
                 /\ (k = 1 /\ j > 1 => Len(s) \in 1 .. Len(s) /\ c[j - 1] = s[Len(s)])
      <3>1. /\ j - Len(s) = k /\ ~ (j <= Len(s)) /\ (j + 1) - Len(s) = k + 1
            /\ (j - 1) - Len(s) = k - 1 /\ ~ (j + 1 <= Len(s))
            /\ (k > 1 => ~ (j - 1 <= Len(s)))
        BY <2>0, <2>2
      <3>2. j \in 1 .. Len(s) + Len(t) /\ (j < Len(c) => j + 1 \in 1 .. Len(s) + Len(t))
        BY <2>0, <2>1, <2>2
      <3>3. k > 1 => j - 1 \in 1 .. Len(s) + Len(t)
        BY <2>0, <2>2
      <3>4. k = 1 /\ j > 1 => j - 1 = Len(s) /\ j - 1 \in 1 .. Len(s) + Len(t) /\ Len(s) \in 1 .. Len(s)
        BY <2>0, <2>2
      <3>5. c[j] = t[k] /\ (j < Len(c) => c[j + 1] = t[k + 1])
        BY <2>1, <3>1, <3>2
      <3>6. k > 1 => c[j - 1] = t[k - 1]
        BY <2>1, <3>1, <3>3
      <3>7. k = 1 /\ j > 1 => c[j - 1] = s[Len(s)]
        BY <2>0, <2>1, <3>4
      <3>8. j < Len(c) => k < Len(t)
        BY <2>0, <2>1, <2>2
      <3>9. QED
        BY <2>1, <3>2, <3>4, <3>5, <3>6, <3>7, <3>8
    <2>3. Len(s) \in 1 .. Len(s) => s[Len(s)] # Lead
      BY <2>0, Distinct DEF IsUtf8
    <2>4. ASSUME NEW j, j = Len(s) + k
          PROVE  \/ c[j] \in {CR, LF} \cup Ascii
                 \/ c[j] = Lead /\ j < Len(c) /\ c[j + 1] = Cont
                 \/ c[j] = Cont /\ j > 1 /\ c[j - 1] = Lead
      BY <1>1, <2>2, <2>4 DEF IsUtf8
    <2>5. ASSUME NEW j, j = Len(s) + k
          PROVE  \/ t[k] \in {CR, LF} \cup Ascii
                 \/ t[k] = Lead /\ k < Len(t) /\ t[k + 1] = Cont
                 \/ t[k] = Cont /\ k > 1 /\ t[k - 1] = Lead
      <3>1. CASE c[j] \in {CR, LF} \cup Ascii
        BY <2>2, <2>5, <3>1
      <3>2. CASE c[j] = Lead /\ j < Len(c) /\ c[j + 1] = Cont
        BY <2>2, <2>5, <3>2
      <3>3. CASE c[j] = Cont /\ j > 1 /\ c[j - 1] = Lead
        <4>1. t[k] = Cont /\ (k > 1 => t[k - 1] = Lead)
          BY <2>2, <2>5, <3>3
        <4>2. k = 1 => Len(s) \in 1 .. Len(s) /\ s[Len(s)] = Lead
          BY <2>2, <2>5, <3>3
        <4>3. QED
          BY <2>3, <4>1, <4>2
      <3>4. QED
        BY <2>4, <2>5, <3>1, <3>2, <3>3
    <2>6. QED
      BY <2>5
  <1>2. QED
    BY <1>1 DEF IsUtf8

\* A text cut anywhere but inside a character is text.
LEMMA Utf8Cut ==
  ASSUME NEW s \in Bytes, NEW t \in Bytes, IsUtf8(s \o t),
         ~ (Len(s) > 0 /\ Len(t) > 0 /\ s[Len(s)] = Lead /\ t[1] = Cont)
  PROVE  IsUtf8(s) /\ IsUtf8(t)
  <1>1. ASSUME NEW c, c = s \o t, IsUtf8(c), NEW k \in 1 .. Len(s)
        PROVE  \/ s[k] \in {CR, LF} \cup Ascii
               \/ s[k] = Lead /\ k < Len(s) /\ s[k + 1] = Cont
               \/ s[k] = Cont /\ k > 1 /\ s[k - 1] = Lead
    <2>0. Len(s) \in Nat /\ Len(t) \in Nat
      BY DEF Bytes
    <2>1. /\ Len(c) = Len(s) + Len(t)
          /\ \A i \in 1 .. Len(s) + Len(t) : c[i] = IF i <= Len(s) THEN s[i] ELSE t[i - Len(s)]
      BY <1>1, ConcatProperties DEF Bytes
    <2>2. k \in 1 .. Len(c) /\ c[k] = s[k] /\ (k > 1 => c[k - 1] = s[k - 1])
      BY <2>0, <2>1
    <2>3. k < Len(s) => c[k + 1] = s[k + 1]
      BY <2>0, <2>1
    <2>4. k = Len(s) /\ k < Len(c) => Len(t) > 0 /\ c[k + 1] = t[1]
      BY <2>0, <2>1
    <2>5. k < Len(s) \/ k = Len(s)
      BY <2>0
    <2>6. \/ c[k] \in {CR, LF} \cup Ascii
          \/ c[k] = Lead /\ k < Len(c) /\ c[k + 1] = Cont
          \/ c[k] = Cont /\ k > 1 /\ c[k - 1] = Lead
      BY <1>1, <2>2 DEF IsUtf8
    <2>7. QED
      BY <2>0, <2>2, <2>3, <2>4, <2>5, <2>6
  <1>2. IsUtf8(s)
    BY <1>1 DEF IsUtf8
  <1>3. QED
    BY <1>2, Utf8Rest

\* The greatest length exists.
LEMMA ValidUpToProperties ==
  ASSUME NEW s \in Bytes
  PROVE  /\ ValidUpTo(s) \in 0 .. Len(s)
         /\ IsUtf8(SubSeq(s, 1, ValidUpTo(s)))
         /\ \A m \in ValidUpTo(s) + 1 .. Len(s) : ~ IsUtf8(SubSeq(s, 1, m))
  <1> DEFINE T == {n \in 0 .. Len(s) : IsUtf8(SubSeq(s, 1, n))}
  <1>0. Len(s) \in Nat
    BY DEF Bytes
  <1>1. 0 \in T
    <2>1. SubSeq(s, 1, 0) = << >>
      BY SubSeqEmpty
    <2>2. IsUtf8(SubSeq(s, 1, 0))
      BY <2>1, Utf8Empty
    <2>3. QED
      BY <1>0, <2>2
  <1>2. PICK n \in T : \A m \in T : m <= n
    <2>1. T \subseteq 0 .. Len(s) /\ T # {}
      BY <1>1
    <2> HIDE DEF T
    <2>2. QED
      BY <1>0, <2>1, Shared!GreatestMember, SharedAssumption
  <1>3. \A m \in n + 1 .. Len(s) : ~ IsUtf8(SubSeq(s, 1, m))
    <2>1. ASSUME NEW m \in n + 1 .. Len(s), IsUtf8(SubSeq(s, 1, m)) PROVE FALSE
      <3>1. m \in T /\ ~ (m <= n)
        BY <1>0, <2>1
      <3>2. QED
        BY <1>2, <3>1
    <2>2. QED
      BY <2>1
  <1>4. n \in 0 .. Len(s) /\ IsUtf8(SubSeq(s, 1, n))
    BY <1>2
  <1>5. QED
    BY <1>3, <1>4 DEF ValidUpTo

-----------------------------------------------------------------------------
(* Terminators.                                                            *)

\* The first occurrence exists.
LEMMA FindProperties ==
  ASSUME NEW s \in Bytes, NEW t, HasMatch(s, t)
  PROVE  /\ Find(s, t) \in 0 .. Len(s)
         /\ Occurs(s, t, Find(s, t))
         /\ \A b \in 0 .. Find(s, t) - 1 : ~ Occurs(s, t, b)
  <1> DEFINE T == {n \in 0 .. Len(s) : Occurs(s, t, n)}
  <1>0. Len(s) \in Nat
    BY DEF Bytes
  <1>1. T \subseteq Nat /\ T # {}
    BY <1>0 DEF HasMatch
  <1>2. PICK n \in T : \A m \in T : n <= m
    <2> HIDE DEF T
    <2>1. QED
      BY <1>1, Shared!LeastMember, SharedAssumption
  <1>3. \A b \in 0 .. n - 1 : ~ Occurs(s, t, b)
    <2>1. ASSUME NEW b \in 0 .. n - 1, Occurs(s, t, b) PROVE FALSE
      <3>1. b \in T /\ ~ (n <= b)
        BY <1>0, <2>1
      <3>2. QED
        BY <1>2, <3>1
    <2>2. QED
      BY <2>1
  <1>4. n \in 0 .. Len(s) /\ Occurs(s, t, n)
    BY <1>2
  <1>5. QED
    BY <1>3, <1>4 DEF Find

\* An occurrence, byte by byte.
LEMMA OccursMeans ==
  ASSUME NEW s \in Bytes, NEW t \in Bytes, NEW at \in Nat
  PROVE  Occurs(s, t, at) <=> /\ at + Len(t) <= Len(s)
                              /\ \A i \in 1 .. Len(t) : s[at + i] = t[i]
  <1>0. Len(s) \in Nat /\ Len(t) \in Nat
    BY DEF Bytes
  <1>1. ASSUME at + Len(t) <= Len(s), NEW u, u = SubSeq(s, at + 1, at + Len(t))
        PROVE  u \in Bytes /\ Len(u) = Len(t) /\ \A i \in 1 .. Len(t) : u[i] = s[at + i]
    <2>1. at + 1 \in Int /\ at + Len(t) \in Int /\ \A i \in at + 1 .. at + Len(t) : s[i] \in Byte
      <3>1. \A i \in at + 1 .. at + Len(t) : i \in 1 .. Len(s)
        BY <1>0, <1>1
      <3>2. QED
        BY <1>0, <3>1, ElementOfSeq DEF Bytes
    <2>2. /\ u \in Seq(Byte)
          /\ Len(u) = IF at + 1 <= at + Len(t) THEN at + Len(t) - (at + 1) + 1 ELSE 0
          /\ \A i \in 1 .. at + Len(t) - (at + 1) + 1 : u[i] = s[at + 1 + i - 1]
      BY <1>1, <2>1, SubSeqProperties
    <2>3. \A i \in 1 .. Len(t) : i \in 1 .. at + Len(t) - (at + 1) + 1 /\ at + 1 + i - 1 = at + i
      BY <1>0
    <2>4. QED
      BY <1>0, <2>2, <2>3 DEF Bytes
  <1>2. ASSUME at + Len(t) <= Len(s), \A i \in 1 .. Len(t) : s[at + i] = t[i]
        PROVE  SubSeq(s, at + 1, at + Len(t)) = t
    BY <1>1, <1>2, SeqEqual DEF Bytes
  <1>3. ASSUME at + Len(t) <= Len(s), SubSeq(s, at + 1, at + Len(t)) = t
        PROVE  \A i \in 1 .. Len(t) : s[at + i] = t[i]
    BY <1>1, <1>3
  <1>4. QED
    BY <1>2, <1>3 DEF Occurs

\* What occurs in a part occurs in the whole.
LEMMA MatchInPrefix ==
  ASSUME NEW s \in Bytes, NEW t \in Bytes, NEW u \in Bytes, NEW at \in 0 .. Len(s), Occurs(s, u, at)
  PROVE  at \in 0 .. Len(s \o t) /\ Occurs(s \o t, u, at)
  <1>1. ASSUME NEW c, c = s \o t PROVE at \in 0 .. Len(c) /\ Occurs(c, u, at)
    <2>0. Len(s) \in Nat /\ Len(t) \in Nat /\ Len(u) \in Nat
      BY DEF Bytes
    <2>1. /\ c \in Bytes /\ Len(c) = Len(s) + Len(t)
          /\ \A i \in 1 .. Len(s) + Len(t) : c[i] = IF i <= Len(s) THEN s[i] ELSE t[i - Len(s)]
      BY <1>1, ConcatProperties DEF Bytes
    <2>2. at + Len(u) <= Len(s) /\ \A i \in 1 .. Len(u) : s[at + i] = u[i]
      BY OccursMeans
    <2>3. \A i \in 1 .. Len(u) : at + i \in 1 .. Len(s) + Len(t) /\ at + i <= Len(s)
      BY <2>0, <2>2
    <2>4. \A i \in 1 .. Len(u) : c[at + i] = u[i]
      BY <2>1, <2>2, <2>3
    <2>5. at + Len(u) <= Len(c) /\ at \in Nat /\ at \in 0 .. Len(c)
      BY <2>0, <2>1, <2>2
    <2>6. QED
      BY <2>1, <2>4, <2>5, OccursMeans
  <1>2. QED
    BY <1>1

LEMMA MatchInSuffix ==
  ASSUME NEW s \in Bytes, NEW t \in Bytes, NEW u \in Bytes, HasMatch(t, u)
  PROVE  HasMatch(s \o t, u)
  <1>1. ASSUME NEW c, c = s \o t, NEW at \in 0 .. Len(t), Occurs(t, u, at) PROVE HasMatch(c, u)
    <2>0. Len(s) \in Nat /\ Len(t) \in Nat /\ Len(u) \in Nat
      BY DEF Bytes
    <2>1. /\ c \in Bytes /\ Len(c) = Len(s) + Len(t)
          /\ \A i \in 1 .. Len(s) + Len(t) : c[i] = IF i <= Len(s) THEN s[i] ELSE t[i - Len(s)]
      BY <1>1, ConcatProperties DEF Bytes
    <2>2. at + Len(u) <= Len(t) /\ \A i \in 1 .. Len(u) : t[at + i] = u[i]
      BY <1>1, OccursMeans
    <2>3. ASSUME NEW i \in 1 .. Len(u) PROVE c[(Len(s) + at) + i] = u[i]
      <3>1. /\ (Len(s) + at) + i \in 1 .. Len(s) + Len(t) /\ ~ ((Len(s) + at) + i <= Len(s))
            /\ ((Len(s) + at) + i) - Len(s) = at + i
        BY <2>0, <2>2
      <3>2. QED
        BY <2>1, <2>2, <3>1
    <2>4. Len(s) + at \in Nat /\ Len(s) + at \in 0 .. Len(c) /\ (Len(s) + at) + Len(u) <= Len(c)
      BY <2>0, <2>1, <2>2
    <2>5. Occurs(c, u, Len(s) + at)
      <3>1. ASSUME NEW n \in Nat, n = Len(s) + at PROVE Occurs(c, u, n)
        BY <2>1, <2>3, <2>4, <3>1, OccursMeans
      <3>2. QED
        BY <2>4, <3>1
    <2>6. QED
      BY <2>4, <2>5 DEF HasMatch
  <1>2. QED
    BY <1>1 DEF HasMatch

LEMMA MatchInside ==
  ASSUME NEW r \in Bytes, NEW s \in Bytes, NEW t \in Bytes, NEW u \in Bytes, HasMatch(s, u)
  PROVE  HasMatch((r \o s) \o t, u)
  <1>1. r \o s \in Bytes /\ HasMatch(r \o s, u)
    BY MatchInSuffix, ConcatProperties DEF Bytes
  <1>2. QED
    BY <1>1, MatchInPrefix DEF HasMatch

\* What SplitEvent makes of the buffer s: the bytes of the event and the rest
\* are the buffer, the terminator is in the event only at its end, and no
\* character is cut.
SplitsInto(s, e, t, r) ==
  /\ e \in Bytes /\ t \in Bytes /\ r \in Bytes
  /\ (e \o t) \o r = s
  /\ \A at \in 0 .. Len(e \o t) : Occurs(e \o t, t, at) => at = Len(e)
  /\ IsUtf8(s) => IsUtf8(e) /\ IsUtf8(r)

LEMMA FirstEvent ==
  ASSUME NEW s \in Bytes, NEW t \in {Crlf, Lflf}, HasMatch(s, t),
         NEW e, e = SubSeq(s, 1, Find(s, t)), NEW r, r = AfterEvent(s, t)
  PROVE  SplitsInto(s, e, t, r)
  <1>0. t \in Bytes /\ Len(s) \in Nat /\ Len(t) \in Nat \ {0} /\ t[1] # Cont /\ t[Len(t)] # Lead
    <2>1. Len(s) \in Nat
      BY DEF Bytes
    <2>2. CASE t = Crlf
      BY <2>1, <2>2, Terminator, Distinct
    <2>3. CASE t = Lflf
      BY <2>1, <2>3, Terminator, Distinct
    <2>4. QED
      BY <2>2, <2>3
  <1>1. ASSUME NEW n \in 0 .. Len(s), n = Find(s, t), NEW a, a = SubSeq(s, 1, n + Len(t)),
               NEW c, c = e \o t
        PROVE  /\ e \in Bytes /\ r \in Bytes /\ c = a /\ c \o r = s
               /\ \A at \in 0 .. Len(c) : Occurs(c, t, at) => at = Len(e)
               /\ IsUtf8(s) => IsUtf8(e) /\ IsUtf8(r)
    <2>1. /\ n + Len(t) <= Len(s) /\ \A i \in 1 .. Len(t) : s[n + i] = t[i]
          /\ \A b \in 0 .. n - 1 : ~ Occurs(s, t, b)
      <3>1. Occurs(s, t, n) /\ \A b \in 0 .. n - 1 : ~ Occurs(s, t, b)
        BY <1>1, FindProperties
      <3>2. n \in Nat
        BY <1>0
      <3>3. QED
        BY <1>0, <3>1, <3>2, OccursMeans
    <2>2. e \in Bytes /\ Len(e) = n /\ \A i \in 1 .. n : e[i] = s[i]
      <3>1. e \in Bytes /\ Len(e) = n /\ StandsIn(e, s, 0)
        BY <1>1, Cut DEF Bytes
      <3>2. n \in Int
        BY <1>0
      <3>3. QED
        BY ONLY <3>1, <3>2 DEF StandsIn
    <2>3. /\ a \in Bytes /\ r \in Bytes /\ Len(a) = n + Len(t)
          /\ \A i \in 1 .. n + Len(t) : a[i] = s[i]
          /\ a \o r = s
      <3>1. ASSUME NEW m \in 0 .. Len(s), m = n + Len(t)
            PROVE  /\ a \in Bytes /\ r \in Bytes /\ Len(a) = n + Len(t)
                   /\ \A i \in 1 .. n + Len(t) : a[i] = s[i]
                   /\ a \o r = s
        <4>1. a = SubSeq(s, 1, m) /\ r = SubSeq(s, m + 1, Len(s))
          <5>1. Find(s, t) + Len(t) + 1 = m + 1
            BY <1>0, <1>1, <3>1
          <5>2. QED
            BY <1>1, <3>1, <5>1 DEF AfterEvent
        <4>2. a \in Bytes /\ r \in Bytes /\ Len(a) = m /\ StandsIn(a, s, 0)
          <5>1. /\ SubSeq(s, 1, m) \in Bytes /\ SubSeq(s, m + 1, Len(s)) \in Bytes
                /\ Len(SubSeq(s, 1, m)) = m /\ StandsIn(SubSeq(s, 1, m), s, 0)
            BY Cut DEF Bytes
          <5>2. QED
            BY <4>1, <5>1
        <4>0. a \o r = s
          BY <4>1, Cut DEF Bytes
        <4>3. m \in Int
          BY <1>0
        <4>4. Len(a) = m /\ StandsIn(a, s, 0)
          BY <4>2
        <4>5. \A i \in 1 .. m : a[i] = s[i]
          BY ONLY <4>3, <4>4 DEF StandsIn
        <4>6. QED
          BY <3>1, <4>0, <4>2, <4>5
      <3>2. n + Len(t) \in 0 .. Len(s)
        BY <1>0, <2>1
      <3>3. QED
        BY <3>1, <3>2
    <2>4. /\ c \in Bytes /\ Len(c) = n + Len(t)
          /\ \A i \in 1 .. n + Len(t) : i <= n => c[i] = e[i]
          /\ \A i \in 1 .. n + Len(t) : ~ (i <= n) => c[i] = t[i - n]
      <3>1. /\ c \in Seq(Byte) /\ Len(c) = Len(e) + Len(t)
            /\ \A i \in 1 .. Len(e) + Len(t) : c[i] = IF i <= Len(e) THEN e[i] ELSE t[i - Len(e)]
        <4>1. e \in Seq(Byte) /\ t \in Seq(Byte)
          BY <1>0, <2>2 DEF Bytes
        <4>2. QED
          BY <1>1, <4>1, ConcatProperties
      <3>2. Len(e) = n
        BY <2>2
      <3>3. c \in Bytes /\ Len(c) = n + Len(t)
        BY <3>1, <3>2 DEF Bytes
      <3>4. \A i \in 1 .. n + Len(t) : i <= n => c[i] = e[i]
        BY ONLY <1>0, <3>1, <3>2, <3>3
      <3>5. \A i \in 1 .. n + Len(t) : ~ (i <= n) => c[i] = t[i - n]
        BY ONLY <1>0, <3>1, <3>2, <3>3
      <3>6. QED
        BY <3>3, <3>4, <3>5
    <2>5. ASSUME NEW i \in 1 .. n + Len(t) PROVE c[i] = a[i]
      <3>1. CASE i <= n
        <4>1. i \in 1 .. n /\ c[i] = e[i]
          <5>1. i \in 1 .. n
            BY <1>0, <3>1
          <5>2. \A j \in 1 .. n + Len(t) : j <= n => c[j] = e[j]
            BY ONLY <2>4
          <5>3. QED
            BY ONLY <3>1, <5>1, <5>2, i \in 1 .. n + Len(t)
        <4>2. e[i] = s[i]
          BY <2>2, <4>1
        <4>3. a[i] = s[i]
          BY <2>3
        <4>4. QED
          BY <4>1, <4>2, <4>3
      <3>2. CASE ~ (i <= n)
        <4>1. i - n \in 1 .. Len(t) /\ n + (i - n) = i
          BY <1>0, <3>2
        <4>2. s[i] = t[i - n]
          BY <2>1, <4>1
        <4>3. QED
          BY <2>3, <2>4, <3>2, <4>2
      <3>3. QED
        BY <3>1, <3>2
    <2>6. c = a
      BY <2>3, <2>4, <2>5, SeqEqual DEF Bytes
    <2>7. ASSUME NEW at \in 0 .. Len(c), Occurs(c, t, at) PROVE at = Len(e)
      <3>1. Occurs(c \o r, t, at)
        BY <1>0, <2>3, <2>4, <2>7, MatchInPrefix
      <3>2. Occurs(s, t, at)
        <4>1. c \o r = s
          BY <2>3, <2>6
        <4>2. QED
          BY <3>1, <4>1
      <3>3. at \notin 0 .. n - 1
        BY <2>1, <3>2
      <3>4. at \in Nat /\ at + Len(t) <= n + Len(t)
        <4>1. at \in Nat
          BY <1>0, <2>4
        <4>2. QED
          BY <1>0, <2>4, <2>7, <4>1, OccursMeans
      <3>5. at = n
        BY <1>0, <3>3, <3>4
      <3>6. QED
        BY <2>2, <3>5
    <2>8. ASSUME IsUtf8(s) PROVE IsUtf8(e) /\ IsUtf8(r)
      <3>1. Len(c) > 0 /\ c[Len(c)] # Lead
        <4>1. /\ n + Len(t) \in 1 .. n + Len(t) /\ ~ (n + Len(t) <= n)
              /\ (n + Len(t)) - n = Len(t)
          BY <1>0
        <4>2. QED
          BY <1>0, <2>4, <4>1
      <3>2. IsUtf8(c) /\ IsUtf8(r)
        <4>1. IsUtf8(c \o r)
          BY <2>3, <2>6, <2>8
        <4>2. QED
          BY <2>3, <2>4, <3>1, <4>1, Utf8Cut
      <3>3. IsUtf8(e)
        BY <1>0, <1>1, <2>2, <3>2, Utf8Cut
      <3>4. QED
        BY <3>2, <3>3
    <2>9. QED
      BY <2>2, <2>3, <2>6, <2>7, <2>8
  <1>2. Find(s, t) \in 0 .. Len(s)
    BY FindProperties
  <1>3. QED
    BY <1>0, <1>1, <1>2 DEF SplitsInto

-----------------------------------------------------------------------------
(* The history of events.                                                  *)

LEMMA EventBytesType ==
  ASSUME NEW e \in Event
  PROVE  EventBytes(e) \in Bytes
  <1>1. e.text \in Bytes /\ e.terminator \in {Crlf, Lflf, << >>}
    BY DEF Event
  <1>2. e.terminator \in Bytes
    <2>1. << >> \in Bytes
      BY EmptySeq DEF Bytes
    <2>2. QED
      BY <1>1, <2>1, Terminator
  <1>3. QED
    BY <1>1, <1>2, ConcatProperties DEF EventBytes, Bytes

LEMMA PiecesType ==
  ASSUME NEW evs \in Seq(Event)
  PROVE  /\ Pieces(evs) \in Seq(Bytes) /\ Len(Pieces(evs)) = Len(evs)
         /\ FlattenSeq(Pieces(evs)) \in Bytes
  <1>1. \A k \in 1 .. Len(evs) : EventBytes(evs[k]) \in Bytes
    BY EventBytesType, ElementOfSeq
  <1>2. Pieces(evs) \in [1 .. Len(evs) -> Bytes] /\ Len(evs) \in Nat
    BY <1>1, LenProperties DEF Pieces
  <1>3. Pieces(evs) \in Seq(Bytes) /\ Len(Pieces(evs)) = Len(evs)
    BY <1>2, Shared!FunctionIsSequence, SharedAssumption
  <1>4. QED
    BY <1>3, Shared!FlattenType, SharedAssumption, FlattenIs DEF Bytes

LEMMA PiecesAppend ==
  ASSUME NEW evs \in Seq(Event), NEW e \in Event
  PROVE  FlattenSeq(Pieces(Append(evs, e))) = FlattenSeq(Pieces(evs)) \o EventBytes(e)
  <1>1. ASSUME NEW more, more = Append(evs, e), NEW p, p = Pieces(more),
               NEW q, q = Append(Pieces(evs), EventBytes(e))
        PROVE  p = q
    <2>1. /\ more \in Seq(Event) /\ Len(more) = Len(evs) + 1 /\ more[Len(evs) + 1] = e
          /\ \A k \in 1 .. Len(evs) : more[k] = evs[k]
          /\ Len(evs) \in Nat
      BY <1>1, AppendProperties
    <2>2. Pieces(evs) \in Seq(Bytes) /\ Len(Pieces(evs)) = Len(evs) /\ EventBytes(e) \in Bytes
      BY PiecesType, EventBytesType
    <2>3. /\ q \in Seq(Bytes) /\ Len(q) = Len(evs) + 1 /\ q[Len(evs) + 1] = EventBytes(e)
          /\ \A k \in 1 .. Len(evs) : q[k] = Pieces(evs)[k]
      BY <1>1, <2>2, AppendProperties
    <2>4. p \in Seq(Bytes) /\ Len(p) = Len(evs) + 1
      BY <1>1, <2>1, PiecesType
    <2>5. ASSUME NEW k \in 1 .. Len(evs) + 1 PROVE p[k] = q[k]
      <3>1. p[k] = EventBytes(more[k])
        BY <1>1, <2>1 DEF Pieces
      <3>2. CASE k = Len(evs) + 1
        BY <2>1, <2>3, <3>1, <3>2
      <3>3. CASE k # Len(evs) + 1
        <4>1. k \in 1 .. Len(evs)
          BY <2>1, <3>3
        <4>2. Pieces(evs)[k] = EventBytes(evs[k])
          BY <4>1 DEF Pieces
        <4>3. QED
          BY <2>1, <2>3, <3>1, <4>1, <4>2
      <3>4. QED
        BY <3>2, <3>3
    <2>6. QED
      BY <2>3, <2>4, <2>5, SeqEqual
  <1>2. Pieces(Append(evs, e)) = Append(Pieces(evs), EventBytes(e))
    BY <1>1
  <1>3. QED
    BY <1>2, PiecesType, EventBytesType, Shared!FlattenAppend, SharedAssumption, FlattenIs DEF Bytes

-----------------------------------------------------------------------------
(* The inductive invariant.                                                *)

LEMMA Associative ==
  ASSUME NEW r \in Bytes, NEW s \in Bytes, NEW t \in Bytes
  PROVE  (r \o s) \o t = r \o (s \o t)
  BY ConcatAssociative DEF Bytes

\* The same, with the text in one piece.
LEMMA NothingLostMeans ==
  ASSUME BuffersOK
  PROVE  /\ FlattenSeq(Pieces(events)) \in Bytes /\ Text \in Bytes
         /\ NothingLost <=> Text \o (byte_buf \o dropped) = Arrived
  <1>1. /\ FlattenSeq(Pieces(events)) \in Bytes
        /\ parse_buf \in Bytes /\ byte_buf \in Bytes /\ dropped \in Bytes
    BY PiecesType DEF BuffersOK, Event, Bytes
  <1>2. Text \in Bytes
    BY <1>1, ConcatProperties DEF Text, Bytes
  <1>3. Text \o (byte_buf \o dropped) = (Text \o byte_buf) \o dropped
    BY ONLY <1>1, <1>2, Associative
  <1>4. QED
    BY <1>1, <1>2, <1>3 DEF NothingLost, Text, Pieces

LEMMA ArrivedType == ASSUME BuffersOK PROVE Arrived \in Bytes
  BY Cut DEF BuffersOK, Arrived, Bytes

\* When both terminators have arrived, they stay.
LEMMA UniformBefore ==
  ASSUME NEW s \in Bytes, NEW t \in Bytes,
         ~ (HasMatch(s \o t, Crlf) /\ HasMatch(s \o t, Lflf))
  PROVE  ~ (HasMatch(s, Crlf) /\ HasMatch(s, Lflf))
  BY Terminator, MatchInPrefix DEF HasMatch

LEMMA FramingInitially == ASSUME FramingInit PROVE FramingInv
  <1>1. << >> \in Bytes /\ << >> \in Seq(Event) /\ Len(<< >>) = 0
    BY EmptySeq DEF Bytes
  <1>2. stream \in Seq(Byte) /\ Len(stream) \in Nat
    BY StreamAssumption, LenProperties DEF FramingInit
  <1>3. BuffersOK
    BY <1>1, <1>2, Utf8Empty DEF FramingInit, BuffersOK, Event, Bytes
  <1>4. Text = << >> /\ byte_buf \o dropped = << >>
    <2>1. Pieces(<< >>) = << >>
      <3>1. Pieces(<< >>) \in Seq(Bytes) /\ Len(Pieces(<< >>)) = 0
        BY <1>1, PiecesType
      <3>2. QED
        BY <3>1, EmptySeq
    <2>2. QED
      BY <1>1, <2>1, Shared!FlattenEmpty, SharedAssumption, FlattenIs, ConcatEmptySeq DEF FramingInit, Text, Bytes
  <1>5. Arrived = << >>
    BY SubSeqEmpty DEF FramingInit, Arrived
  <1>6. NothingLost
    <2>1. << >> \o << >> = << >>
      BY <1>1, ConcatEmptySeq DEF Bytes
    <2>2. QED
      BY <1>3, <1>4, <1>5, <2>1, NothingLostMeans
  <1>7. EventsAreMinimal /\ NoCharacterHeld /\ DroppedLast
    BY <1>1 DEF FramingInit, EventsAreMinimal, NoCharacterHeld, DroppedLast
  <1>8. LoopDone
    <2>1. ASSUME NEW t \in {Crlf, Lflf}, NEW at \in 0 .. Len(<< >>), Occurs(<< >>, t, at) PROVE FALSE
      <3>1. Len(t) \in Nat \ {0}
        BY Terminator
      <3>2. QED
        BY <1>1, <2>1, <3>1 DEF Occurs
    <2>2. QED
      BY <2>1 DEF FramingInit, LoopDone, HasMatch
  <1>9. QED
    BY <1>3, <1>4, <1>6, <1>7, <1>8, Utf8Empty DEF FramingInv

-----------------------------------------------------------------------------
(* A chunk.                                                                *)

\* Behind the longest text the bytes begin with no character.
LEMMA NothingBehindText ==
  ASSUME NEW s \in Bytes, NEW v, v = ValidUpTo(s), NEW q, q = SubSeq(s, v + 1, Len(s)),
         NEW n \in 1 .. Len(q)
  PROVE  ~ IsUtf8(SubSeq(q, 1, n))
  <1>1. /\ v \in 0 .. Len(s) /\ Len(s) \in Nat /\ IsUtf8(SubSeq(s, 1, v))
        /\ \A m \in v + 1 .. Len(s) : ~ IsUtf8(SubSeq(s, 1, m))
    BY ValidUpToProperties DEF Bytes
  <1>2. SubSeq(s, 1, v) \in Bytes /\ q \in Bytes /\ Len(q) = Len(s) - v
    BY <1>1, Cut DEF Bytes
  <1>3. SubSeq(q, 1, n) \in Bytes
    <2>1. q \in Seq(Byte) /\ n \in 0 .. Len(q)
      BY <1>1, <1>2 DEF Bytes
    <2>2. QED
      BY ONLY <2>1, Cut DEF Bytes
  <1>4. v + n \in v + 1 .. Len(s)
    BY <1>1, <1>2
  <1>5. SubSeq(q, 1, n) = SubSeq(s, v + 1, v + n)
    <2>1. v + 1 \in 1 .. Len(s) /\ Len(s) \in 1 .. Len(s)
          /\ 1 \in 1 .. Len(s) - (v + 1) + 1 /\ n \in 1 .. Len(s) - (v + 1) + 1
      BY <1>1, <1>2
    <2>2. SubSeq(SubSeq(s, v + 1, Len(s)), 1, n) = SubSeq(s, (v + 1) + 1 - 1, (v + 1) + n - 1)
      BY <2>1, SubSeqOfSubSeq DEF Bytes
    <2>3. (v + 1) + 1 - 1 = v + 1 /\ (v + 1) + n - 1 = v + n
      BY <1>1
    <2>4. QED
      BY <2>2, <2>3
  <1>6. SubSeq(s, 1, v) \o SubSeq(s, v + 1, v + n) = SubSeq(s, 1, v + n)
    <2>1. 1 \in 1 .. Len(s) + 1 /\ v \in 1 - 1 .. Len(s) /\ v + n \in v .. Len(s)
      BY <1>1, <1>4
    <2>2. QED
      BY <2>1, ConcatAdjacentSubSeq DEF Bytes
  <1>7. QED
    BY <1>1, <1>2, <1>3, <1>4, <1>5, <1>6, Utf8Concat

LEMMA PushBytesKeepsFraming ==
  ASSUME FramingInv, PushBytes
  PROVE  FramingInv'
  <1>1. PICK n \in 1 .. Len(stream) - sent :
          LET bytes == byte_buf \o SubSeq(stream, sent + 1, sent + n)
              valid == ValidUpTo(bytes)
          IN  /\ sent' = sent + n
              /\ byte_buf' = SubSeq(bytes, valid + 1, Len(bytes))
              /\ parse_buf' = parse_buf \o SubSeq(bytes, 1, valid)
              /\ pc' = IF valid = 0 THEN "waiting" ELSE "splitting"
    BY DEF PushBytes
  <1>2. ASSUME NEW chunk, chunk = SubSeq(stream, sent + 1, sent + n),
               NEW bytes, bytes = byte_buf \o chunk, NEW valid, valid = ValidUpTo(bytes),
               NEW p, p = SubSeq(bytes, 1, valid), NEW q, q = SubSeq(bytes, valid + 1, Len(bytes))
        PROVE  FramingInv'
    <2>1. /\ pc = "waiting" /\ UNCHANGED <<stream, events, dropped>>
          /\ sent' = sent + n /\ byte_buf' = q /\ parse_buf' = parse_buf \o p
          /\ pc' = IF valid = 0 THEN "waiting" ELSE "splitting"
      BY <1>1, <1>2 DEF PushBytes
    <2>2. /\ stream \in Bytes /\ sent \in 0 .. Len(stream) /\ Len(stream) \in Nat
          /\ byte_buf \in Bytes /\ parse_buf \in Bytes /\ dropped = << >>
          /\ IsUtf8(parse_buf) /\ IsUtf8(Text)
      BY <2>1, LenProperties DEF FramingInv, BuffersOK, DroppedLast, Bytes
    <2>3. chunk \in Bytes /\ Arrived' = Arrived \o chunk
      <3>1. sent + n \in sent .. Len(stream) /\ 1 \in 1 .. Len(stream) + 1 /\ sent \in 1 - 1 .. Len(stream)
        BY <2>2
      <3>2. SubSeq(stream, 1, sent) \o SubSeq(stream, sent + 1, sent + n) = SubSeq(stream, 1, sent + n)
        BY <2>2, <3>1, ConcatAdjacentSubSeq DEF Bytes
      <3>3. chunk \in Bytes
        <4>1. \A i \in sent + 1 .. sent + n : i \in 1 .. Len(stream)
          BY <2>2
        <4>2. \A i \in sent + 1 .. sent + n : stream[i] \in Byte
          BY <2>2, <4>1, ElementOfSeq DEF Bytes
        <4>3. sent + 1 \in Int /\ sent + n \in Int
          BY <2>2
        <4>4. QED
          BY <1>2, <4>2, <4>3, SubSeqProperties DEF Bytes
      <3>4. QED
        BY <1>2, <2>1, <3>2, <3>3 DEF Arrived
    <2>4. /\ bytes \in Bytes /\ valid \in 0 .. Len(bytes) /\ Len(bytes) \in Nat
          /\ IsUtf8(p)
      <3>1. bytes \in Bytes
        BY <1>2, <2>2, <2>3, ConcatProperties DEF Bytes
      <3>2. Len(bytes) \in Nat
        BY <3>1 DEF Bytes
      <3>3. valid \in 0 .. Len(bytes) /\ IsUtf8(p)
        BY <1>2, <3>1, ValidUpToProperties
      <3>4. QED
        BY <3>1, <3>2, <3>3
    <2>5. p \in Bytes /\ q \in Bytes /\ p \o q = bytes
      <3>1. bytes \in Seq(Byte)
        BY <2>4 DEF Bytes
      <3>2. /\ SubSeq(bytes, 1, valid) \in Seq(Byte) /\ SubSeq(bytes, valid + 1, Len(bytes)) \in Seq(Byte)
            /\ SubSeq(bytes, 1, valid) \o SubSeq(bytes, valid + 1, Len(bytes)) = bytes
        BY <2>4, <3>1, Cut
      <3>3. QED
        BY <1>2, <3>2 DEF Bytes
    <2>6. parse_buf' \in Bytes /\ IsUtf8(parse_buf')
      BY <2>1, <2>2, <2>4, <2>5, Utf8Concat, ConcatProperties DEF Bytes
    <2>7. BuffersOK'
      <3>1. sent + n \in 0 .. Len(stream)
        BY <2>2
      <3>2. QED
        BY <2>1, <2>2, <2>5, <2>6, <3>1 DEF FramingInv, BuffersOK, Bytes
    <2>8. Text' = Text \o p /\ Text \in Bytes /\ Text' \in Bytes
      <3>1. FlattenSeq(Pieces(events)) \in Bytes /\ Text \in Bytes
        BY NothingLostMeans DEF FramingInv
      <3>2. Text' = FlattenSeq(Pieces(events)) \o (parse_buf \o p)
        BY <2>1 DEF Text
      <3>3. FlattenSeq(Pieces(events)) \o (parse_buf \o p) = Text \o p
        <4>1. Text = FlattenSeq(Pieces(events)) \o parse_buf
          BY DEF Text
        <4>2. FlattenSeq(Pieces(events)) \in Bytes /\ parse_buf \in Bytes /\ p \in Bytes
          BY <2>2, <2>5, <3>1
        <4>3. QED
          BY ONLY <4>1, <4>2, Associative
      <3>4. QED
        BY <2>5, <3>1, <3>2, <3>3, ConcatProperties DEF Bytes
    <2>9. NothingLost'
      <3>1. Text \o byte_buf = Arrived
        <4>1. byte_buf \o dropped = byte_buf
          BY <2>2, ConcatEmptySeq DEF Bytes
        <4>2. QED
          BY <4>1, NothingLostMeans DEF FramingInv
      <3>2. (Text \o p) \o q = Text \o bytes
        <4>1. (Text \o p) \o q = Text \o (p \o q)
          BY <2>5, <2>8, Associative
        <4>2. QED
          BY <2>5, <4>1
      <3>3. Text \o bytes = (Text \o byte_buf) \o chunk
        <4>1. (Text \o byte_buf) \o chunk = Text \o (byte_buf \o chunk)
          <5>1. Text \in Bytes /\ byte_buf \in Bytes /\ chunk \in Bytes
            BY <2>2, <2>3, <2>8
          <5>2. QED
            BY ONLY <5>1, Associative
        <4>2. QED
          BY <1>2, <4>1
      <3>4. (Text' \o q) = Arrived'
        BY <2>3, <2>8, <3>1, <3>2, <3>3
      <3>5. byte_buf' \o dropped' = q
        BY <2>1, <2>2, <2>5, ConcatEmptySeq DEF Bytes
      <3>6. (NothingLost <=> Text \o (byte_buf \o dropped) = Arrived)'
        BY <2>7, NothingLostMeans, PTL
      <3>7. QED
        BY <3>4, <3>5, <3>6
    <2>10. EventsAreMinimal'
      <3>1. Uniform' => Uniform
        BY <2>3, ArrivedType, UniformBefore DEF FramingInv, Uniform
      <3>2. QED
        BY <2>1, <3>1 DEF FramingInv, EventsAreMinimal
    <2>11. IsUtf8(Text)'
      BY <2>2, <2>4, <2>5, <2>8, Utf8Concat
    <2>12. NoCharacterHeld'
      BY <1>2, <2>1, <2>4, NothingBehindText DEF NoCharacterHeld
    <2>13. DroppedLast'
      BY <2>1, <2>2 DEF DroppedLast
    <2>14. LoopDone'
      <3>1. CASE valid = 0
        <4>1. p = << >>
          BY <1>2, <3>1, SubSeqEmpty
        <4>2. parse_buf' = parse_buf
          BY <2>1, <2>2, <4>1, ConcatEmptySeq DEF Bytes
        <4>3. QED
          BY <2>1, <4>2 DEF FramingInv, LoopDone
      <3>2. CASE valid # 0
        BY <2>1, <3>2 DEF LoopDone
      <3>3. QED
        BY <3>1, <3>2
    <2>15. QED
      BY <2>7, <2>9, <2>10, <2>11, <2>12, <2>13, <2>14 DEF FramingInv
  <1>3. QED
    BY <1>2

-----------------------------------------------------------------------------
(* An event.                                                               *)

\* What BuffersOK says of one more event.
LEMMA EventsAppend ==
  ASSUME NEW evs \in Seq(Event), NEW e \in Event,
         \A k \in 1 .. Len(evs) : IsUtf8(evs[k].text), IsUtf8(e.text),
         NEW more, more = Append(evs, e)
  PROVE  /\ more \in Seq(Event)
         /\ \A k \in 1 .. Len(more) : IsUtf8(more[k].text)
         /\ \A k \in 1 .. Len(more) : (k \in 1 .. Len(evs) /\ more[k] = evs[k]) \/ more[k] = e
  <1>1. /\ more \in Seq(Event) /\ Len(more) = Len(evs) + 1 /\ more[Len(evs) + 1] = e
        /\ \A k \in 1 .. Len(evs) : more[k] = evs[k]
        /\ Len(evs) \in Nat
    BY AppendProperties
  <1>2. \A k \in 1 .. Len(more) : (k \in 1 .. Len(evs) /\ more[k] = evs[k]) \/ more[k] = e
    BY <1>1
  <1>3. QED
    BY <1>1, <1>2

LEMMA SplitEventKeepsFraming ==
  ASSUME FramingInv, SplitEvent
  PROVE  FramingInv'
  <1>1. ASSUME NEW t, t = IF Crlf \in Terminators(parse_buf) THEN Crlf ELSE Lflf,
               NEW text, text = SubSeq(parse_buf, 1, Find(parse_buf, t)),
               NEW r, r = AfterEvent(parse_buf, t),
               NEW e, e = [text |-> text, terminator |-> t]
        PROVE  FramingInv'
    <2>1. /\ pc = "splitting" /\ UNCHANGED <<stream, sent, byte_buf, pc, dropped>>
          /\ events' = Append(events, e) /\ parse_buf' = r
          /\ Terminators(parse_buf) # {}
      BY <1>1 DEF SplitEvent
    <2>2. /\ byte_buf \in Bytes /\ parse_buf \in Bytes /\ dropped \in Bytes
          /\ IsUtf8(parse_buf) /\ IsUtf8(Text)
          /\ events \in Seq(Event) /\ \A k \in 1 .. Len(events) : IsUtf8(events[k].text)
      BY DEF FramingInv, BuffersOK, Event, Bytes
    <2>3. t \in {Crlf, Lflf} /\ HasMatch(parse_buf, t)
      BY <1>1, <2>1 DEF Terminators
    <2>4. /\ text \in Bytes /\ t \in Bytes /\ r \in Bytes
          /\ (text \o t) \o r = parse_buf
          /\ \A at \in 0 .. Len(text \o t) : Occurs(text \o t, t, at) => at = Len(text)
          /\ IsUtf8(text) /\ IsUtf8(r)
      <3>1. text = SubSeq(parse_buf, 1, Find(parse_buf, t)) /\ r = AfterEvent(parse_buf, t)
        BY <1>1
      <3>2. SplitsInto(parse_buf, text, t, r)
        BY <2>2, <2>3, <3>1, FirstEvent
      <3>3. QED
        BY <2>2, <3>2 DEF SplitsInto
    <2>5. /\ e \in Event /\ e.text = text /\ e.terminator = t /\ EventBytes(e) = text \o t
          /\ text \o t \in Bytes
      <3>1. e \in Event /\ e.text = text /\ e.terminator = t
        BY <1>1, <2>3, <2>4 DEF Event
      <3>2. QED
        BY <2>4, <3>1, ConcatProperties DEF EventBytes, Bytes
    <2>6. /\ events' \in Seq(Event) /\ \A k \in 1 .. Len(events') : IsUtf8(events'[k].text)
          /\ \A k \in 1 .. Len(events') :
               (k \in 1 .. Len(events) /\ events'[k] = events[k]) \/ events'[k] = e
      BY <2>1, <2>2, <2>4, <2>5, EventsAppend
    <2>7. BuffersOK'
      BY <2>1, <2>4, <2>6 DEF FramingInv, BuffersOK, Event, Bytes
    <2>8. Text' = Text
      <3>1. FlattenSeq(Pieces(events)) \in Bytes
        BY NothingLostMeans DEF FramingInv
      <3>2. Text' = (FlattenSeq(Pieces(events)) \o EventBytes(e)) \o r
        BY <2>1, <2>2, <2>5, PiecesAppend DEF Text
      <3>3. (FlattenSeq(Pieces(events)) \o (text \o t)) \o r
              = FlattenSeq(Pieces(events)) \o ((text \o t) \o r)
        <4>1. r \in Bytes /\ text \o t \in Bytes
          BY <2>4, <2>5
        <4>2. QED
          BY ONLY <3>1, <4>1, Associative
      <3>4. QED
        BY <2>4, <2>5, <3>2, <3>3 DEF Text
    <2>9. NothingLost'
      <3>1. Text \o (byte_buf \o dropped) = Arrived
        BY NothingLostMeans DEF FramingInv
      <3>2. Arrived' = Arrived
        BY <2>1 DEF Arrived
      <3>3. (NothingLost <=> Text \o (byte_buf \o dropped) = Arrived)'
        BY <2>7, NothingLostMeans, PTL
      <3>4. QED
        BY <2>1, <2>8, <3>1, <3>2, <3>3
    <2>10. EventsAreMinimal'
      <3>1. Uniform' <=> Uniform
        BY <2>1 DEF Uniform, Arrived
      <3>2. ASSUME NEW u \in {Crlf, Lflf}, NEW at \in 0 .. Len(text \o t),
                   Occurs(text \o t, u, at), Uniform
            PROVE  u = t /\ at = Len(text)
        <4>1. HasMatch(parse_buf, u)
          <5>1. u \in Bytes
            BY Terminator
          <5>2. HasMatch((text \o t) \o r, u)
            BY <2>4, <2>5, <3>2, <5>1, MatchInPrefix DEF HasMatch
          <5>3. QED
            BY <2>4, <5>2
        <4>2. ASSUME NEW w \in {Crlf, Lflf}, HasMatch(parse_buf, w) PROVE HasMatch(Arrived, w)
          <5>1. /\ FlattenSeq(Pieces(events)) \in Bytes
                /\ Text \o (byte_buf \o dropped) = Arrived
            BY NothingLostMeans DEF FramingInv
          <5>2. byte_buf \o dropped \in Bytes /\ w \in Bytes
            BY <2>2, Terminator, ConcatProperties DEF Bytes
          <5>3. HasMatch((FlattenSeq(Pieces(events)) \o parse_buf) \o (byte_buf \o dropped), w)
            BY <2>2, <4>2, <5>1, <5>2, MatchInside
          <5>4. QED
            BY <5>1, <5>3 DEF Text
        <4>3. u = t
          <5>1. CASE t = Crlf
            BY <2>3, <3>2, <4>1, <4>2, <5>1 DEF Uniform
          <5>2. CASE t = Lflf /\ u = Crlf
            <6>1. Crlf \in Terminators(parse_buf)
              BY <4>1, <5>2 DEF Terminators
            <6>2. QED
              BY <1>1, <5>2, <6>1
          <5>3. QED
            BY <2>3, <5>1, <5>2
        <4>4. QED
          BY <2>4, <3>2, <4>3
      <3>3. ASSUME NEW k \in 1 .. Len(events'), NEW u \in {Crlf, Lflf},
                   NEW at \in 0 .. Len(EventBytes(events'[k])),
                   Occurs(EventBytes(events'[k]), u, at), Uniform
            PROVE  u = events'[k].terminator /\ at = Len(events'[k].text)
        <4>1. CASE k \in 1 .. Len(events) /\ events'[k] = events[k]
          BY <3>3, <4>1 DEF FramingInv, EventsAreMinimal
        <4>2. CASE events'[k] = e
          BY <2>5, <3>2, <3>3, <4>2
        <4>3. QED
          BY <2>6, <4>1, <4>2
      <3>4. QED
        BY <3>1, <3>3 DEF EventsAreMinimal
    <2>11. IsUtf8(Text)' /\ NoCharacterHeld' /\ DroppedLast' /\ LoopDone'
      BY <2>1, <2>2, <2>8 DEF FramingInv, NoCharacterHeld, DroppedLast, LoopDone
    <2>12. QED
      BY <2>7, <2>9, <2>10, <2>11 DEF FramingInv
  <1>2. QED
    BY <1>1

LEMMA SplitNoneKeepsFraming ==
  ASSUME FramingInv, SplitNone
  PROVE  FramingInv'
  <1>1. /\ pc = "splitting" /\ Terminators(parse_buf) = {} /\ pc' = "waiting"
        /\ UNCHANGED <<stream, sent, byte_buf, parse_buf, events, dropped>>
    BY DEF SplitNone
  <1>2. BuffersOK'
    BY <1>1 DEF FramingInv, BuffersOK
  <1>3. NothingLost' /\ EventsAreMinimal' /\ IsUtf8(Text)' /\ NoCharacterHeld'
    BY <1>1 DEF FramingInv, NothingLost, EventsAreMinimal, Uniform, Arrived, Text, NoCharacterHeld
  <1>4. DroppedLast'
    BY <1>1 DEF FramingInv, DroppedLast
  <1>5. LoopDone'
    <2>1. \A t \in {Crlf, Lflf} : ~ HasMatch(parse_buf, t)
      BY <1>1 DEF Terminators
    <2>2. QED
      BY <1>1, <2>1 DEF LoopDone
  <1>6. QED
    BY <1>2, <1>3, <1>4, <1>5 DEF FramingInv

\* The end of the response: the rest of the text becomes an event.
LEMMA FlushKeepsFraming ==
  ASSUME FramingInv, Flush
  PROVE  FramingInv'
  <1>1. /\ pc = "waiting" /\ dropped' = byte_buf /\ byte_buf' = << >> /\ parse_buf' = << >>
        /\ pc' = "flushed" /\ UNCHANGED <<stream, sent>>
    BY DEF Flush
  <1>2. /\ byte_buf \in Bytes /\ parse_buf \in Bytes /\ dropped = << >>
        /\ IsUtf8(parse_buf) /\ IsUtf8(Text) /\ Text \in Bytes
        /\ events \in Seq(Event) /\ \A k \in 1 .. Len(events) : IsUtf8(events[k].text)
        /\ FlattenSeq(Pieces(events)) \in Bytes
        /\ << >> \in Bytes /\ Len(<< >>) = 0
        /\ \A t \in {Crlf, Lflf} : ~ HasMatch(parse_buf, t)
    <2>1. << >> \in Bytes /\ Len(<< >>) = 0
      BY EmptySeq DEF Bytes
    <2>2. FlattenSeq(Pieces(events)) \in Bytes /\ Text \in Bytes
      BY NothingLostMeans DEF FramingInv
    <2>3. dropped = << >> /\ \A t \in {Crlf, Lflf} : ~ HasMatch(parse_buf, t)
      BY <1>1 DEF FramingInv, DroppedLast, LoopDone
    <2>4. QED
      BY <2>1, <2>2, <2>3 DEF FramingInv, BuffersOK, Event, Bytes
  <1>3. ASSUME NEW e, e = [text |-> parse_buf, terminator |-> << >>]
        PROVE  /\ events' = IF parse_buf = << >> THEN events ELSE Append(events, e)
               /\ e \in Event /\ e.text = parse_buf /\ e.terminator = << >>
               /\ EventBytes(e) = parse_buf
    <2>1. e \in Event /\ e.text = parse_buf /\ e.terminator = << >>
      BY <1>2, <1>3 DEF Event
    <2>2. parse_buf \o << >> = parse_buf
      BY <1>2, ConcatEmptySeq DEF Bytes
    <2>3. QED
      BY <1>3, <2>1, <2>2 DEF Flush, EventBytes
  <1>4. ASSUME NEW e, e = [text |-> parse_buf, terminator |-> << >>]
        PROVE  /\ events' \in Seq(Event) /\ \A k \in 1 .. Len(events') : IsUtf8(events'[k].text)
               /\ \A k \in 1 .. Len(events') :
                    (k \in 1 .. Len(events) /\ events'[k] = events[k]) \/ events'[k] = e
               /\ FlattenSeq(Pieces(events')) = Text
    <2>1. CASE parse_buf = << >>
      <3>1. events' = events
        BY <1>3, <1>4, <2>1
      <3>2. Text = FlattenSeq(Pieces(events))
        BY <1>2, <2>1, ConcatEmptySeq DEF Text, Bytes
      <3>3. QED
        BY <1>2, <3>1, <3>2
    <2>2. CASE parse_buf # << >>
      <3>1. events' = Append(events, e) /\ e \in Event /\ IsUtf8(e.text) /\ EventBytes(e) = parse_buf
        BY <1>2, <1>3, <1>4, <2>2
      <3>2. FlattenSeq(Pieces(events')) = FlattenSeq(Pieces(events)) \o parse_buf
        BY <1>2, <3>1, PiecesAppend
      <3>3. QED
        BY <1>2, <3>1, <3>2, EventsAppend DEF Text
    <2>3. QED
      BY <2>1, <2>2
  <1>5. BuffersOK'
    BY <1>1, <1>2, <1>4, Utf8Empty DEF FramingInv, BuffersOK, Event, Bytes
  <1>6. Text' = Text
    <2>1. Text' = FlattenSeq(Pieces(events')) \o << >>
      BY <1>1 DEF Text
    <2>2. Text \o << >> = Text
      BY <1>2, ConcatEmptySeq DEF Bytes
    <2>3. QED
      BY <1>4, <2>1, <2>2
  <1>7. NothingLost'
    <2>1. Text \o (byte_buf \o dropped) = Arrived
      BY NothingLostMeans DEF FramingInv
    <2>2. byte_buf \o dropped = byte_buf /\ byte_buf' \o dropped' = byte_buf
      BY <1>1, <1>2, ConcatEmptySeq DEF Bytes
    <2>3. Arrived' = Arrived
      BY <1>1 DEF Arrived
    <2>4. (NothingLost <=> Text \o (byte_buf \o dropped) = Arrived)'
      BY <1>5, NothingLostMeans, PTL
    <2>5. QED
      BY <1>6, <2>1, <2>2, <2>3, <2>4
  <1>8. EventsAreMinimal'
    <2>1. Uniform' <=> Uniform
      BY <1>1 DEF Uniform, Arrived
    <2>2. ASSUME NEW k \in 1 .. Len(events'), NEW u \in {Crlf, Lflf},
                 NEW at \in 0 .. Len(EventBytes(events'[k])),
                 Occurs(EventBytes(events'[k]), u, at), Uniform
          PROVE  u = events'[k].terminator /\ at = Len(events'[k].text)
      <3>1. CASE k \in 1 .. Len(events) /\ events'[k] = events[k]
        BY <2>2, <3>1 DEF FramingInv, EventsAreMinimal
      <3>2. CASE events'[k] = [text |-> parse_buf, terminator |-> << >>]
        <4>1. EventBytes(events'[k]) = parse_buf
          BY <1>3, <3>2
        <4>2. HasMatch(parse_buf, u)
          BY <2>2, <4>1 DEF HasMatch
        <4>3. QED
          BY <1>2, <4>2
      <3>3. QED
        BY <1>4, <3>1, <3>2
    <2>3. QED
      BY <2>1, <2>2 DEF EventsAreMinimal
  <1>9. IsUtf8(Text)' /\ NoCharacterHeld' /\ DroppedLast' /\ LoopDone'
    BY <1>1, <1>2, <1>6 DEF NoCharacterHeld, DroppedLast, LoopDone
  <1>10. QED
    BY <1>5, <1>7, <1>8, <1>9 DEF FramingInv

LEMMA BreakOffKeepsFraming ==
  ASSUME FramingInv, BreakOff
  PROVE  FramingInv'
  BY DEF BreakOff, FramingInv, BuffersOK, NothingLost, EventsAreMinimal, Uniform, Arrived, Text,
         NoCharacterHeld, DroppedLast, LoopDone

LEMMA StutterKeepsFraming ==
  ASSUME FramingInv, UNCHANGED framingVars
  PROVE  FramingInv'
  BY DEF framingVars, FramingInv, BuffersOK, NothingLost, EventsAreMinimal, Uniform, Arrived, Text,
         NoCharacterHeld, DroppedLast, LoopDone

-----------------------------------------------------------------------------
(* The theorems.                                                           *)

THEOREM FramingInvariance == FramingSpec => []FramingInv
  <1>1. FramingInv /\ [FramingNext]_framingVars => FramingInv'
    BY PushBytesKeepsFraming, SplitEventKeepsFraming, SplitNoneKeepsFraming, FlushKeepsFraming,
       BreakOffKeepsFraming, StutterKeepsFraming DEF FramingNext
  <1>2. QED
    BY FramingInitially, <1>1, PTL DEF FramingSpec

\* The state keeps its shape; only text gets to the event parser.
THEOREM BuffersCorrect == FramingSpec => []BuffersOK
  <1>1. FramingInv => BuffersOK
    BY DEF FramingInv
  <1>2. QED
    BY <1>1, FramingInvariance, PTL

\* However push_bytes receives the response, no byte is lost or moved.
THEOREM NoByteLost == FramingSpec => []NothingLost
  <1>1. FramingInv => NothingLost
    BY DEF FramingInv
  <1>2. QED
    BY <1>1, FramingInvariance, PTL

\* No event of a response that terminates its events in one way holds a
\* terminator but at its end.
THEOREM EventsMinimal == FramingSpec => []EventsAreMinimal
  <1>1. FramingInv => EventsAreMinimal
    BY DEF FramingInv
  <1>2. QED
    BY <1>1, FramingInvariance, PTL

\* What is held back when the code waits, if the response is text so far.
LEMMA OnlyALeadHeld ==
  ASSUME NEW s \in Bytes, \A n \in 1 .. Len(s) : ~ IsUtf8(SubSeq(s, 1, n))
  PROVE  /\ IsUtf8(s) => s = << >>
         /\ IsUtf8(s \o <<Cont>>) => s \in {<< >>, <<Lead>>}
  <1>0. Len(s) \in Nat /\ (Len(s) = 0 => s = << >>)
    BY EmptySeq DEF Bytes
  <1>1. ASSUME IsUtf8(s), Len(s) # 0 PROVE FALSE
    <2>1. SubSeq(s, 1, Len(s)) = s /\ Len(s) \in 1 .. Len(s)
      BY <1>0, <1>1, SubSeqFull DEF Bytes
    <2>2. QED
      BY <1>1, <2>1
  <1>2. ASSUME NEW c, c = s \o <<Cont>>, IsUtf8(c), Len(s) # 0 PROVE s = <<Lead>>
    <2>1. /\ Len(c) = Len(s) + 1 /\ c[Len(s) + 1] = Cont
          /\ \A i \in 1 .. Len(s) : c[i] = s[i]
      <3>1. <<Cont>> \in Seq(Byte) /\ Len(<<Cont>>) = 1 /\ <<Cont>>[1] = Cont
        BY DEF Byte
      <3>2. /\ Len(c) = Len(s) + Len(<<Cont>>)
            /\ \A i \in 1 .. Len(s) + Len(<<Cont>>) :
                 c[i] = IF i <= Len(s) THEN s[i] ELSE <<Cont>>[i - Len(s)]
        BY <1>2, <3>1, ConcatProperties DEF Bytes
      <3>3. QED
        BY <1>0, <3>1, <3>2
    <2>2. s[Len(s)] = Lead
      <3>1. Len(s) + 1 \in 1 .. Len(c) /\ (Len(s) + 1) - 1 = Len(s) /\ Len(s) \in 1 .. Len(s)
        BY <1>0, <1>2, <2>1
      <3>2. c[(Len(s) + 1) - 1] = Lead
        BY <1>2, <2>1, <3>1, Distinct DEF IsUtf8
      <3>3. QED
        BY <2>1, <3>1, <3>2
    <2>3. Len(s) = 1
      <3>1. ASSUME Len(s) # 1, NEW n, n = Len(s) - 1, NEW a, a = SubSeq(s, 1, n) PROVE FALSE
        <4>1. n \in 1 .. Len(s) /\ n \in 0 .. Len(s) /\ n \in Nat /\ Len(s) = n + 1
          BY <1>0, <1>2, <3>1
        <4>2. /\ a \in Bytes /\ Len(a) = n /\ SubSeq(s, n + 1, Len(s)) \in Bytes
              /\ a \o SubSeq(s, n + 1, Len(s)) = s
          <5>1. /\ SubSeq(s, 1, n) \in Seq(Byte) /\ Len(SubSeq(s, 1, n)) = n
                /\ SubSeq(s, n + 1, Len(s)) \in Seq(Byte)
                /\ SubSeq(s, 1, n) \o SubSeq(s, n + 1, Len(s)) = s
            BY <4>1, Cut DEF Bytes
          <5>2. QED
            BY <3>1, <5>1 DEF Bytes
        <4>3. IsUtf8(a)
          <5>1. ASSUME NEW b, b = SubSeq(s, n + 1, Len(s)), NEW d, d = b \o <<Cont>>
                PROVE  /\ b \in Bytes /\ d \in Bytes /\ a \o d = c
                       /\ Len(b) = 1 /\ b[1] = Lead /\ d[1] = Lead
            <6>1. b \in Bytes /\ Len(b) = 1 /\ StandsIn(b, s, n)
              <7>1. /\ SubSeq(s, n + 1, Len(s)) \in Seq(Byte)
                    /\ Len(SubSeq(s, n + 1, Len(s))) = Len(s) - n
                    /\ StandsIn(SubSeq(s, n + 1, Len(s)), s, n)
                BY <4>1, Cut DEF Bytes
              <7>2. Len(s) - n = 1
                BY <4>1
              <7>3. QED
                BY <5>1, <7>1, <7>2 DEF Bytes
            <6>2. b[1] = s[n + 1]
              <7>1. 1 \in 1 .. Len(b)
                BY <6>1
              <7>2. QED
                BY ONLY <6>1, <7>1 DEF StandsIn
            <6>3. b[1] = Lead
              BY <2>2, <4>1, <6>2
            <6>4. <<Cont>> \in Bytes /\ Len(<<Cont>>) = 1
              BY DEF Byte, Bytes
            <6>5. d \in Bytes /\ d[1] = b[1]
              <7>1. b \in Seq(Byte) /\ <<Cont>> \in Seq(Byte) /\ 1 \in 1 .. Len(b) + Len(<<Cont>>)
                BY <6>1, <6>4 DEF Bytes
              <7>2. d \in Seq(Byte) /\ d[1] = IF 1 <= Len(b) THEN b[1] ELSE <<Cont>>[1 - Len(b)]
                BY <5>1, <7>1, ConcatProperties
              <7>3. QED
                BY <6>1, <7>2 DEF Bytes
            <6>6. (a \o b) \o <<Cont>> = a \o (b \o <<Cont>>)
              BY <4>2, <6>1, <6>4, Associative
            <6>7. a \o b = s
              BY <4>2, <5>1
            <6>8. QED
              BY <1>2, <5>1, <6>1, <6>3, <6>5, <6>6, <6>7
          <5>2. ASSUME NEW d \in Bytes, a \o d = c, d[1] = Lead PROVE IsUtf8(a)
            <6>1. IsUtf8(a \o d) /\ a \in Bytes
              BY <1>2, <4>2, <5>2
            <6>2. d[1] # Cont
              BY <5>2, Distinct
            <6>3. QED
              BY <6>1, <6>2, Utf8Cut
          <5>3. ASSUME NEW b, b = SubSeq(s, n + 1, Len(s)), NEW d, d = b \o <<Cont>>
                PROVE  IsUtf8(a)
            <6>1. d \in Bytes /\ a \o d = c /\ d[1] = Lead
              BY <5>1, <5>3
            <6>2. QED
              BY ONLY <5>2, <6>1
          <5>4. QED
            BY <5>3
        <4>4. QED
          BY <3>1, <4>1, <4>3
      <3>2. QED
        BY <3>1
    <2>4. QED
      <3>1. <<Lead>> \in Seq(Byte) /\ Len(<<Lead>>) = 1 /\ <<Lead>>[1] = Lead
        BY DEF Byte
      <3>2. QED
        BY <2>2, <2>3, <3>1, SeqEqual DEF Bytes
  <1>3. QED
    BY <1>0, <1>1, <1>2

\* When push_bytes returns, no complete event and no complete character is
\* left in its buffers.
THEOREM NothingWithheld == FramingSpec => []NoEventWithheld
  <1>1. FramingInv => NoEventWithheld
    <2> SUFFICES ASSUME FramingInv, pc = "waiting" PROVE
          /\ \A t \in {Crlf, Lflf} : ~ HasMatch(parse_buf, t)
          /\ IsUtf8(Arrived) => byte_buf = << >>
          /\ IsUtf8(Arrived \o <<Cont>>) => byte_buf \in {<< >>, <<Lead>>}
      BY DEF NoEventWithheld
    <2>1. \A t \in {Crlf, Lflf} : ~ HasMatch(parse_buf, t)
      BY DEF FramingInv, LoopDone
    <2>2. byte_buf \in Bytes /\ Text \in Bytes /\ IsUtf8(Text) /\ Text \o byte_buf = Arrived
      <3>1. byte_buf \in Bytes /\ dropped = << >>
        BY DEF FramingInv, BuffersOK, DroppedLast, Bytes
      <3>2. byte_buf \o dropped = byte_buf
        BY <3>1, ConcatEmptySeq DEF Bytes
      <3>3. QED
        BY <3>1, <3>2, NothingLostMeans DEF FramingInv
    <2>3. /\ IsUtf8(byte_buf) => byte_buf = << >>
          /\ IsUtf8(byte_buf \o <<Cont>>) => byte_buf \in {<< >>, <<Lead>>}
      <3>1. \A n \in 1 .. Len(byte_buf) : ~ IsUtf8(SubSeq(byte_buf, 1, n))
        BY DEF FramingInv, NoCharacterHeld
      <3>2. QED
        BY <2>2, <3>1, OnlyALeadHeld
    <2>4. IsUtf8(Arrived) => IsUtf8(byte_buf)
      BY <2>2, Utf8Rest
    <2>5. IsUtf8(Arrived \o <<Cont>>) => IsUtf8(byte_buf \o <<Cont>>)
      <3>1. <<Cont>> \in Bytes
        BY DEF Byte, Bytes
      <3>2. Arrived \o <<Cont>> = Text \o (byte_buf \o <<Cont>>)
        BY <2>2, <3>1, Associative
      <3>3. byte_buf \o <<Cont>> \in Bytes
        BY <2>2, <3>1, ConcatProperties DEF Bytes
      <3>4. QED
        BY <2>2, <3>2, <3>3, Utf8Rest
    <2>6. QED
      BY <2>1, <2>3, <2>4, <2>5
  <1>2. QED
    BY <1>1, FramingInvariance, PTL

-----------------------------------------------------------------------------
(* The events are a function of the text.                                  *)

\* An event with its terminator, and no other one.
Minimal(e) ==
  /\ e \in Event /\ e.terminator \in {Crlf, Lflf}
  /\ \A t \in {Crlf, Lflf} : \A at \in 0 .. Len(EventBytes(e)) :
       Occurs(EventBytes(e), t, at) => t = e.terminator /\ at = Len(e.text)

\* The text consists of such events, and of a left without a terminator.
Frames(text, evs, left) ==
  /\ evs \in Seq(Event) /\ left \in Bytes
  /\ \A k \in 1 .. Len(evs) : Minimal(evs[k])
  /\ \A t \in {Crlf, Lflf} : ~ HasMatch(left, t)
  /\ FlattenSeq(Pieces(evs)) \o left = text

EventsOf(text) == CHOOSE evs \in Seq(Event) : \E left \in Bytes : Frames(text, evs, left)

\* The bytes that are text: all up to the first that cannot be.
TextOf(s) == SubSeq(s, 1, ValidUpTo(s))

DeterminedByBytes == pc = "waiting" /\ Uniform => events = EventsOf(TextOf(Arrived))

LEMMA Cancel ==
  ASSUME NEW s \in Bytes, NEW t \in Bytes, NEW u \in Bytes, s \o t = s \o u
  PROVE  t = u
  BY ConcatSimplifications DEF Bytes

\* An event ends where its terminator occurs.
LEMMA EventEnds ==
  ASSUME NEW e, Minimal(e)
  PROVE  /\ EventBytes(e) \in Bytes /\ e.text \in Bytes /\ e.terminator \in Bytes
         /\ Len(e.text) \in 0 .. Len(EventBytes(e))
         /\ Occurs(EventBytes(e), e.terminator, Len(e.text))
         /\ Len(EventBytes(e)) = Len(e.text) + Len(e.terminator)
         /\ \A i \in 1 .. Len(e.text) : EventBytes(e)[i] = e.text[i]
  <1>1. ASSUME NEW x, x = e.text, NEW t, t = e.terminator, NEW c, c = x \o t
        PROVE  /\ x \in Bytes /\ t \in Bytes /\ c \in Bytes /\ Len(x) \in 0 .. Len(c)
               /\ Occurs(c, t, Len(x)) /\ Len(c) = Len(x) + Len(t)
               /\ \A i \in 1 .. Len(x) : c[i] = x[i]
    <2>1. x \in Bytes /\ t \in Bytes /\ Len(x) \in Nat /\ Len(t) \in Nat
      BY <1>1, Terminator DEF Minimal, Event, Bytes
    <2>2. /\ c \in Bytes /\ Len(c) = Len(x) + Len(t)
          /\ \A i \in 1 .. Len(x) + Len(t) : c[i] = IF i <= Len(x) THEN x[i] ELSE t[i - Len(x)]
      BY <1>1, <2>1, ConcatProperties DEF Bytes
    <2>3. \A i \in 1 .. Len(t) : c[Len(x) + i] = t[i]
      <3>1. \A i \in 1 .. Len(t) :
              /\ Len(x) + i \in 1 .. Len(x) + Len(t) /\ ~ (Len(x) + i <= Len(x))
              /\ (Len(x) + i) - Len(x) = i
        BY <2>1
      <3>2. QED
        BY <2>2, <3>1
    <2>4. Occurs(c, t, Len(x))
      <3>1. ASSUME NEW n \in Nat, n + Len(t) <= Len(c), \A i \in 1 .. Len(t) : c[n + i] = t[i]
            PROVE  Occurs(c, t, n)
        <4>1. c \in Bytes /\ t \in Bytes /\ n \in Nat
          BY <2>1, <2>2, <3>1
        <4>2. QED
          BY ONLY <3>1, <4>1, OccursMeans
      <3>2. Len(x) + Len(t) <= Len(c)
        BY <2>1, <2>2
      <3>3. QED
        BY <2>1, <2>3, <3>1, <3>2
    <2>5. QED
      BY <2>1, <2>2, <2>4
  <1>2. QED
    BY <1>1 DEF EventBytes

\* Of two events that a text may begin with the one is no longer than the
\* other, so they are the same.
LEMMA FirstNotLonger ==
  ASSUME NEW e, Minimal(e), NEW f, Minimal(f), NEW a \in Bytes, NEW b \in Bytes,
         EventBytes(e) \o a = EventBytes(f) \o b, Len(EventBytes(e)) <= Len(EventBytes(f))
  PROVE  e = f
  <1>1. ASSUME NEW c, c = EventBytes(e), NEW d, d = EventBytes(f)
        PROVE  e.text = f.text /\ e.terminator = f.terminator
    <2>1. /\ c \in Bytes /\ d \in Bytes /\ Len(c) \in Nat /\ Len(d) \in Nat /\ Len(c) <= Len(d)
          /\ Len(a) \in Nat /\ Len(b) \in Nat /\ c \o a = d \o b
      <3>1. \A z \in Bytes : Len(z) \in Nat
        BY DEF Bytes
      <3>2. QED
        BY <1>1, <3>1, EventEnds
    <2>2. \A i \in 1 .. Len(c) : d[i] = c[i]
      <3>1. \A i \in 1 .. Len(c) : (c \o a)[i] = c[i]
        BY <2>1, ConcatProperties DEF Bytes
      <3>2. \A i \in 1 .. Len(d) : (d \o b)[i] = d[i]
        BY <2>1, ConcatProperties DEF Bytes
      <3>3. \A i \in 1 .. Len(c) : i \in 1 .. Len(d)
        BY <2>1
      <3>4. QED
        BY <2>1, <3>1, <3>2, <3>3
    <2>3. ASSUME NEW n, n = Len(e.text), NEW t, t = e.terminator
          PROVE  n \in 0 .. Len(d) /\ Occurs(d, t, n)
      <3>1. n \in 0 .. Len(c) /\ Occurs(c, t, n) /\ t \in Bytes /\ Len(t) \in Nat
        <4>1. \A z \in Bytes : Len(z) \in Nat
          BY DEF Bytes
        <4>2. QED
          BY <1>1, <2>3, <4>1, EventEnds
      <3>2. n + Len(t) <= Len(c) /\ \A i \in 1 .. Len(t) : c[n + i] = t[i]
        BY <2>1, <3>1, OccursMeans
      <3>3. \A i \in 1 .. Len(t) : n + i \in 1 .. Len(c)
        BY <2>1, <3>1, <3>2
      <3>4. n + Len(t) <= Len(d) /\ \A i \in 1 .. Len(t) : d[n + i] = t[i]
        BY <2>1, <2>2, <3>1, <3>2, <3>3
      <3>5. n \in Nat /\ n \in 0 .. Len(d)
        BY <2>1, <3>1
      <3>6. QED
        BY <2>1, <3>1, <3>4, <3>5, OccursMeans
    <2>4. e.terminator = f.terminator /\ Len(e.text) = Len(f.text)
      <3>1. e.terminator \in {Crlf, Lflf}
        BY DEF Minimal
      <3>2. Len(e.text) \in 0 .. Len(d) /\ Occurs(d, e.terminator, Len(e.text))
        BY <2>3
      <3>3. QED
        BY <1>1, <3>1, <3>2 DEF Minimal
    <2>5. e.text = f.text
      <3>1. /\ e.text \in Bytes /\ f.text \in Bytes /\ Len(e.text) \in 0 .. Len(c)
            /\ \A i \in 1 .. Len(e.text) : c[i] = e.text[i]
            /\ \A i \in 1 .. Len(f.text) : d[i] = f.text[i]
        BY <1>1, EventEnds
      <3>2. \A i \in 1 .. Len(e.text) : i \in 1 .. Len(c)
        BY <2>1, <3>1
      <3>3. \A i \in 1 .. Len(e.text) : e.text[i] = f.text[i]
        BY <2>2, <2>4, <3>1, <3>2
      <3>4. QED
        BY <2>4, <3>1, <3>3, SeqEqual DEF Bytes
    <2>6. QED
      BY <2>4, <2>5
  <1>2. e.text = f.text /\ e.terminator = f.terminator
    BY <1>1
  <1>3. QED
    BY <1>2 DEF Minimal, Event

LEMMA FirstIsUnique ==
  ASSUME NEW e, Minimal(e), NEW f, Minimal(f), NEW a \in Bytes, NEW b \in Bytes,
         EventBytes(e) \o a = EventBytes(f) \o b
  PROVE  e = f
  <1>1. Len(EventBytes(e)) \in Nat /\ Len(EventBytes(f)) \in Nat
    BY EventEnds DEF Bytes
  <1>2. CASE Len(EventBytes(e)) <= Len(EventBytes(f))
    BY <1>2, FirstNotLonger
  <1>3. CASE Len(EventBytes(f)) <= Len(EventBytes(e))
    BY <1>3, FirstNotLonger
  <1>4. QED
    BY <1>1, <1>2, <1>3

\* A text that begins with an event is not a left.
LEMMA EventIsFound ==
  ASSUME NEW e, Minimal(e), NEW a \in Bytes
  PROVE  \E t \in {Crlf, Lflf} : HasMatch(EventBytes(e) \o a, t)
  <1>1. ASSUME NEW c, c = EventBytes(e), NEW t, t = e.terminator, NEW n, n = Len(e.text)
        PROVE  HasMatch(c \o a, t)
    <2>1. c \in Bytes /\ t \in Bytes /\ n \in 0 .. Len(c) /\ Occurs(c, t, n)
      BY <1>1, EventEnds
    <2>2. QED
      BY <2>1, MatchInPrefix DEF HasMatch
  <1>2. QED
    BY <1>1 DEF Minimal

\* The bytes of the first events, and of the next one, begin those of all.
LEMMA PiecesBegin ==
  ASSUME NEW evs \in Seq(Event), NEW k \in Nat, k + 1 <= Len(evs)
  PROVE  \E x \in Bytes :
           FlattenSeq(Pieces(evs))
             = (FlattenSeq(Pieces(SubSeq(evs, 1, k))) \o EventBytes(evs[k + 1])) \o x
  <1> DEFINE Begins(n) == \E x \in Bytes :
               FlattenSeq(Pieces(evs)) = FlattenSeq(Pieces(SubSeq(evs, 1, n))) \o x
             T == {d \in Nat : d <= Len(evs) => Begins(Len(evs) - d)}
  <1>0. Len(evs) \in Nat
    OBVIOUS
  <1>1. ASSUME NEW n \in 0 .. Len(evs)
        PROVE  SubSeq(evs, 1, n) \in Seq(Event) /\ FlattenSeq(Pieces(SubSeq(evs, 1, n))) \in Bytes
    BY Cut, PiecesType
  <1>2. ASSUME NEW n \in Nat, n + 1 <= Len(evs)
        PROVE  /\ EventBytes(evs[n + 1]) \in Bytes
               /\ FlattenSeq(Pieces(SubSeq(evs, 1, n + 1)))
                    = FlattenSeq(Pieces(SubSeq(evs, 1, n))) \o EventBytes(evs[n + 1])
    <2>1. evs[n + 1] \in Event /\ n \in 0 .. Len(evs)
      BY <1>0, <1>2
    <2>2. SubSeq(evs, 1, n + 1) = Append(SubSeq(evs, 1, n), evs[n + 1])
      <3>1. ASSUME NEW p, p = SubSeq(evs, 1, n), NEW q, q = SubSeq(evs, 1, n + 1),
                   NEW w, w = Append(p, evs[n + 1])
            PROVE  q = w
        <4>1. /\ p \in Seq(Event) /\ Len(p) = n /\ \A i \in 1 .. n : p[i] = evs[i]
          BY <2>1, <3>1, Cut DEF StandsIn
        <4>2. /\ q \in Seq(Event) /\ Len(q) = n + 1 /\ \A i \in 1 .. n + 1 : q[i] = evs[i]
          <5>1. n + 1 \in 0 .. Len(evs)
            BY <1>0, <1>2
          <5>2. QED
            BY <5>1, <3>1, Cut DEF StandsIn
        <4>3. /\ w \in Seq(Event) /\ Len(w) = n + 1 /\ w[n + 1] = evs[n + 1]
              /\ \A i \in 1 .. n : w[i] = p[i]
          BY <2>1, <3>1, <4>1, AppendProperties
        <4>4. \A i \in 1 .. n + 1 : q[i] = w[i]
          <5>1. \A i \in 1 .. n + 1 : i = n + 1 \/ i \in 1 .. n
            BY <1>2
          <5>2. QED
            BY <4>1, <4>2, <4>3, <5>1
        <4>5. QED
          BY <4>2, <4>3, <4>4, SeqEqual
      <3>2. QED
        BY <3>1
    <2>3. QED
      BY <1>1, <2>1, <2>2, PiecesAppend, EventBytesType
  <1>3. 0 \in T
    <2>1. SubSeq(evs, 1, Len(evs)) = evs
      BY SubSeqFull
    <2>2. << >> \in Bytes /\ FlattenSeq(Pieces(evs)) \o << >> = FlattenSeq(Pieces(evs))
      BY PiecesType, EmptySeq, ConcatEmptySeq DEF Bytes
    <2>3. Begins(Len(evs))
      BY <2>1, <2>2
    <2>4. Len(evs) - 0 = Len(evs)
      BY <1>0
    <2>5. QED
      BY <2>3, <2>4
  <1>4. ASSUME NEW d \in Nat, d \in T PROVE d + 1 \in T
    <2>1. ASSUME d + 1 <= Len(evs), NEW n, n = Len(evs) - (d + 1) PROVE Begins(n)
      <3>1. /\ n \in Nat /\ n + 1 = Len(evs) - d /\ n + 1 <= Len(evs)
            /\ d <= Len(evs) /\ n \in 0 .. Len(evs)
        BY <1>0, <2>1
      <3>2. PICK x \in Bytes :
              FlattenSeq(Pieces(evs)) = FlattenSeq(Pieces(SubSeq(evs, 1, n + 1))) \o x
        BY <1>4, <3>1
      <3>3. ASSUME NEW p \in Bytes, p = FlattenSeq(Pieces(SubSeq(evs, 1, n))),
                   NEW e \in Bytes, e = EventBytes(evs[n + 1])
            PROVE  Begins(n)
        <4>1. FlattenSeq(Pieces(evs)) = (p \o e) \o x
          BY <1>2, <3>1, <3>2, <3>3
        <4>2. (p \o e) \o x = p \o (e \o x) /\ e \o x \in Bytes
          BY <3>3, Associative, ConcatProperties DEF Bytes
        <4>3. QED
          BY <3>3, <4>1, <4>2
      <3>4. QED
        BY <1>1, <1>2, <3>1, <3>3
    <2>2. QED
      BY <2>1
  <1>5. Len(evs) - (k + 1) \in T
    <2> HIDE DEF T
    <2>1. Nat \subseteq T
      BY <1>3, <1>4, Shared!Induction, SharedAssumption
    <2>2. Len(evs) - (k + 1) \in Nat
      BY <1>0
    <2>3. QED
      BY <2>1, <2>2
  <1>6. Begins(k + 1)
    <2>1. Len(evs) - (k + 1) <= Len(evs) /\ Len(evs) - (Len(evs) - (k + 1)) = k + 1
      BY <1>0
    <2>2. QED
      BY <1>5, <2>1
  <1>7. QED
    BY <1>2, <1>6

\* Of two ways to frame a text the one has no event the other has not.
LEMMA FramesAgree ==
  ASSUME NEW text, NEW evs, NEW r, Frames(text, evs, r), NEW fs, NEW q, Frames(text, fs, q)
  PROVE  Len(evs) <= Len(fs) /\ \A k \in 1 .. Len(evs) : evs[k] = fs[k]
  <1> DEFINE T == {n \in Nat : n <= Len(evs) =>
                     n <= Len(fs) /\ \A k \in 1 .. n : evs[k] = fs[k]}
  <1>0. /\ evs \in Seq(Event) /\ fs \in Seq(Event) /\ r \in Bytes /\ q \in Bytes
        /\ Len(evs) \in Nat /\ Len(fs) \in Nat
    BY LenProperties DEF Frames
  <1>1. 0 \in T
    BY <1>0
  <1>2. ASSUME NEW n \in Nat, n \in T PROVE n + 1 \in T
    <2> SUFFICES ASSUME n + 1 <= Len(evs)
                 PROVE  n + 1 <= Len(fs) /\ \A k \in 1 .. n + 1 : evs[k] = fs[k]
      OBVIOUS
    <2>1. n <= Len(fs) /\ \A k \in 1 .. n : evs[k] = fs[k]
      BY <1>0, <1>2
    <2>2. PICK x \in Bytes :
            FlattenSeq(Pieces(evs))
              = (FlattenSeq(Pieces(SubSeq(evs, 1, n))) \o EventBytes(evs[n + 1])) \o x
      BY <1>0, PiecesBegin
    <2>3. SubSeq(fs, 1, n) = SubSeq(evs, 1, n) /\ SubSeq(evs, 1, n) \in Seq(Event)
      <3>1. n \in 0 .. Len(evs) /\ n \in 0 .. Len(fs)
        BY <1>0, <2>1
      <3>2. ASSUME NEW g, g = SubSeq(fs, 1, n), NEW h, h = SubSeq(evs, 1, n)
            PROVE  g = h /\ h \in Seq(Event)
        <4>1. g \in Seq(Event) /\ Len(g) = n /\ \A i \in 1 .. n : g[i] = fs[i]
          BY <1>0, <3>1, <3>2, Cut DEF StandsIn
        <4>2. h \in Seq(Event) /\ Len(h) = n /\ \A i \in 1 .. n : h[i] = evs[i]
          BY <1>0, <3>1, <3>2, Cut DEF StandsIn
        <4>3. QED
          BY <2>1, <4>1, <4>2, SeqEqual
      <3>3. QED
        BY <3>2
    <2>4. evs[n + 1] \in Event /\ Minimal(evs[n + 1]) /\ EventBytes(evs[n + 1]) \in Bytes
      <3>1. n + 1 \in 1 .. Len(evs)
        BY <1>0
      <3>2. Minimal(evs[n + 1])
        BY <3>1 DEF Frames
      <3>3. QED
        BY <3>2, EventEnds DEF Minimal
    <2>5. ASSUME NEW p, p = FlattenSeq(Pieces(SubSeq(evs, 1, n))),
                 NEW e, e = EventBytes(evs[n + 1])
          PROVE  /\ p \in Bytes /\ e \o (x \o r) \in Bytes /\ x \o r \in Bytes
                 /\ text = p \o (e \o (x \o r))
      <3>1. p \in Bytes /\ e \in Bytes
        BY <2>3, <2>4, <2>5, PiecesType
      <3>2. text = ((p \o e) \o x) \o r
        BY <2>2, <2>5 DEF Frames
      <3>3. p \o e \in Bytes /\ x \o r \in Bytes
        BY <1>0, <3>1, ConcatProperties DEF Bytes
      <3>4. e \o (x \o r) \in Bytes
        BY <3>1, <3>3, ConcatProperties DEF Bytes
      <3>5. ((p \o e) \o x) \o r = (p \o e) \o (x \o r)
        BY <1>0, <3>3, Associative
      <3>6. (p \o e) \o (x \o r) = p \o (e \o (x \o r))
        BY <3>1, <3>3, Associative
      <3>7. QED
        BY <3>1, <3>2, <3>3, <3>4, <3>5, <3>6
    <2>6. CASE n = Len(fs)
      <3>1. SubSeq(fs, 1, n) = fs
        BY <1>0, <2>6, SubSeqFull
      <3>2. ASSUME NEW p, p = FlattenSeq(Pieces(SubSeq(evs, 1, n))),
                   NEW e, e = EventBytes(evs[n + 1])
            PROVE  q = e \o (x \o r) /\ x \o r \in Bytes
        <4>1. text = p \o q
          BY <2>3, <3>1, <3>2 DEF Frames
        <4>2. /\ p \in Bytes /\ e \o (x \o r) \in Bytes /\ x \o r \in Bytes
              /\ text = p \o (e \o (x \o r))
          BY <2>5, <3>2
        <4>3. QED
          BY <1>0, <4>1, <4>2, Cancel
      <3>3. q = EventBytes(evs[n + 1]) \o (x \o r) /\ x \o r \in Bytes
        BY <3>2
      <3>4. \E t \in {Crlf, Lflf} : HasMatch(q, t)
        BY <2>4, <3>3, EventIsFound
      <3>5. QED
        BY <3>4 DEF Frames
    <2>7. CASE n # Len(fs)
      <3>1. n + 1 <= Len(fs) /\ n + 1 \in 1 .. Len(fs)
        BY <1>0, <2>1, <2>7
      <3>2. Minimal(fs[n + 1]) /\ EventBytes(fs[n + 1]) \in Bytes
        BY <3>1, EventEnds DEF Frames
      <3>3. PICK y \in Bytes :
              FlattenSeq(Pieces(fs))
                = (FlattenSeq(Pieces(SubSeq(fs, 1, n))) \o EventBytes(fs[n + 1])) \o y
        BY <1>0, <3>1, PiecesBegin
      <3>4. ASSUME NEW p, p = FlattenSeq(Pieces(SubSeq(evs, 1, n))),
                   NEW e, e = EventBytes(evs[n + 1]), NEW f, f = EventBytes(fs[n + 1])
            PROVE  e \o (x \o r) = f \o (y \o q) /\ x \o r \in Bytes /\ y \o q \in Bytes
        <4>1. /\ p \in Bytes /\ e \o (x \o r) \in Bytes /\ x \o r \in Bytes
              /\ text = p \o (e \o (x \o r))
          BY <2>5, <3>4
        <4>2. /\ p \in Bytes /\ f \in Bytes /\ y \in Bytes /\ q \in Bytes
              /\ y \o q \in Bytes /\ p \o f \in Bytes
          <5>1. p \in Bytes /\ f \in Bytes /\ y \in Bytes /\ q \in Bytes
            BY <1>0, <3>2, <3>3, <3>4, <4>1
          <5>2. QED
            BY ONLY <5>1, ConcatProperties DEF Bytes
        <4>3. f \o (y \o q) \in Bytes
          BY <4>2, ConcatProperties DEF Bytes
        <4>4. text = ((p \o f) \o y) \o q
          BY <2>3, <3>3, <3>4 DEF Frames
        <4>5. ((p \o f) \o y) \o q = (p \o f) \o (y \o q)
          <5>1. ASSUME NEW z, z = p \o f PROVE (z \o y) \o q = z \o (y \o q)
            <6>1. z \in Bytes /\ y \in Bytes /\ q \in Bytes
              BY <4>2, <5>1
            <6>2. QED
              BY ONLY <6>1, Associative
          <5>2. QED
            BY <5>1
        <4>6. (p \o f) \o (y \o q) = p \o (f \o (y \o q))
          <5>1. ASSUME NEW z, z = y \o q PROVE (p \o f) \o z = p \o (f \o z)
            <6>1. p \in Bytes /\ f \in Bytes /\ z \in Bytes
              BY <4>2, <5>1
            <6>2. QED
              BY ONLY <6>1, Associative
          <5>2. QED
            BY <5>1
        <4>7. p \o (e \o (x \o r)) = p \o (f \o (y \o q))
          BY <4>1, <4>4, <4>5, <4>6
        <4>8. QED
          BY <4>1, <4>2, <4>3, <4>7, Cancel
      <3>5. /\ EventBytes(evs[n + 1]) \o (x \o r) = EventBytes(fs[n + 1]) \o (y \o q)
            /\ x \o r \in Bytes /\ y \o q \in Bytes
        BY <3>4
      <3>6. evs[n + 1] = fs[n + 1]
        BY <2>4, <3>2, <3>5, FirstIsUnique
      <3>7. \A k \in 1 .. n + 1 : k = n + 1 \/ k \in 1 .. n
        OBVIOUS
      <3>8. QED
        BY <2>1, <3>1, <3>6, <3>7
    <2>8. QED
      BY <2>6, <2>7
  <1>3. Len(evs) \in T
    <2> HIDE DEF T
    <2>1. Nat \subseteq T
      BY <1>1, <1>2, Shared!Induction, SharedAssumption
    <2>2. QED
      BY <1>0, <2>1
  <1>4. QED
    BY <1>0, <1>3

\* A text can be framed in one way only: by its events and its left.
LEMMA FramesUnique ==
  ASSUME NEW text, NEW evs, NEW r, Frames(text, evs, r), NEW fs, NEW q, Frames(text, fs, q)
  PROVE  evs = fs /\ r = q
  <1>1. /\ evs \in Seq(Event) /\ fs \in Seq(Event) /\ r \in Bytes /\ q \in Bytes
        /\ Len(evs) \in Nat /\ Len(fs) \in Nat
    BY LenProperties DEF Frames
  <1>2. Len(evs) <= Len(fs) /\ \A k \in 1 .. Len(evs) : evs[k] = fs[k]
    BY FramesAgree
  <1>3. Len(fs) <= Len(evs)
    BY FramesAgree
  <1>4. evs = fs
    BY <1>1, <1>2, <1>3, SeqEqual
  <1>5. FlattenSeq(Pieces(evs)) \in Bytes
    BY <1>1, PiecesType
  <1>6. FlattenSeq(Pieces(evs)) \o r = FlattenSeq(Pieces(evs)) \o q
    BY <1>4 DEF Frames
  <1>7. QED
    BY <1>1, <1>4, <1>5, <1>6, Cancel

\* Before the end every event has a terminator.
Terminated == pc # "flushed" => \A k \in 1 .. Len(events) : events[k].terminator \in {Crlf, Lflf}

LEMMA TerminatedKept ==
  ASSUME FramingInv, Terminated, [FramingNext]_framingVars
  PROVE  Terminated'
  <1>1. CASE SplitEvent
    <2>1. ASSUME NEW t, t = IF Crlf \in Terminators(parse_buf) THEN Crlf ELSE Lflf,
                 NEW e, e = [text |-> SubSeq(parse_buf, 1, Find(parse_buf, t)), terminator |-> t]
          PROVE  Terminated'
      <3>1. events' = Append(events, e) /\ pc = "splitting"
        BY <1>1, <2>1 DEF SplitEvent
      <3>2. e.terminator \in {Crlf, Lflf}
        BY <2>1
      <3>3. events \in Seq([text : Seq(Byte), terminator : {Crlf, Lflf, << >>}])
        BY DEF FramingInv, BuffersOK
      <3>4. \A k \in 1 .. Len(events') :
              (k \in 1 .. Len(events) /\ events'[k] = events[k]) \/ events'[k] = e
        BY <3>1, <3>3
      <3>5. QED
        BY <3>1, <3>2, <3>4 DEF Terminated
    <2>2. QED
      BY <2>1
  <1>2. CASE Flush
    BY <1>2 DEF Flush, Terminated
  <1>3. CASE UNCHANGED events /\ (pc' = "flushed" <=> pc = "flushed")
    BY <1>3 DEF Terminated
  <1>4. QED
    BY <1>1, <1>2, <1>3 DEF FramingNext, PushBytes, SplitNone, BreakOff, framingVars

\* What has become text is the longest beginning of the response that is text.
LEMMA TextIsLongest ==
  ASSUME FramingInv, pc # "flushed"
  PROVE  Text = TextOf(Arrived)
  <1>1. byte_buf \in Bytes /\ Text \in Bytes /\ IsUtf8(Text) /\ Text \o byte_buf = Arrived
    <2>1. byte_buf \in Bytes /\ dropped = << >>
      BY DEF FramingInv, BuffersOK, DroppedLast, Bytes
    <2>2. byte_buf \o dropped = byte_buf
      BY <2>1, ConcatEmptySeq DEF Bytes
    <2>3. QED
      BY <2>1, <2>2, NothingLostMeans DEF FramingInv
  <1>2. ASSUME NEW x, x = Text, NEW b, b = byte_buf, NEW s, s = Arrived, NEW v, v = ValidUpTo(s)
        PROVE  SubSeq(s, 1, v) = x
    <2>1. /\ x \in Bytes /\ b \in Bytes /\ s = x \o b /\ s \in Bytes /\ IsUtf8(x)
          /\ Len(x) \in Nat /\ Len(b) \in Nat /\ Len(s) = Len(x) + Len(b)
          /\ \A i \in 1 .. Len(x) : s[i] = x[i]
      <3>1. x \in Bytes /\ b \in Bytes /\ s = x \o b /\ IsUtf8(x)
        BY <1>1, <1>2
      <3>2. QED
        BY <3>1, ConcatProperties DEF Bytes
    <2>2. /\ v \in 0 .. Len(s) /\ IsUtf8(SubSeq(s, 1, v))
          /\ \A m \in v + 1 .. Len(s) : ~ IsUtf8(SubSeq(s, 1, m))
      BY <1>2, <2>1, ValidUpToProperties
    <2>3. SubSeq(s, 1, Len(x)) = x
      <3>1. Len(x) \in 0 .. Len(s)
        BY <2>1
      <3>2. SubSeq(s, 1, Len(x)) \in Seq(Byte) /\ Len(SubSeq(s, 1, Len(x))) = Len(x)
            /\ \A i \in 1 .. Len(x) : SubSeq(s, 1, Len(x))[i] = s[i]
        BY <2>1, <3>1, Cut DEF StandsIn, Bytes
      <3>3. QED
        BY <2>1, <3>2, SeqEqual DEF Bytes
    <2>4. Len(x) <= v
      <3>1. ASSUME ~ (Len(x) <= v) PROVE FALSE
        <4>1. Len(x) \in v + 1 .. Len(s)
          BY <2>1, <2>2, <3>1
        <4>2. QED
          BY <2>1, <2>2, <2>3, <4>1
      <3>2. QED
        BY <3>1
    <2>5. v <= Len(x)
      <3>1. ASSUME ~ (v <= Len(x)), NEW n, n = v - Len(x), NEW c, c = SubSeq(b, 1, n) PROVE FALSE
        <4>1. n \in 1 .. Len(b) /\ n \in 0 .. Len(b) /\ v = Len(x) + n
          BY <2>1, <2>2, <3>1
        <4>2. c \in Bytes /\ Len(c) = n /\ \A i \in 1 .. n : c[i] = b[i]
          BY <2>1, <3>1, <4>1, Cut DEF StandsIn, Bytes
        <4>3. SubSeq(s, 1, v) = x \o c
          <5>1. /\ SubSeq(s, 1, v) \in Seq(Byte) /\ Len(SubSeq(s, 1, v)) = v
                /\ \A i \in 1 .. v : SubSeq(s, 1, v)[i] = s[i]
            BY <2>1, <2>2, Cut DEF StandsIn, Bytes
          <5>2. /\ x \o c \in Seq(Byte) /\ Len(x \o c) = v
                /\ \A i \in 1 .. v : (x \o c)[i] = IF i <= Len(x) THEN x[i] ELSE c[i - Len(x)]
            <6>1. /\ x \o c \in Seq(Byte) /\ Len(x \o c) = Len(x) + Len(c)
                  /\ \A i \in 1 .. Len(x) + Len(c) :
                       (x \o c)[i] = IF i <= Len(x) THEN x[i] ELSE c[i - Len(x)]
              <7>1. x \in Seq(Byte) /\ c \in Seq(Byte)
                BY <2>1, <4>2 DEF Bytes
              <7>2. QED
                BY ONLY <7>1, ConcatProperties
            <6>2. Len(x) + Len(c) = v
              BY <4>1, <4>2
            <6>3. QED
              BY <6>1, <6>2
          <5>3. \A i \in 1 .. Len(s) : s[i] = IF i <= Len(x) THEN x[i] ELSE b[i - Len(x)]
            BY <2>1, ConcatProperties DEF Bytes
          <5>4. \A i \in 1 .. v : i \in 1 .. Len(s) /\ (~ (i <= Len(x)) => i - Len(x) \in 1 .. n)
            BY <2>1, <2>2, <4>1
          <5>5. \A i \in 1 .. v : SubSeq(s, 1, v)[i] = (x \o c)[i]
            BY <4>2, <5>1, <5>2, <5>3, <5>4
          <5>6. QED
            BY <5>1, <5>2, <5>5, SeqEqual
        <4>4. IsUtf8(c)
          BY <2>1, <2>2, <4>2, <4>3, Utf8Rest
        <4>5. ~ IsUtf8(c)
          BY <1>2, <3>1, <4>1 DEF FramingInv, NoCharacterHeld
        <4>6. QED
          BY <4>4, <4>5
      <3>2. QED
        BY <3>1
    <2>6. v = Len(x)
      BY <2>1, <2>2, <2>4, <2>5
    <2>7. QED
      BY <2>3, <2>6
  <1>3. QED
    BY <1>2 DEF TextOf

LEMMA FramedByText ==
  ASSUME FramingInv, Terminated, pc = "waiting", Uniform
  PROVE  Frames(TextOf(Arrived), events, parse_buf)
  <1>1. events \in Seq(Event) /\ parse_buf \in Bytes
    BY DEF FramingInv, BuffersOK, Event, Bytes
  <1>2. \A k \in 1 .. Len(events) : Minimal(events[k])
    <2>1. \A k \in 1 .. Len(events) : events[k] \in Event
      BY <1>1, ElementOfSeq
    <2>2. QED
      BY <2>1 DEF FramingInv, EventsAreMinimal, Terminated, Minimal
  <1>3. \A t \in {Crlf, Lflf} : ~ HasMatch(parse_buf, t)
    BY DEF FramingInv, LoopDone
  <1>4. FlattenSeq(Pieces(events)) \o parse_buf = TextOf(Arrived)
    BY TextIsLongest DEF Text
  <1>5. QED
    BY <1>1, <1>2, <1>3, <1>4 DEF Frames

\* sse.rs:75-82: chunks may end anywhere.  Whenever push_bytes has returned, the
\* events it made are a function of the bytes that have arrived, not of where
\* they were cut, in every response that terminates its events in one way.
THEOREM CutsDoNotMatter == FramingSpec => []DeterminedByBytes
  <1>1. FramingInv /\ Terminated => DeterminedByBytes
    <2> SUFFICES ASSUME FramingInv, Terminated, pc = "waiting", Uniform
                 PROVE  events = EventsOf(TextOf(Arrived))
      BY DEF DeterminedByBytes
    <2>1. ASSUME NEW text, text = TextOf(Arrived) PROVE events = EventsOf(text)
      <3>1. Frames(text, events, parse_buf)
        BY <2>1, FramedByText
      <3>2. events \in Seq(Event) /\ \E left \in Bytes : Frames(text, events, left)
        BY <3>1 DEF Frames
      <3>3. PICK left \in Bytes : Frames(text, EventsOf(text), left)
        BY <3>2 DEF EventsOf
      <3>4. QED
        BY <3>1, <3>3, FramesUnique
    <2>2. QED
      BY <2>1
  <1>2. FramingSpec => []Terminated
    <2>1. FramingInit => Terminated
      BY LenProperties, EmptySeq DEF FramingInit, Terminated
    <2>2. FramingInv /\ Terminated /\ [FramingNext]_framingVars => Terminated'
      BY TerminatedKept
    <2>3. QED
      BY <2>1, <2>2, FramingInvariance, PTL DEF FramingSpec
  <1>3. QED
    BY <1>1, <1>2, FramingInvariance, PTL

-----------------------------------------------------------------------------
(***************************************************************************)
(* SseReverser.                                                            *)
(***************************************************************************)

LEMMA PrefixChar ==
  ASSUME NEW i \in 1 .. Len(SecretPrefix)
  PROVE  SecretPrefix[i] \in Slug
  BY CharAssumption, ElementOfSeq

\* Behind its first character, a partial placeholder has only slug characters.
LEMMA PartialSlug ==
  ASSUME NEW s, NEW a \in Int, NEW n \in Int, PartialAt(s, a, n), NEW i \in a + 1 .. n
  PROVE  s[i] \in Slug
  <1>1. Len(SecretPrefix) \in Nat
    BY CharAssumption
  <1>2. CASE i - a <= Len(SecretPrefix)
    <2>1. i - a \in 1 .. Len(SecretPrefix)
      BY <1>1, <1>2
    <2>2. s[i] = SecretPrefix[i - a]
      BY <1>2 DEF PartialAt
    <2>3. QED
      BY <2>1, <2>2, PrefixChar
  <1>3. CASE ~ (i - a <= Len(SecretPrefix))
    BY <1>3 DEF PartialAt
  <1>4. QED
    BY <1>2, <1>3

\* A prefix of a partial placeholder is a partial placeholder.
LEMMA PartialShorter ==
  ASSUME NEW s, NEW a \in Int, NEW n \in Int, NEW m \in Int, m <= n, PartialAt(s, a, n)
  PROVE  PartialAt(s, a, m)
  BY DEF PartialAt

\* Only s[a..n] matters.
LEMMA PartialSame ==
  ASSUME NEW s, NEW t, NEW a \in Int, NEW n \in Int, NEW d \in Int, a <= n,
         \A i \in a .. n : s[i + d] = t[i]
  PROVE  PartialAt(s, a + d, n + d) <=> PartialAt(t, a, n)
  <1>1. ASSUME PartialAt(t, a, n) PROVE PartialAt(s, a + d, n + d)
    <2>1. s[a + d] = Open
      BY <1>1 DEF PartialAt
    <2>2. ASSUME NEW i \in a + d + 1 .. n + d
          PROVE  IF i - (a + d) <= Len(SecretPrefix)
                 THEN s[i] = SecretPrefix[i - (a + d)] ELSE s[i] \in Slug
      <3>1. i - d \in a + 1 .. n /\ s[i] = t[i - d] /\ i - (a + d) = (i - d) - a
        <4>1. i - d \in a .. n /\ (i - d) + d = i
          OBVIOUS
        <4>2. QED
          BY <4>1
      <3>2. QED
        BY <1>1, <3>1 DEF PartialAt
    <2>3. QED
      BY <2>1, <2>2 DEF PartialAt
  <1>2. ASSUME PartialAt(s, a + d, n + d) PROVE PartialAt(t, a, n)
    <2>1. t[a] = Open
      BY <1>2 DEF PartialAt
    <2>2. ASSUME NEW i \in a + 1 .. n
          PROVE  IF i - a <= Len(SecretPrefix)
                 THEN t[i] = SecretPrefix[i - a] ELSE t[i] \in Slug
      <3>1. /\ i + d \in a + d + 1 .. n + d /\ s[i + d] = t[i]
            /\ (i + d) - (a + d) = i - a
        OBVIOUS
      <3>2. QED
        BY <1>2, <3>1 DEF PartialAt
    <2>3. QED
      BY <2>1, <2>2 DEF PartialAt
  <1>3. QED
    BY <1>1, <1>2

\* The shape of a match: guillemets at the ends and only there.
LEMMA PlaceholderShape ==
  ASSUME NEW s, NEW a \in Int, NEW b \in Int, PlaceholderAt(s, a, b)
  PROVE  /\ a < b
         /\ s[a] = Open /\ s[b] = Close
         /\ \A i \in a + 1 .. b - 1 : s[i] \in Slug
         /\ \A i \in a + 1 .. b : s[i] # Open
         /\ PartialAt(s, a, b - 1)
  <1>1. s[b] = Close /\ PartialAt(s, a, b - 1)
    BY DEF PlaceholderAt
  <1>2. a < b
    <2>1. Len(SecretPrefix) \in Nat
      BY CharAssumption
    <2>2. QED
      BY <2>1 DEF PlaceholderAt
  <1>3. s[a] = Open
    BY <1>1 DEF PartialAt
  <1>4. \A i \in a + 1 .. b - 1 : s[i] \in Slug
    BY <1>1, PartialSlug
  <1>5. \A i \in a + 1 .. b : s[i] # Open
    BY <1>1, <1>2, <1>4, CharAssumption
  <1>6. QED
    BY <1>1, <1>2, <1>3, <1>4, <1>5

\* Only s[a..b] matters for a match.
LEMMA PlaceholderSame ==
  ASSUME NEW s, NEW t, NEW a \in Int, NEW b \in Int, NEW d \in Int, a < b,
         \A i \in a .. b : s[i + d] = t[i]
  PROVE  PlaceholderAt(s, a + d, b + d) <=> PlaceholderAt(t, a, b)
  <1>0. Len(SecretPrefix) \in Nat
    BY CharAssumption
  <1>1. PartialAt(s, a + d, (b + d) - 1) <=> PartialAt(t, a, b - 1)
    <2>1. \A i \in a .. b - 1 : s[i + d] = t[i]
      OBVIOUS
    <2>2. (b + d) - 1 = (b - 1) + d /\ a <= b - 1
      OBVIOUS
    <2>3. QED
      BY <2>1, <2>2, PartialSame
  <1>2. s[b + d] = t[b]
    OBVIOUS
  <1> DEFINE Number(r, lo, hi, u) == r[u] = Underscore /\ \A i \in u + 1 .. hi - 1 : r[i] \in Digit
  <1>3. \A u \in a + 1 .. b - 1 : Number(s, a + d, b + d, u + d) <=> Number(t, a, b, u)
    <2> SUFFICES ASSUME NEW u \in a + 1 .. b - 1
                 PROVE  Number(s, a + d, b + d, u + d) <=> Number(t, a, b, u)
      OBVIOUS
    <2>1. s[u + d] = t[u]
      OBVIOUS
    <2>2. \A i \in u + 1 .. b - 1 : s[i + d] = t[i]
      OBVIOUS
    <2>3. (\A i \in u + d + 1 .. (b + d) - 1 : s[i] \in Digit)
            <=> (\A i \in u + 1 .. b - 1 : t[i] \in Digit)
      <3>1. ASSUME \A i \in u + d + 1 .. (b + d) - 1 : s[i] \in Digit, NEW i \in u + 1 .. b - 1
            PROVE  t[i] \in Digit
        <4>1. i + d \in u + d + 1 .. (b + d) - 1
          OBVIOUS
        <4>2. QED
          BY <4>1, <3>1, <2>2
      <3>2. ASSUME \A i \in u + 1 .. b - 1 : t[i] \in Digit, NEW i \in u + d + 1 .. (b + d) - 1
            PROVE  s[i] \in Digit
        <4>1. i - d \in u + 1 .. b - 1 /\ (i - d) + d = i
          OBVIOUS
        <4>2. QED
          BY <4>1, <3>2, <2>2
      <3>3. QED
        BY <3>1, <3>2
    <2>4. QED
      BY <2>1, <2>3
  <1>4. (\E u \in (a + d) + Len(SecretPrefix) + 2 .. (b + d) - 2 : Number(s, a + d, b + d, u))
          <=> (\E u \in a + Len(SecretPrefix) + 2 .. b - 2 : Number(t, a, b, u))
    <2>1. ASSUME NEW u \in (a + d) + Len(SecretPrefix) + 2 .. (b + d) - 2,
                 Number(s, a + d, b + d, u)
          PROVE  \E v \in a + Len(SecretPrefix) + 2 .. b - 2 : Number(t, a, b, v)
      <3>1. /\ u - d \in a + Len(SecretPrefix) + 2 .. b - 2
            /\ u - d \in a + 1 .. b - 1 /\ (u - d) + d = u
        BY <1>0
      <3>2. Number(t, a, b, u - d)
        BY <2>1, <3>1, <1>3
      <3>3. QED
        BY <3>1, <3>2
    <2>2. ASSUME NEW u \in a + Len(SecretPrefix) + 2 .. b - 2, Number(t, a, b, u)
          PROVE  \E v \in (a + d) + Len(SecretPrefix) + 2 .. (b + d) - 2 :
                   Number(s, a + d, b + d, v)
      <3>1. /\ u + d \in (a + d) + Len(SecretPrefix) + 2 .. (b + d) - 2
            /\ u \in a + 1 .. b - 1
        BY <1>0, SMTT(30)
      <3>2. Number(s, a + d, b + d, u + d)
        BY <2>2, <3>1, <1>3
      <3>3. QED
        BY <3>1, <3>2
    <2>3. QED
      BY <2>1, <2>2
  <1>5. QED
    BY <1>1, <1>2, <1>4 DEF PlaceholderAt

-----------------------------------------------------------------------------
\* Entry i of the reversed text.
PieceOf(s, i) ==
  IF \E m \in KnownMatches(s) : i = m[1]
  THEN Original[SubSeq(s, i, (CHOOSE m \in KnownMatches(s) : i = m[1])[2])]
  ELSE IF \E m \in KnownMatches(s) : Inside(i, m) THEN NoPiece ELSE s[i]

LEMMA MatchShape ==
  ASSUME NEW s \in Seq(Char), NEW m \in KnownMatches(s)
  PROVE  /\ m[1] \in 1 .. Len(s) /\ m[2] \in 1 .. Len(s) /\ m[1] < m[2]
         /\ m = <<m[1], m[2]>>
         /\ PlaceholderAt(s, m[1], m[2])
         /\ SubSeq(s, m[1], m[2]) \in DOMAIN Original
         /\ s[m[2]] = Close
         /\ \A i \in m[1] + 1 .. m[2] - 1 : s[i] \in Slug
         /\ \A i \in m[1] + 1 .. m[2] : s[i] # Open
         /\ PartialAt(s, m[1], m[2] - 1)
  <1>1. /\ m[1] \in 1 .. Len(s) /\ m[2] \in 1 .. Len(s) /\ m[1] < m[2]
        /\ m = <<m[1], m[2]>>
        /\ PlaceholderAt(s, m[1], m[2])
        /\ SubSeq(s, m[1], m[2]) \in DOMAIN Original
    BY DEF KnownMatches
  <1>2. m[1] \in Int /\ m[2] \in Int
    BY <1>1
  <1>3. QED
    BY <1>1, <1>2, PlaceholderShape

\* At most one match starts at a position.
LEMMA MatchUnique ==
  ASSUME NEW s \in Seq(Char), NEW m \in KnownMatches(s), NEW k \in KnownMatches(s),
         m[1] = k[1]
  PROVE  m = k
  <1>1. ASSUME NEW p \in KnownMatches(s), NEW q \in KnownMatches(s), p[1] = q[1],
               p[2] < q[2]
        PROVE  FALSE
    <2>1. p[2] \in q[1] + 1 .. q[2] - 1
      BY <1>1, MatchShape
    <2>2. s[p[2]] = Close /\ s[p[2]] \in Slug
      BY <2>1, MatchShape
    <2>3. QED
      BY <2>2, CharAssumption
  <1>2. m[2] \in Int /\ k[2] \in Int
    BY MatchShape
  <1>3. m[2] = k[2]
    BY <1>1, <1>2
  <1>4. m = <<m[1], m[2]>> /\ k = <<k[1], k[2]>>
    BY MatchShape
  <1>5. QED
    BY <1>3, <1>4

\* The three kinds of entry of a reversed text.
LEMMA PieceAtStart ==
  ASSUME NEW s \in Seq(Char), NEW m \in KnownMatches(s)
  PROVE  PieceOf(s, m[1]) = Original[SubSeq(s, m[1], m[2])]
  <1> DEFINE c == CHOOSE k \in KnownMatches(s) : m[1] = k[1]
  <1>1. c \in KnownMatches(s) /\ m[1] = c[1]
    OBVIOUS
  <1>2. c = m
    BY <1>1, MatchUnique
  <1>3. PieceOf(s, m[1]) = Original[SubSeq(s, m[1], c[2])]
    BY DEF PieceOf
  <1>4. QED
    BY <1>2, <1>3

LEMMA PieceInside ==
  ASSUME NEW s \in Seq(Char), NEW i \in 1 .. Len(s),
         \A m \in KnownMatches(s) : i # m[1],
         NEW k \in KnownMatches(s), Inside(i, k)
  PROVE  PieceOf(s, i) = NoPiece
  BY DEF PieceOf

LEMMA PieceOutside ==
  ASSUME NEW s \in Seq(Char), NEW i \in 1 .. Len(s),
         \A m \in KnownMatches(s) : ~ Inside(i, m)
  PROVE  PieceOf(s, i) = s[i]
  <1>1. \A m \in KnownMatches(s) : i # m[1]
    <2> SUFFICES ASSUME NEW m \in KnownMatches(s), i = m[1] PROVE FALSE
      OBVIOUS
    <2>1. Inside(i, m)
      BY MatchShape DEF Inside
    <2>2. QED
      BY <2>1
  <1>2. QED
    BY <1>1 DEF PieceOf

LEMMA ReversedType ==
  ASSUME NEW s \in Seq(Char)
  PROVE  /\ Reversed(s) \in Seq(Piece)
         /\ Len(Reversed(s)) = Len(s)
         /\ \A i \in 1 .. Len(s) : Reversed(s)[i] = PieceOf(s, i)
  <1>1. Len(s) \in Nat
    BY LenProperties
  <1>2. Reversed(s) = [i \in 1 .. Len(s) |-> PieceOf(s, i)]
    BY DEF Reversed, PieceOf
  <1>3. ASSUME NEW i \in 1 .. Len(s) PROVE PieceOf(s, i) \in Piece
    <2>1. CASE \E m \in KnownMatches(s) : i = m[1]
      <3>1. PICK m \in KnownMatches(s) : i = m[1]
        BY <2>1
      <3>2. PieceOf(s, i) = Original[SubSeq(s, m[1], m[2])]
        BY <3>1, PieceAtStart
      <3>3. SubSeq(s, m[1], m[2]) \in DOMAIN Original
        BY MatchShape
      <3>4. QED
        BY <3>2, <3>3 DEF Piece
    <2>2. CASE /\ \A m \in KnownMatches(s) : i # m[1]
               /\ \E m \in KnownMatches(s) : Inside(i, m)
      BY <2>2, PieceInside DEF Piece
    <2>3. CASE \A m \in KnownMatches(s) : ~ Inside(i, m)
      <3>1. PieceOf(s, i) = s[i]
        BY <2>3, PieceOutside
      <3>2. s[i] \in Char
        BY ElementOfSeq
      <3>3. QED
        BY <3>1, <3>2 DEF Piece
    <2>4. QED
      BY <2>1, <2>2, <2>3
  <1>4. Reversed(s) \in [1 .. Len(s) -> Piece]
    BY <1>2, <1>3
  <1>5. Reversed(s) \in Seq(Piece)
    BY <1>1, <1>4, SeqDef
  <1>6. DOMAIN Reversed(s) = 1 .. Len(Reversed(s)) /\ Len(Reversed(s)) \in Nat
    BY <1>5, LenProperties
  <1>7. Len(Reversed(s)) = Len(s)
    BY <1>1, <1>2, <1>6
  <1>8. QED
    BY <1>2, <1>5, <1>7

-----------------------------------------------------------------------------
\* No placeholder lies across position p of s.
NoneAcross(s, p) == \A m \in KnownMatches(s) : ~ (m[1] <= p /\ p < m[2])

\* The matches of two parts are matches of the whole, and the other way round
\* for those that lie in one part.
LEMMA MatchesOfConcat ==
  ASSUME NEW s \in Seq(Char), NEW t \in Seq(Char), NEW a \in Int, NEW b \in Int
  PROVE  /\ b <= Len(s) => (<<a, b>> \in KnownMatches(s) <=> <<a, b>> \in KnownMatches(s \o t))
         /\ a > 0 => (<<a, b>> \in KnownMatches(t)
                         <=> <<a + Len(s), b + Len(s)>> \in KnownMatches(s \o t))
         /\ b <= Len(s) /\ 0 < a /\ a < b => SubSeq(s, a, b) = SubSeq(s \o t, a, b)
         /\ 0 < a /\ a < b /\ b <= Len(t) =>
              SubSeq(t, a, b) = SubSeq(s \o t, a + Len(s), b + Len(s))
  <1> DEFINE u == s \o t
             p == Len(s)
  <1>1. /\ u \in Seq(Char) /\ Len(u) = p + Len(t)
        /\ \A i \in 1 .. p + Len(t) : u[i] = IF i <= p THEN s[i] ELSE t[i - p]
        /\ p \in Nat /\ Len(t) \in Nat
    BY ConcatProperties, LenProperties
  <1>2. \A i \in 1 .. p : u[i] = s[i]
    BY <1>1
  <1>3. \A i \in 1 .. Len(t) : u[i + p] = t[i]
    BY <1>1
  <1> HIDE DEF u, p
  <1>4. ASSUME b <= p, 0 < a, a < b
        PROVE  /\ SubSeq(s, a, b) = SubSeq(u, a, b)
               /\ PlaceholderAt(s, a, b) <=> PlaceholderAt(u, a, b)
    <2>1. \A i \in a .. b : i \in 1 .. Len(s) /\ u[i] = s[i] /\ s[i] \in Char
      BY <1>1, <1>2, <1>4, ElementOfSeq DEF p
    <2>2. PlaceholderAt(s, a, b) <=> PlaceholderAt(u, a, b)
      <3>1. ASSUME NEW d \in Int, d = 0
            PROVE  PlaceholderAt(u, a + d, b + d) <=> PlaceholderAt(s, a, b)
        <4> \A i \in a .. b : u[i + d] = s[i]
          BY <2>1, <3>1
        <4>1. QED
          BY <1>4, PlaceholderSame
      <3>2. QED
        BY <3>1
    <2>3. /\ SubSeq(s, a, b) \in Seq(Char) /\ Len(SubSeq(s, a, b)) = b - a + 1
          /\ \A i \in 1 .. b - a + 1 : SubSeq(s, a, b)[i] = s[a + i - 1]
      BY <2>1, <1>4, SubSeqProperties
    <2>4. /\ SubSeq(u, a, b) \in Seq(Char) /\ Len(SubSeq(u, a, b)) = b - a + 1
          /\ \A i \in 1 .. b - a + 1 : SubSeq(u, a, b)[i] = u[a + i - 1]
      BY <2>1, <1>4, SubSeqProperties
    <2>5. \A i \in 1 .. b - a + 1 : s[a + i - 1] = u[a + i - 1]
      <3> SUFFICES ASSUME NEW i \in 1 .. b - a + 1 PROVE s[a + i - 1] = u[a + i - 1]
        OBVIOUS
      <3>1. a + i - 1 \in a .. b
        OBVIOUS
      <3>2. QED
        BY <3>1, <2>1
    <2>6. \A i \in 1 .. Len(SubSeq(s, a, b)) : SubSeq(s, a, b)[i] = SubSeq(u, a, b)[i]
      BY <2>3, <2>4, <2>5
    <2>7. SubSeq(s, a, b) = SubSeq(u, a, b)
      BY <2>3, <2>4, <2>6, SeqEqual
    <2>8. QED
      BY <2>2, <2>7
  <1>5. ASSUME 0 < a, a < b, b <= Len(t)
        PROVE  /\ SubSeq(t, a, b) = SubSeq(u, a + p, b + p)
               /\ PlaceholderAt(t, a, b) <=> PlaceholderAt(u, a + p, b + p)
    <2>1. \A i \in a .. b : u[i + p] = t[i] /\ t[i] \in Char
      BY <1>1, <1>3, <1>5, ElementOfSeq
    <2> \A i \in a .. b : u[i + p] = t[i]
      BY <2>1
    <2> p \in Int
      BY <1>1
    <2>2. PlaceholderAt(u, a + p, b + p) <=> PlaceholderAt(t, a, b)
      BY <1>5, PlaceholderSame
    <2>3. /\ SubSeq(t, a, b) \in Seq(Char) /\ Len(SubSeq(t, a, b)) = b - a + 1
          /\ \A i \in 1 .. b - a + 1 : SubSeq(t, a, b)[i] = t[a + i - 1]
      BY <2>1, <1>5, SubSeqProperties
    <2>4. \A i \in a + p .. b + p : u[i] \in Char
      BY <1>1, <1>5, ElementOfSeq
    <2>5. a + p \in Int /\ b + p \in Int /\ (b + p) - (a + p) + 1 = b - a + 1 /\ a + p <= b + p
      BY <1>1, <1>5
    <2>6. /\ SubSeq(u, a + p, b + p) \in Seq(Char)
          /\ Len(SubSeq(u, a + p, b + p)) = b - a + 1
          /\ \A i \in 1 .. b - a + 1 : SubSeq(u, a + p, b + p)[i] = u[(a + p) + i - 1]
      BY <2>4, <2>5, SubSeqProperties
    <2>7. \A i \in 1 .. b - a + 1 : u[(a + p) + i - 1] = t[a + i - 1]
      <3> SUFFICES ASSUME NEW i \in 1 .. b - a + 1 PROVE u[(a + p) + i - 1] = t[a + i - 1]
        OBVIOUS
      <3>1. a + i - 1 \in a .. b /\ (a + p) + i - 1 = (a + i - 1) + p
        BY <1>1
      <3>2. QED
        BY <3>1, <2>1
    <2>8. \A i \in 1 .. Len(SubSeq(t, a, b)) : SubSeq(t, a, b)[i] = SubSeq(u, a + p, b + p)[i]
      BY <2>3, <2>6, <2>7
    <2>9. SubSeq(t, a, b) = SubSeq(u, a + p, b + p)
      <3>1. ASSUME NEW x, NEW y, x = SubSeq(t, a, b), y = SubSeq(u, a + p, b + p)
            PROVE  x = y
        <4>1. x \in Seq(Char) /\ y \in Seq(Char) /\ Len(x) = Len(y)
          BY <2>3, <2>6, <3>1
        <4>2. \A i \in 1 .. Len(x) : x[i] = y[i]
          BY <2>8, <3>1
        <4>3. QED
          BY ONLY <4>1, <4>2, SeqEqual
      <3>2. QED
        BY <3>1
    <2>10. QED
      BY <2>2, <2>9
  <1>6. ASSUME b <= p
        PROVE  <<a, b>> \in KnownMatches(s) <=> <<a, b>> \in KnownMatches(u)
    <2>1. CASE 0 < a /\ a < b
      <3>1. a \in 1 .. Len(s) /\ b \in 1 .. Len(s) /\ a \in 1 .. Len(u) /\ b \in 1 .. Len(u)
        BY <2>1, <1>6, <1>1 DEF p
      <3>2. QED
        BY <2>1, <3>1, <1>4, <1>6 DEF KnownMatches
    <2>2. CASE ~ (0 < a /\ a < b)
      BY <2>2 DEF KnownMatches
    <2>3. QED
      BY <2>1, <2>2
  <1>7. ASSUME a > 0
        PROVE  <<a, b>> \in KnownMatches(t) <=> <<a + p, b + p>> \in KnownMatches(u)
    <2>1. CASE a < b /\ b <= Len(t)
      <3>1. /\ a \in 1 .. Len(t) /\ b \in 1 .. Len(t)
            /\ a + p \in 1 .. Len(u) /\ b + p \in 1 .. Len(u) /\ a + p < b + p
        BY <2>1, <1>7, <1>1
      <3>2. QED
        BY <2>1, <3>1, <1>5, <1>7 DEF KnownMatches
    <2>2. CASE ~ (a < b /\ b <= Len(t))
      <3>1. <<a, b>> \notin KnownMatches(t)
        BY <2>2, <1>1 DEF KnownMatches
      <3>2. ~ (a + p < b + p /\ b + p <= Len(u))
        BY <2>2, <1>1
      <3>3. <<a + p, b + p>> \notin KnownMatches(u)
        BY <3>2, <1>1 DEF KnownMatches
      <3>4. QED
        BY <3>1, <3>3
    <2>3. QED
      BY <2>1, <2>2
  <1>8. QED
    BY <1>4, <1>5, <1>6, <1>7 DEF u, p

\* Reversing two parts separately is reversing the whole, when no placeholder
\* lies across the cut.
LEMMA ReversedConcat ==
  ASSUME NEW s \in Seq(Char), NEW t \in Seq(Char), NoneAcross(s \o t, Len(s))
  PROVE  Reversed(s \o t) = Reversed(s) \o Reversed(t)
  <1> DEFINE u == s \o t
             p == Len(s)
  <1>1. /\ u \in Seq(Char) /\ Len(u) = p + Len(t)
        /\ \A i \in 1 .. p + Len(t) : u[i] = IF i <= p THEN s[i] ELSE t[i - p]
        /\ p \in Nat /\ Len(t) \in Nat
    BY ConcatProperties, LenProperties
  <1>2. /\ Reversed(s) \in Seq(Piece) /\ Len(Reversed(s)) = p
        /\ Reversed(t) \in Seq(Piece) /\ Len(Reversed(t)) = Len(t)
        /\ Reversed(u) \in Seq(Piece) /\ Len(Reversed(u)) = Len(u)
        /\ \A i \in 1 .. Len(u) : Reversed(u)[i] = PieceOf(u, i)
        /\ \A i \in 1 .. p : Reversed(s)[i] = PieceOf(s, i)
        /\ \A i \in 1 .. Len(t) : Reversed(t)[i] = PieceOf(t, i)
    BY <1>1, ReversedType
  <1>3. /\ Reversed(s) \o Reversed(t) \in Seq(Piece)
        /\ Len(Reversed(s) \o Reversed(t)) = p + Len(t)
        /\ \A i \in 1 .. p + Len(t) : (Reversed(s) \o Reversed(t))[i] =
             IF i <= p THEN Reversed(s)[i] ELSE Reversed(t)[i - p]
    <2>1. Reversed(s) \in Seq(Piece) /\ Reversed(t) \in Seq(Piece)
      BY <1>2
    <2>2. /\ Reversed(s) \o Reversed(t) \in Seq(Piece)
          /\ Len(Reversed(s) \o Reversed(t)) = Len(Reversed(s)) + Len(Reversed(t))
          /\ \A i \in 1 .. Len(Reversed(s)) + Len(Reversed(t)) :
               (Reversed(s) \o Reversed(t))[i] =
               IF i <= Len(Reversed(s)) THEN Reversed(s)[i]
               ELSE Reversed(t)[i - Len(Reversed(s))]
      BY <2>1, ConcatProperties
    <2>3. QED
      BY <2>2, <1>2
  <1>0. NoneAcross(u, p)
    OBVIOUS
  <1> HIDE DEF u, p
  <1>4. \A m \in KnownMatches(u) : m[2] <= p \/ p < m[1]
    <2> SUFFICES ASSUME NEW m \in KnownMatches(u) PROVE m[2] <= p \/ p < m[1]
      OBVIOUS
    <2>1. m[1] \in Int /\ m[2] \in Int
      BY <1>1, MatchShape
    <2>2. QED
      BY <1>0, <1>1, <2>1 DEF NoneAcross
  <1>5. ASSUME NEW m \in KnownMatches(s)
        PROVE  m \in KnownMatches(u) /\ SubSeq(u, m[1], m[2]) = SubSeq(s, m[1], m[2])
    <2>1. /\ m[1] \in 1 .. Len(s) /\ m[2] \in 1 .. Len(s) /\ m[1] < m[2] /\ m = <<m[1], m[2]>>
      BY MatchShape
    <2> DEFINE a == m[1]
               b == m[2]
    <2>2. a \in Int /\ b \in Int /\ b <= Len(s) /\ 0 < a /\ a < b /\ m = <<a, b>>
      BY <2>1, <1>1 DEF p
    <2> HIDE DEF a, b
    <2>3. <<a, b>> \in KnownMatches(s) <=> <<a, b>> \in KnownMatches(u)
      BY <2>2, MatchesOfConcat DEF u
    <2>4. SubSeq(s, a, b) = SubSeq(u, a, b)
      BY <2>2, MatchesOfConcat DEF u
    <2>5. m \in KnownMatches(u)
      BY <2>2, <2>3
    <2>6. QED
      BY <2>4, <2>5 DEF a, b
  <1>6. ASSUME NEW m \in KnownMatches(u), m[1] <= p
        PROVE  m \in KnownMatches(s)
    <2>1. /\ m[1] \in 1 .. Len(u) /\ m[2] \in 1 .. Len(u) /\ m[1] < m[2] /\ m = <<m[1], m[2]>>
      BY <1>1, MatchShape
    <2> DEFINE a == m[1]
               b == m[2]
    <2>2. a \in Int /\ b \in Int /\ b <= Len(s) /\ m = <<a, b>>
      BY <2>1, <1>1, <1>4, <1>6 DEF p
    <2> HIDE DEF a, b
    <2>3. <<a, b>> \in KnownMatches(s) <=> <<a, b>> \in KnownMatches(u)
      BY <2>2, MatchesOfConcat DEF u
    <2>4. QED
      BY <2>2, <2>3
  <1>7. ASSUME NEW m \in KnownMatches(t)
        PROVE  /\ <<m[1] + p, m[2] + p>> \in KnownMatches(u)
               /\ SubSeq(u, m[1] + p, m[2] + p) = SubSeq(t, m[1], m[2])
    <2>1. /\ m[1] \in 1 .. Len(t) /\ m[2] \in 1 .. Len(t) /\ m[1] < m[2] /\ m = <<m[1], m[2]>>
      BY MatchShape
    <2>2. m[1] \in Int /\ m[2] \in Int /\ m[2] <= Len(t) /\ 0 < m[1]
      BY <2>1, <1>1
    <2>3. <<m[1] + p, m[2] + p>> \in KnownMatches(u)
      BY <2>1, <2>2, MatchesOfConcat DEF u, p
    <2>4. SubSeq(t, m[1], m[2]) = SubSeq(u, m[1] + p, m[2] + p)
      BY <2>1, <2>2, MatchesOfConcat DEF u, p
    <2>5. QED
      BY <2>3, <2>4
  <1>8. ASSUME NEW m \in KnownMatches(u), p < m[1]
        PROVE  <<m[1] - p, m[2] - p>> \in KnownMatches(t)
    <2>1. /\ m[1] \in 1 .. Len(u) /\ m[2] \in 1 .. Len(u) /\ m[1] < m[2] /\ m = <<m[1], m[2]>>
      BY <1>1, MatchShape
    <2> DEFINE a == m[1] - p
               b == m[2] - p
    <2>2. a \in Int /\ b \in Int /\ a > 0 /\ <<a + p, b + p>> = m
      BY <2>1, <1>1, <1>8
    <2> HIDE DEF a, b
    <2>3. <<a, b>> \in KnownMatches(t)
      BY <2>2, MatchesOfConcat DEF u, p
    <2>4. QED
      BY <2>3 DEF a, b
  <1>9. ASSUME NEW i \in 1 .. p
        PROVE  PieceOf(u, i) = PieceOf(s, i)
    <2>1. i \in 1 .. Len(u) /\ i \in 1 .. Len(s) /\ u[i] = s[i]
      BY <1>1 DEF p
    <2>2. CASE \E m \in KnownMatches(s) : i = m[1]
      <3>1. PICK m \in KnownMatches(s) : i = m[1]
        BY <2>2
      <3>2. PieceOf(s, i) = Original[SubSeq(s, m[1], m[2])]
        BY <3>1, PieceAtStart
      <3>3. m \in KnownMatches(u) /\ SubSeq(u, m[1], m[2]) = SubSeq(s, m[1], m[2])
        BY <1>5
      <3>4. PieceOf(u, i) = Original[SubSeq(u, m[1], m[2])]
        BY <1>1, <3>1, <3>3, PieceAtStart
      <3>5. QED
        BY <3>2, <3>3, <3>4
    <2>3. CASE \A m \in KnownMatches(s) : i # m[1]
      <3>1. \A m \in KnownMatches(u) : i # m[1]
        BY <2>3, <1>6, <1>1
      <3>2. ASSUME NEW k \in KnownMatches(s), Inside(i, k)
            PROVE  PieceOf(u, i) = PieceOf(s, i)
        <4>1. k \in KnownMatches(u)
          BY <1>5
        <4>2. QED
          BY <4>1, <2>1, <2>3, <3>1, <3>2, <1>1, PieceInside
      <3>3. ASSUME \A k \in KnownMatches(s) : ~ Inside(i, k)
            PROVE  PieceOf(u, i) = PieceOf(s, i)
        <4>1. ASSUME NEW k \in KnownMatches(u), Inside(i, k) PROVE FALSE
          <5>1. k[1] \in Int
            BY <1>1, MatchShape
          <5>2. k[1] <= p
            BY <4>1, <5>1, <1>1 DEF Inside
          <5>3. QED
            BY <5>2, <1>6, <3>3, <4>1
        <4>2. PieceOf(u, i) = u[i]
          BY <4>1, <2>1, <1>1, PieceOutside
        <4>3. PieceOf(s, i) = s[i]
          BY <3>3, <2>1, PieceOutside
        <4>4. QED
          BY <4>2, <4>3, <2>1
      <3>4. QED
        BY <3>2, <3>3
    <2>4. QED
      BY <2>2, <2>3
  <1>10. ASSUME NEW i \in 1 .. Len(t)
         PROVE  PieceOf(u, i + p) = PieceOf(t, i)
    <2> DEFINE j == i + p
    <2>1. j \in 1 .. Len(u) /\ u[j] = t[i] /\ p < j /\ j \in Int
      BY <1>1
    <2> HIDE DEF j
    <2> SUFFICES PieceOf(u, j) = PieceOf(t, i)
      BY DEF j
    <2>2. CASE \E m \in KnownMatches(t) : i = m[1]
      <3>1. PICK m \in KnownMatches(t) : i = m[1]
        BY <2>2
      <3>2. PieceOf(t, i) = Original[SubSeq(t, m[1], m[2])]
        BY <3>1, PieceAtStart
      <3>3. PICK k \in KnownMatches(u) :
              k = <<m[1] + p, m[2] + p>> /\ SubSeq(u, m[1] + p, m[2] + p) = SubSeq(t, m[1], m[2])
        BY <1>7
      <3>4. PieceOf(u, k[1]) = Original[SubSeq(u, k[1], k[2])]
        BY <1>1, PieceAtStart
      <3>5. k[1] = j /\ k[1] = m[1] + p /\ k[2] = m[2] + p
        BY <3>1, <3>3 DEF j
      <3>6. QED
        BY <3>2, <3>3, <3>4, <3>5
    <2>3. CASE \A m \in KnownMatches(t) : i # m[1]
      <3>1. ASSUME NEW m \in KnownMatches(u), j = m[1] PROVE FALSE
        <4>1. <<m[1] - p, m[2] - p>> \in KnownMatches(t)
          BY <3>1, <2>1, <1>8
        <4>2. <<m[1] - p, m[2] - p>>[1] = i
          BY <3>1, <1>1 DEF j
        <4>3. QED
          BY <4>1, <4>2, <2>3
      <3>2. ASSUME NEW k \in KnownMatches(t), Inside(i, k)
            PROVE  PieceOf(u, j) = PieceOf(t, i)
        <4>1. PICK l \in KnownMatches(u) : l = <<k[1] + p, k[2] + p>>
          BY <1>7
        <4>2. k[1] \in Int /\ k[2] \in Int
          BY MatchShape
        <4>3. Inside(j, l)
          BY <4>1, <4>2, <3>2, <1>1 DEF Inside, j
        <4>4. PieceOf(u, j) = NoPiece
          BY <4>3, <3>1, <2>1, <1>1, PieceInside
        <4>5. PieceOf(t, i) = NoPiece
          BY <3>2, <2>3, PieceInside
        <4>6. QED
          BY <4>4, <4>5
      <3>3. ASSUME \A k \in KnownMatches(t) : ~ Inside(i, k)
            PROVE  PieceOf(u, j) = PieceOf(t, i)
        <4>1. ASSUME NEW k \in KnownMatches(u), Inside(j, k) PROVE FALSE
          <5>1. k[1] \in Int /\ k[2] \in Int
            BY <1>1, MatchShape
          <5>2. p < k[1]
            BY <4>1, <5>1, <1>1, <1>4, <2>1 DEF Inside
          <5>3. <<k[1] - p, k[2] - p>> \in KnownMatches(t)
            BY <5>2, <1>8
          <5>4. Inside(i, <<k[1] - p, k[2] - p>>)
            BY <4>1, <5>1, <1>1 DEF Inside, j
          <5>5. QED
            BY <5>3, <5>4, <3>3
        <4>2. PieceOf(u, j) = u[j]
          BY <4>1, <2>1, <1>1, PieceOutside
        <4>3. PieceOf(t, i) = t[i]
          BY <3>3, PieceOutside
        <4>4. QED
          BY <4>2, <4>3, <2>1
      <3>4. QED
        BY <3>2, <3>3
    <2>4. QED
      BY <2>2, <2>3
  <1>11. ASSUME NEW i \in 1 .. Len(u)
         PROVE  Reversed(u)[i] = (Reversed(s) \o Reversed(t))[i]
    <2>1. CASE i <= p
      <3>1. i \in 1 .. p /\ i \in 1 .. p + Len(t)
        BY <2>1, <1>1
      <3>2. QED
        BY <3>1, <2>1, <1>2, <1>3, <1>9
    <2>2. CASE ~ (i <= p)
      <3>1. i - p \in 1 .. Len(t) /\ (i - p) + p = i /\ i \in 1 .. p + Len(t)
        BY <2>2, <1>1
      <3>2. PieceOf(u, (i - p) + p) = PieceOf(t, i - p)
        BY <3>1, <1>10
      <3>3. Reversed(u)[i] = PieceOf(u, i) /\ Reversed(t)[i - p] = PieceOf(t, i - p)
        BY <3>1, <1>2
      <3>4. (Reversed(s) \o Reversed(t))[i] = Reversed(t)[i - p]
        BY <3>1, <2>2, <1>3
      <3>5. PieceOf(u, i) = PieceOf(t, i - p)
        BY <3>1, <3>2
      <3>6. QED
        BY <3>3, <3>4, <3>5
    <2>3. QED
      BY <2>1, <2>2
  <1>12. Len(Reversed(u)) = Len(Reversed(s) \o Reversed(t)) /\ Len(Reversed(u)) = Len(u)
    BY <1>1, <1>2, <1>3
  <1>13. Reversed(u) = Reversed(s) \o Reversed(t)
    BY <1>2, <1>3, <1>11, <1>12, SeqEqual
  <1>14. QED
    BY <1>13 DEF u

-----------------------------------------------------------------------------
\* The rightmost guillemet exists.
LEMMA RightmostOpen ==
  ASSUME NEW s \in Seq(Char), Opens(s) # {}
  PROVE  /\ Max(Opens(s)) \in Opens(s)
         /\ \A i \in Opens(s) : i <= Max(Opens(s))
  <1> DEFINE Behind == {Len(s) - i : i \in Opens(s)}
  <1>1. Len(s) \in Nat
    BY LenProperties
  <1>2. Behind \subseteq Nat /\ Behind # {}
    BY <1>1 DEF Opens
  <1>3. PICK x \in Behind : \A y \in Behind : ~ (<<y, x>> \in OpToRel(<, Nat))
    BY <1>2, NatLessThanWellFounded, WFMin
  <1>4. PICK r \in Opens(s) : x = Len(s) - r
    BY <1>3
  <1>5. \A i \in Opens(s) : i <= r
    <2> SUFFICES ASSUME NEW i \in Opens(s), ~ (i <= r) PROVE FALSE
      OBVIOUS
    <2>1. i \in 1 .. Len(s) /\ r \in 1 .. Len(s)
      BY DEF Opens
    <2>2. Len(s) - i \in Behind /\ Len(s) - i \in Nat /\ x \in Nat /\ Len(s) - i < x
      BY <1>1, <1>4, <2>1
    <2>3. <<Len(s) - i, x>> \in OpToRel(<, Nat)
      BY <2>2 DEF OpToRel
    <2>4. QED
      BY <1>3, <2>2, <2>3
  <1>6. \A i \in Opens(s) : r >= i
    <2>1. Opens(s) \subseteq Int
      BY DEF Opens
    <2>2. QED
      BY <1>5, <2>1
  <1>7. /\ Max(Opens(s)) \in Opens(s)
        /\ \A i \in Opens(s) : Max(Opens(s)) >= i
    BY <1>6 DEF Max
  <1>8. Opens(s) \subseteq Int
    BY DEF Opens
  <1>9. QED
    BY <1>7, <1>8

\* The holdback rule.  A placeholder that begins in what goes out, and is
\* complete whatever follows, is already complete; and what is withheld
\* begins with a guillemet.
LEMMA SafeCut ==
  ASSUME NEW s \in Seq(Char)
  PROVE  /\ SafeEmitPosition(s) \in 0 .. Len(s)
         /\ \A a \in 1 .. SafeEmitPosition(s) : ~ PartialAt(s, a, Len(s))
         /\ SafeEmitPosition(s) < Len(s) =>
              /\ s[SafeEmitPosition(s) + 1] = Open
              /\ PartialAt(s, SafeEmitPosition(s) + 1, Len(s))
  <1>1. Len(s) \in Nat
    BY LenProperties
  <1>2. ASSUME NEW a \in 1 .. Len(s), PartialAt(s, a, Len(s))
        PROVE  a \in Opens(s) /\ (\A i \in a .. Len(s) : s[i] # Close)
               /\ (\A i \in Opens(s) : i <= a)
    <2>1. s[a] = Open
      BY <1>2 DEF PartialAt
    <2>2. \A i \in a + 1 .. Len(s) : s[i] \in Slug
      BY <1>1, <1>2, PartialSlug
    <2>3. \A i \in a + 1 .. Len(s) : s[i] # Open /\ s[i] # Close
      BY <2>2, CharAssumption
    <2>4. QED
      BY <1>1, <2>1, <2>3, CharAssumption DEF Opens
  <1>3. CASE Opens(s) = {}
    BY <1>1, <1>2, <1>3 DEF SafeEmitPosition
  <1>4. CASE Opens(s) # {}
    <2> DEFINE r == Max(Opens(s))
    <2>1. r \in Opens(s) /\ \A i \in Opens(s) : i <= r
      BY <1>4, RightmostOpen
    <2>2. r \in 1 .. Len(s) /\ s[r] = Open
      BY <2>1 DEF Opens
    <2>3. SafeEmitPosition(s) =
            IF (\E i \in r .. Len(s) : s[i] = Close) \/ ~ PartialAt(s, r, Len(s))
            THEN Len(s) ELSE r - 1
      BY <1>4 DEF SafeEmitPosition
    <2> HIDE DEF r
    <2>4. ASSUME NEW a \in 1 .. Len(s), PartialAt(s, a, Len(s))
          PROVE  a = r
      BY <2>1, <2>2, <2>4, <1>1, <1>2
    <2>5. CASE (\E i \in r .. Len(s) : s[i] = Close) \/ ~ PartialAt(s, r, Len(s))
      <3>1. SafeEmitPosition(s) = Len(s)
        BY <2>3, <2>5
      <3>2. \A a \in 1 .. Len(s) : ~ PartialAt(s, a, Len(s))
        BY <2>4, <2>5, <1>2
      <3>3. QED
        BY <1>1, <3>1, <3>2
    <2>6. CASE ~ ((\E i \in r .. Len(s) : s[i] = Close) \/ ~ PartialAt(s, r, Len(s)))
      <3>1. SafeEmitPosition(s) = r - 1
        BY <2>3, <2>6
      <3>2. \A a \in 1 .. r - 1 : ~ PartialAt(s, a, Len(s))
        BY <1>1, <2>2, <2>4
      <3>3. (r - 1) + 1 = r
        BY <1>1, <2>2
      <3>4. s[SafeEmitPosition(s) + 1] = Open /\ PartialAt(s, SafeEmitPosition(s) + 1, Len(s))
        BY <2>2, <2>6, <3>1, <3>3
      <3>5. QED
        BY <1>1, <2>2, <3>1, <3>2, <3>4
    <2>7. QED
      BY <2>5, <2>6
  <1>5. QED
    BY <1>3, <1>4

\* A text may be cut behind `passed`: nothing in `passed` can become a placeholder
\* any more that is not one already, and `held` begins with a guillemet.
GoodCut(passed, held) ==
  /\ held # << >> => held[1] = Open
  /\ \A a \in 1 .. Len(passed) : ~ PartialAt(passed \o held, a, Len(passed \o held))

\* Behind a good cut the text may go on, and no match will lie across it.
LEMMA GoodCutIsClean ==
  ASSUME NEW passed \in Seq(Char), NEW held \in Seq(Char), NEW more \in Seq(Char),
         GoodCut(passed, held)
  PROVE  NoneAcross(passed \o (held \o more), Len(passed))
  <1> DEFINE s == passed \o held
             u == passed \o (held \o more)
             n == Len(passed)
  <1>1. s \in Seq(Char) /\ held \o more \in Seq(Char) /\ u \in Seq(Char)
    BY ConcatProperties
  <1>2. Len(held) \in Nat /\ n \in Nat /\ Len(more) \in Nat
    BY LenProperties
  <1>3. /\ Len(s) = n + Len(held) /\ Len(u) = n + (Len(held) + Len(more))
        /\ \A i \in 1 .. Len(s) : s[i] = IF i <= n THEN passed[i] ELSE held[i - n]
        /\ \A i \in 1 .. Len(u) : u[i] = IF i <= n THEN passed[i] ELSE (held \o more)[i - n]
        /\ \A i \in 1 .. Len(held) : (held \o more)[i] = held[i]
    BY <1>1, <1>2, ConcatProperties
  <1> HIDE DEF s, u, n
  <1>4. \A i \in 1 .. Len(s) : u[i] = s[i]
    BY <1>2, <1>3
  <1>5. SUFFICES ASSUME NEW m \in KnownMatches(u), m[1] <= n, n < m[2] PROVE FALSE
    BY DEF NoneAcross, u, n
  <1>6. /\ m[1] \in 1 .. Len(u) /\ m[2] \in 1 .. Len(u)
        /\ \A i \in m[1] + 1 .. m[2] : u[i] # Open
        /\ PartialAt(u, m[1], m[2] - 1)
    BY <1>1, MatchShape
  <1>7. CASE Len(s) < m[2]
    <2>1. PartialAt(u, m[1], Len(s))
      BY <1>2, <1>3, <1>6, <1>7, PartialShorter
    <2>2. m[1] \in 1 .. n /\ n <= Len(s)
      BY <1>2, <1>3, <1>5, <1>6
    <2>3. PartialAt(s, m[1], Len(s))
      <3>1. s[m[1]] = u[m[1]]
        BY <1>2, <1>4, <2>2, <1>3
      <3>2. \A i \in m[1] + 1 .. Len(s) : s[i] = u[i]
        BY <1>2, <1>4, <2>2, <1>3
      <3>3. QED
        BY <2>1, <3>1, <3>2 DEF PartialAt
    <2>4. QED
      BY <2>2, <2>3 DEF GoodCut, s, n
  <1>8. CASE ~ (Len(s) < m[2])
    <2>1. Len(held) > 0 /\ n + 1 \in m[1] + 1 .. m[2] /\ n + 1 \in 1 .. Len(s)
      BY <1>2, <1>3, <1>5, <1>6, <1>8
    <2>2. u[n + 1] = held[1]
      <3>1. s[n + 1] = held[(n + 1) - n] /\ (n + 1) - n = 1
        BY <1>2, <1>3, <2>1
      <3>2. QED
        BY <3>1, <2>1, <1>4
    <2>3. held[1] = Open
      BY <2>1, EmptySeq DEF GoodCut
    <2>4. QED
      BY <1>6, <2>1, <2>2, <2>3
  <1>9. QED
    BY <1>7, <1>8

\* Reversing both sides of a good cut is reversing the whole.
LEMMA ReversedAtCut ==
  ASSUME NEW passed \in Seq(Char), NEW held \in Seq(Char), GoodCut(passed, held)
  PROVE  Reversed(passed \o held) = Reversed(passed) \o Reversed(held)
  <1>1. << >> \in Seq(Char) /\ held \o << >> = held
    BY EmptySeq, ConcatEmptySeq
  <1>2. NoneAcross(passed \o (held \o << >>), Len(passed))
    BY <1>1, GoodCutIsClean
  <1>3. NoneAcross(passed \o held, Len(passed))
    BY <1>1, <1>2
  <1>4. QED
    BY <1>3, ReversedConcat

\* Cutting a text in two and joining it again.
LEMMA Split ==
  ASSUME NEW s \in Seq(Char), NEW k \in 0 .. Len(s)
  PROVE  LET out == SubSeq(s, 1, k)
             keep == SubSeq(s, k + 1, Len(s))
         IN  /\ out \in Seq(Char) /\ Len(out) = k
             /\ \A i \in 1 .. k : out[i] = s[i]
             /\ keep \in Seq(Char) /\ Len(keep) = Len(s) - k
             /\ \A i \in 1 .. Len(s) - k : keep[i] = s[k + i]
             /\ s = out \o keep
  <1> DEFINE out == SubSeq(s, 1, k)
             keep == SubSeq(s, k + 1, Len(s))
  <1>1. Len(s) \in Nat /\ k \in Int /\ k + 1 \in Int /\ Len(s) \in Int
    BY LenProperties
  <1>2. /\ out \in Seq(Char) /\ Len(out) = IF 1 <= k THEN k - 1 + 1 ELSE 0
        /\ \A i \in 1 .. k - 1 + 1 : out[i] = s[1 + i - 1]
    <2>1. \A i \in 1 .. k : s[i] \in Char
      BY <1>1, ElementOfSeq
    <2>2. QED
      BY <1>1, <2>1, SubSeqProperties
  <1>3. /\ keep \in Seq(Char)
        /\ Len(keep) = IF k + 1 <= Len(s) THEN Len(s) - (k + 1) + 1 ELSE 0
        /\ \A i \in 1 .. Len(s) - (k + 1) + 1 : keep[i] = s[(k + 1) + i - 1]
    <2>1. \A i \in k + 1 .. Len(s) : s[i] \in Char
      BY <1>1, ElementOfSeq
    <2>2. QED
      BY <1>1, <2>1, SubSeqProperties
  <1> HIDE DEF out, keep
  <1>4. /\ Len(out) = k /\ \A i \in 1 .. k : out[i] = s[i]
    BY <1>1, <1>2
  <1>5. /\ Len(keep) = Len(s) - k /\ \A i \in 1 .. Len(s) - k : keep[i] = s[k + i]
    BY <1>1, <1>3
  <1>6. s = out \o keep
    <2>1. /\ out \o keep \in Seq(Char) /\ Len(out \o keep) = Len(out) + Len(keep)
          /\ \A i \in 1 .. Len(out) + Len(keep) :
               (out \o keep)[i] = IF i <= Len(out) THEN out[i] ELSE keep[i - Len(out)]
      BY <1>2, <1>3, ConcatProperties
    <2>2. Len(out \o keep) = Len(s)
      BY <1>1, <1>4, <1>5, <2>1
    <2>3. \A i \in 1 .. Len(s) : s[i] = (out \o keep)[i]
      BY <1>1, <1>4, <1>5, <2>1
    <2>4. QED
      BY <2>1, <2>2, <2>3, SeqEqual
  <1>7. QED
    BY <1>2, <1>3, <1>4, <1>5, <1>6 DEF out, keep

\* The good cut moved from behind `passed` to behind passed \o out.
Advanced(passed, held, chunk, out, keep) ==
  /\ (passed \o held) \o chunk = (passed \o out) \o keep
  /\ GoodCut(passed \o out, keep)
  /\ Reversed(passed \o out) = Reversed(passed) \o Reversed(out)

\* Three texts put together, from the left and from the right.
LeftFirst(r, s, t) == (r \o s) \o t
RightFirst(r, s, t) == r \o (s \o t)

LEMMA TextAssociative ==
  ASSUME NEW r \in Seq(Char), NEW s \in Seq(Char), NEW t \in Seq(Char)
  PROVE  LeftFirst(r, s, t) = RightFirst(r, s, t)
  <1> DEFINE left == (r \o s) \o t
             right == r \o (s \o t)
             n == Len(r) + Len(s) + Len(t)
  <1>1. Len(r) \in Nat /\ Len(s) \in Nat /\ Len(t) \in Nat
    BY LenProperties
  <1>2. /\ r \o s \in Seq(Char) /\ Len(r \o s) = Len(r) + Len(s)
        /\ s \o t \in Seq(Char) /\ Len(s \o t) = Len(s) + Len(t)
    BY ConcatProperties
  <1>3. left \in Seq(Char) /\ right \in Seq(Char) /\ Len(left) = n /\ Len(right) = n
    BY <1>1, <1>2, ConcatProperties
  <1>4. ASSUME NEW i \in 1 .. n PROVE left[i] = right[i]
    <2>1. CASE i <= Len(r)
      <3>1. (r \o s)[i] = r[i] /\ left[i] = (r \o s)[i] /\ right[i] = r[i]
        BY <1>1, <1>2, <2>1, ConcatProperties
      <3>2. QED
        BY <3>1
    <2>2. CASE Len(r) < i /\ i <= Len(r) + Len(s)
      <3>1. left[i] = (r \o s)[i] /\ (r \o s)[i] = s[i - Len(r)]
        BY <1>1, <1>2, <2>2, ConcatProperties
      <3>2. right[i] = (s \o t)[i - Len(r)] /\ (s \o t)[i - Len(r)] = s[i - Len(r)]
        BY <1>1, <1>2, <2>2, ConcatProperties
      <3>3. QED
        BY <3>1, <3>2
    <2>3. CASE Len(r) + Len(s) < i
      <3>1. left[i] = t[i - (Len(r) + Len(s))]
        BY <1>1, <1>2, <2>3, ConcatProperties
      <3>2. right[i] = (s \o t)[i - Len(r)] /\ (s \o t)[i - Len(r)] = t[i - Len(r) - Len(s)]
        BY <1>1, <1>2, <2>3, ConcatProperties
      <3>3. i - (Len(r) + Len(s)) = i - Len(r) - Len(s)
        BY <1>1
      <3>4. QED
        BY <3>1, <3>2, <3>3
    <2>4. QED
      BY <1>1, <2>1, <2>2, <2>3
  <1>5. QED
    <2>1. left = right
      BY <1>3, <1>4, SeqEqual
    <2>2. QED
      BY <2>1 DEF LeftFirst, RightFirst

LEMMA CutStep ==
  ASSUME NEW passed \in Seq(Char), NEW held \in Seq(Char), NEW chunk \in Seq(Char),
         NEW out \in Seq(Char), NEW keep \in Seq(Char),
         held \o chunk = out \o keep,
         GoodCut(passed, held),
         keep # << >> => keep[1] = Open,
         \A a \in 1 .. Len(out) : ~ PartialAt(held \o chunk, a, Len(held \o chunk))
  PROVE  Advanced(passed, held, chunk, out, keep)
  <1>a. (passed \o out) \o keep = passed \o (out \o keep)
    <2>1. LeftFirst(passed, out, keep) = RightFirst(passed, out, keep)
      BY TextAssociative
    <2>2. QED
      BY <2>1 DEF LeftFirst, RightFirst
  <1>b. (passed \o held) \o chunk = passed \o (held \o chunk)
    <2>1. LeftFirst(passed, held, chunk) = RightFirst(passed, held, chunk)
      BY TextAssociative
    <2>2. QED
      BY <2>1 DEF LeftFirst, RightFirst
  <1> DEFINE buf == held \o chunk
             n == Len(passed)
             s == passed \o held
             w == passed \o buf
             o == passed \o out
  <1>1. /\ buf \in Seq(Char) /\ s \in Seq(Char) /\ o \in Seq(Char) /\ w \in Seq(Char)
    BY ConcatProperties
  <1>2. /\ n \in Nat /\ Len(held) \in Nat /\ Len(chunk) \in Nat
        /\ Len(out) \in Nat /\ Len(keep) \in Nat
    BY LenProperties
  <1>3. /\ Len(buf) = Len(held) + Len(chunk)
        /\ \A i \in 1 .. Len(held) : buf[i] = held[i]
    BY <1>2, ConcatProperties
  <1>4. /\ Len(s) = n + Len(held)
        /\ \A i \in 1 .. n + Len(held) : s[i] = IF i <= n THEN passed[i] ELSE held[i - n]
    BY ConcatProperties
  <1>5. /\ Len(w) = n + Len(buf)
        /\ \A i \in 1 .. n + Len(buf) : w[i] = IF i <= n THEN passed[i] ELSE buf[i - n]
    BY <1>1, ConcatProperties
  <1>6. Len(o) = n + Len(out)
    BY ConcatProperties
  <1>7. Len(buf) = Len(out) + Len(keep)
    BY ConcatProperties
  <1>8. w = o \o keep
    BY ONLY <1>a, held \o chunk = out \o keep
  <1>9. s \o chunk = w
    BY ONLY <1>b
  <1>10. \A a \in 1 .. Len(out) : ~ PartialAt(buf, a, Len(buf))
    OBVIOUS
  <1>11. NoneAcross(w, n)
    BY GoodCutIsClean
  <1>12. \A a \in 1 .. n : ~ PartialAt(s, a, Len(s))
    BY DEF GoodCut
  <1> HIDE DEF buf, n, s, w, o
  <1>13. KnownMatches(o) \subseteq KnownMatches(w)
    <2> SUFFICES ASSUME NEW m \in KnownMatches(o) PROVE m \in KnownMatches(w)
      OBVIOUS
    <2> DEFINE a == m[1]
               b == m[2]
    <2>1. m[1] \in 1 .. Len(o) /\ m[2] \in 1 .. Len(o) /\ m = <<m[1], m[2]>>
      BY <1>1, MatchShape
    <2>2. a \in Int /\ b \in Int /\ b <= Len(o) /\ m = <<a, b>>
      BY <2>1, <1>2, <1>6
    <2> HIDE DEF a, b
    <2>3. <<a, b>> \in KnownMatches(o) <=> <<a, b>> \in KnownMatches(o \o keep)
      BY <1>1, <2>2, MatchesOfConcat
    <2>4. QED
      BY <1>8, <2>2, <2>3
  <1>14. Reversed(o) = Reversed(passed) \o Reversed(out)
    <2>1. NoneAcross(o, n)
      BY <1>11, <1>13 DEF NoneAcross
    <2>2. QED
      BY <2>1, ReversedConcat DEF o, n
  <1>15. ASSUME NEW a \in 1 .. Len(o), PartialAt(w, a, Len(w))
         PROVE  FALSE
    <2>1. CASE a <= n
      <3>1. PartialAt(w, a, Len(s))
        <4>1. Len(s) <= Len(w) /\ Len(s) \in Int /\ Len(w) \in Int
          BY <1>2, <1>3, <1>4, <1>5
        <4>2. QED
          BY <4>1, <1>15, PartialShorter
      <3>2. \A i \in 1 .. Len(s) : w[i] = s[i]
        <4> SUFFICES ASSUME NEW i \in 1 .. Len(s) PROVE w[i] = s[i]
          OBVIOUS
        <4>1. i \in 1 .. n + Len(held) /\ i \in 1 .. n + Len(buf)
          BY <1>2, <1>3, <1>4
        <4>2. CASE i <= n
          BY <4>1, <4>2, <1>4, <1>5
        <4>3. CASE ~ (i <= n)
          <5>1. i - n \in 1 .. Len(held)
            BY <4>1, <4>3, <1>2
          <5>2. w[i] = buf[i - n] /\ s[i] = held[i - n]
            BY <4>1, <4>3, <1>4, <1>5
          <5>3. QED
            BY <5>1, <5>2, <1>3
        <4>4. QED
          BY <4>2, <4>3
      <3>3. s[a] = w[a] /\ \A i \in a + 1 .. Len(s) : s[i] = w[i]
        BY <3>2, <1>2, <1>4, <2>1
      <3>4. PartialAt(s, a, Len(s))
        BY <3>1, <3>3 DEF PartialAt
      <3>5. a \in 1 .. n
        BY <1>2, <2>1
      <3>6. QED
        BY <3>4, <3>5, <1>12
    <2>2. CASE ~ (a <= n)
      <3> DEFINE c == a - n
      <3>1. /\ c \in 1 .. Len(out) /\ c \in Int /\ c <= Len(buf) /\ c + n = a
            /\ n \in Int /\ Len(buf) \in Int /\ Len(buf) + n = Len(w)
        BY <1>2, <1>3, <1>5, <1>6, <1>7, <2>2
      <3> HIDE DEF c
      <3>2. \A i \in c .. Len(buf) : w[i + n] = buf[i]
        <4> SUFFICES ASSUME NEW i \in c .. Len(buf) PROVE w[i + n] = buf[i]
          OBVIOUS
        <4>1. /\ i + n \in 1 .. n + Len(buf) /\ ~ (i + n <= n) /\ (i + n) - n = i
          BY <3>1, <1>2
        <4>2. w[i + n] = buf[(i + n) - n]
          BY <4>1, <1>5
        <4>3. QED
          BY <4>1, <4>2
      <3>3. PartialAt(w, c + n, Len(buf) + n)
        BY <3>1, <1>15
      <3>4. PartialAt(w, c + n, Len(buf) + n) <=> PartialAt(buf, c, Len(buf))
        BY <3>1, <3>2, PartialSame
      <3>5. QED
        BY <3>1, <3>3, <3>4, <1>10
    <2>3. QED
      BY <2>1, <2>2, <1>2, <1>6
  <1>16. GoodCut(o, keep)
    BY <1>8, <1>15 DEF GoodCut
  <1>17. QED
    BY <1>8, <1>9, <1>14, <1>16 DEF s, o, Advanced

\* When more text arrives behind a good cut, the holdback rule finds the next
\* one, and the text between them is reversed on its own.
LEMMA CutAdvances ==
  ASSUME NEW passed \in Seq(Char), NEW held \in Seq(Char), NEW chunk \in Seq(Char),
         GoodCut(passed, held)
  PROVE  LET buf == held \o chunk
             out == SubSeq(buf, 1, SafeEmitPosition(buf))
             keep == SubSeq(buf, SafeEmitPosition(buf) + 1, Len(buf))
         IN  /\ out \in Seq(Char) /\ keep \in Seq(Char)
             /\ Advanced(passed, held, chunk, out, keep)
  <1> DEFINE buf == held \o chunk
             k == SafeEmitPosition(buf)
             out == SubSeq(buf, 1, k)
             keep == SubSeq(buf, k + 1, Len(buf))
  <1>1. buf \in Seq(Char)
    BY ConcatProperties
  <1> HIDE DEF buf
  <1>2. /\ k \in 0 .. Len(buf)
        /\ \A a \in 1 .. k : ~ PartialAt(buf, a, Len(buf))
        /\ k < Len(buf) => buf[k + 1] = Open
        /\ Len(buf) \in Nat
    BY <1>1, SafeCut, LenProperties
  <1> HIDE DEF k
  <1>3. /\ out \in Seq(Char) /\ Len(out) = k
        /\ keep \in Seq(Char) /\ Len(keep) = Len(buf) - k
        /\ \A i \in 1 .. Len(buf) - k : keep[i] = buf[k + i]
        /\ buf = out \o keep
    BY <1>1, <1>2, Split
  <1> HIDE DEF out, keep
  <1>4. keep # << >> => keep[1] = Open
    <2> SUFFICES ASSUME keep # << >> PROVE keep[1] = Open
      OBVIOUS
    <2>1. Len(keep) \in Nat \ {0}
      BY <1>3, EmptySeq
    <2>2. 1 \in 1 .. Len(buf) - k /\ k < Len(buf)
      BY <2>1, <1>2, <1>3
    <2>3. QED
      BY <2>2, <1>2, <1>3
  <1>5. \A a \in 1 .. Len(out) : ~ PartialAt(buf, a, Len(buf))
    BY <1>2, <1>3
  <1>6. Advanced(passed, held, chunk, out, keep)
    <2>1. held \o chunk = out \o keep
      BY <1>3 DEF buf
    <2>2. \A a \in 1 .. Len(out) : ~ PartialAt(held \o chunk, a, Len(held \o chunk))
      BY <1>5 DEF buf
    <2>3. out \in Seq(Char) /\ keep \in Seq(Char)
      BY <1>3
    <2>4. QED
      BY <2>1, <2>2, <2>3, <1>4, CutStep
  <1>7. QED
    BY <1>3, <1>6 DEF buf, k, out, keep

-----------------------------------------------------------------------------

\* Behind what was emitted the text may be cut (see GoodCut): this is what the
\* holdback rule maintains, and StreamIsBatch alone is not inductive.
EmittedToGoodCut ==
  \E passed \in Seq(Char) :
    /\ received = passed \o pending
    /\ emitted = Reversed(passed)
    /\ GoodCut(passed, pending)

IInv == TypeOK /\ EmittedToGoodCut /\ BlocksComplete

-----------------------------------------------------------------------------
LEMMA EmptyText ==
  /\ << >> \in Seq(Char) /\ << >> \in Seq(Piece)
  /\ Len(<< >>) = 0
  /\ Reversed(<< >>) = << >>
  /\ GoodCut(<< >>, << >>)
  <1>1. /\ << >> \in Seq(Char) /\ << >> \in Seq(Piece) /\ Len(<< >>) = 0
    BY EmptySeq
  <1>2. Reversed(<< >>) \in Seq(Piece) /\ Len(Reversed(<< >>)) = 0
    BY <1>1, ReversedType
  <1>3. Reversed(<< >>) = << >>
    BY <1>2, EmptySeq
  <1>4. GoodCut(<< >>, << >>)
    BY <1>1 DEF GoodCut
  <1>5. QED
    BY <1>1, <1>3, <1>4

\* Nothing received, emitted or withheld: the state between blocks.
LEMMA EmptyIsGoodCut ==
  ASSUME received = << >>, pending = << >>, emitted = << >>
  PROVE  EmittedToGoodCut
  <1>1. << >> \o << >> = << >>
    BY EmptyText, ConcatEmptySeq
  <1>2. QED
    BY <1>1, EmptyText DEF EmittedToGoodCut

LEMMA GoodCutIsBatch ==
  ASSUME TypeOK, EmittedToGoodCut
  PROVE  StreamIsBatch
  <1>1. PICK passed \in Seq(Char) :
          received = passed \o pending /\ emitted = Reversed(passed) /\ GoodCut(passed, pending)
    BY DEF EmittedToGoodCut
  <1>2. pending \in Seq(Char)
    BY DEF TypeOK
  <1>3. Reversed(passed \o pending) = Reversed(passed) \o Reversed(pending)
    BY <1>1, <1>2, ReversedAtCut
  <1>4. QED
    BY <1>1, <1>3 DEF StreamIsBatch

LEMMA InitIInv == ASSUME Init PROVE IInv
  <1>1. Len(message) \in Nat
    BY MessageAssumption, LenProperties DEF Init
  <1>2. << >> \in Seq(Ended) /\ Len(<< >>) = 0
    BY EmptySeq
  <1>3. TypeOK
    BY <1>1, <1>2, EmptyText DEF Init, TypeOK
  <1>4. EmittedToGoodCut
    BY EmptyIsGoodCut DEF Init
  <1>5. BlocksComplete
    BY <1>2 DEF Init, BlocksComplete
  <1>6. QED
    BY <1>3, <1>4, <1>5 DEF IInv

\* The message being sent, as the assumption describes it.
LEMMA MessageShape ==
  ASSUME TypeOK
  PROVE  /\ message \in Seq(Block) /\ Len(message) \in Nat
         /\ \A i \in 1 .. Len(message) : message[i].text \in Seq(Char)
  <1>1. message \in Seq(Block)
    BY MessageAssumption DEF TypeOK
  <1>2. Len(message) \in Nat
    BY <1>1, LenProperties
  <1>3. \A i \in 1 .. Len(message) : message[i] \in Block
    BY <1>1, ElementOfSeq
  <1>4. QED
    BY <1>1, <1>2, <1>3 DEF Block

LEMMA StepBlockStart == ASSUME IInv, BlockStart PROVE IInv'
  <1>1. TypeOK'
    <2>1. block + 1 \in 1 .. Len(message)
      BY MessageShape DEF IInv, TypeOK, BlockStart
    <2>2. rest' \in Seq(Char)
      BY <2>1, MessageShape DEF IInv, BlockStart
    <2>3. QED
      BY <2>1, <2>2, MessageShape DEF IInv, TypeOK, BlockStart
  <1>2. EmittedToGoodCut'
    BY DEF IInv, EmittedToGoodCut, BlockStart
  <1>3. BlocksComplete'
    BY DEF IInv, BlocksComplete, BlockStart
  <1>4. QED
    BY <1>1, <1>2, <1>3 DEF IInv

LEMMA StepTextDelta == ASSUME IInv, TextDelta PROVE IInv'
  <1>1. PICK n \in 0 .. Len(rest) :
          LET chunk == SubSeq(rest, 1, n)
              buf == pending \o chunk
          IN  /\ rest' = SubSeq(rest, n + 1, Len(rest))
              /\ received' = received \o chunk
              /\ pending' = Withheld(buf)
              /\ emitted' = emitted \o Reversed(Released(buf))
    BY DEF TextDelta
  <1> DEFINE chunk == SubSeq(rest, 1, n)
             buf == pending \o chunk
  <1>2. /\ rest \in Seq(Char) /\ pending \in Seq(Char) /\ received \in Seq(Char)
        /\ emitted \in Seq(Piece)
    BY DEF IInv, TypeOK
  <1>3. chunk \in Seq(Char) /\ rest' \in Seq(Char)
    BY <1>1, <1>2, Split
  <1>4. /\ received' = received \o chunk
        /\ pending' = Withheld(buf)
        /\ emitted' = emitted \o Reversed(Released(buf))
    BY <1>1
  <1> HIDE DEF chunk
  <1>5. PICK passed \in Seq(Char) :
          received = passed \o pending /\ emitted = Reversed(passed) /\ GoodCut(passed, pending)
    BY DEF IInv, EmittedToGoodCut
  <1>6. /\ Released(buf) \in Seq(Char) /\ Withheld(buf) \in Seq(Char)
        /\ Advanced(passed, pending, chunk, Released(buf), Withheld(buf))
    BY <1>2, <1>3, <1>5, CutAdvances DEF Released, Withheld
  <1> HIDE DEF buf
  <1>7. EmittedToGoodCut'
    <2>1. passed \o Released(buf) \in Seq(Char)
      BY <1>6, ConcatProperties
    <2>2. received' = (passed \o Released(buf)) \o pending'
      <3>1. (passed \o pending) \o chunk = (passed \o Released(buf)) \o Withheld(buf)
        BY <1>6 DEF Advanced
      <3>2. QED
        BY <1>4, <1>5, <3>1, Zenon
    <2>3. emitted' = Reversed(passed \o Released(buf))
      <3>1. Reversed(passed \o Released(buf)) = Reversed(passed) \o Reversed(Released(buf))
        BY <1>6 DEF Advanced
      <3>2. QED
        BY <1>4, <1>5, <3>1, Zenon
    <2>4. GoodCut(passed \o Released(buf), pending')
      <3>1. GoodCut(passed \o Released(buf), Withheld(buf))
        BY <1>6 DEF Advanced
      <3>2. QED
        BY <1>4, <3>1, Zenon
    <2>5. QED
      BY <2>1, <2>2, <2>3, <2>4, Zenon DEF EmittedToGoodCut
  <1>8. TypeOK'
    <2>1. received' \in Seq(Char)
      BY <1>2, <1>3, <1>4, ConcatProperties
    <2>2. pending' \in Seq(Char)
      BY <1>4, <1>6
    <2>3. emitted' \in Seq(Piece)
      <3>1. Reversed(Released(buf)) \in Seq(Piece)
        BY <1>6, ReversedType
      <3>2. QED
        BY <1>2, <1>4, <3>1, ConcatProperties
    <2>4. QED
      BY <1>3, <2>1, <2>2, <2>3 DEF IInv, TypeOK, TextDelta
  <1>9. BlocksComplete'
    BY DEF IInv, BlocksComplete, TextDelta
  <1>10. QED
    BY <1>7, <1>8, <1>9 DEF IInv

LEMMA StepJsonDelta == ASSUME IInv, JsonDelta PROVE IInv'
  <1>1. rest' \in Seq(Char)
    BY HeadTailProperties DEF IInv, TypeOK, JsonDelta
  <1>2. TypeOK'
    BY <1>1 DEF IInv, TypeOK, JsonDelta
  <1>3. EmittedToGoodCut'
    BY DEF IInv, EmittedToGoodCut, JsonDelta
  <1>4. BlocksComplete'
    BY DEF IInv, BlocksComplete, JsonDelta
  <1>5. QED
    BY <1>2, <1>3, <1>4 DEF IInv

\* The block that ends was reversed as a whole.
LEMMA EndedBlockOK ==
  ASSUME IInv
  PROVE  /\ EndedBlock \in Ended
         /\ EndedBlock = [up |-> received, down |-> Reversed(received)]
  <1>1. emitted \o Drain = Reversed(received)
    BY GoodCutIsBatch DEF IInv, StreamIsBatch, Drain
  <1>2. Reversed(received) \in Seq(Piece) /\ received \in Seq(Char)
    BY ReversedType DEF IInv, TypeOK
  <1>3. EndedBlock = [up |-> received, down |-> Reversed(received)]
    BY <1>1 DEF EndedBlock
  <1>4. QED
    BY <1>2, <1>3 DEF Ended

\* What BlockStop and Eof have in common.
LEMMA StepEnds ==
  ASSUME IInv,
         finished' = Append(finished, EndedBlock),
         received' = << >>, emitted' = << >>, pending' = << >>
  PROVE  /\ finished' \in Seq(Ended)
         /\ EmittedToGoodCut'
         /\ BlocksComplete'
  <1>1. finished \in Seq(Ended)
    BY DEF IInv, TypeOK
  <1>2. /\ finished' \in Seq(Ended) /\ Len(finished') = Len(finished) + 1
        /\ \A i \in 1 .. Len(finished) : finished'[i] = finished[i]
        /\ finished'[Len(finished) + 1] = EndedBlock
    BY <1>1, EndedBlockOK, AppendProperties
  <1>3. EmittedToGoodCut'
    <2>1. << >> \o << >> = << >>
      BY EmptyText, ConcatEmptySeq
    <2>2. QED
      BY <2>1, EmptyText DEF EmittedToGoodCut
  <1>4. BlocksComplete'
    <2>1. Len(finished) \in Nat
      BY <1>1, LenProperties
    <2>2. ASSUME NEW i \in 1 .. Len(finished')
          PROVE  finished'[i].down = Reversed(finished'[i].up)
      <3>1. CASE i \in 1 .. Len(finished)
        BY <3>1, <1>2 DEF IInv, BlocksComplete
      <3>2. CASE i = Len(finished) + 1
        BY <3>2, <1>2, EndedBlockOK
      <3>3. QED
        BY <3>1, <3>2, <2>1, <1>2
    <2>3. QED
      BY <2>2 DEF BlocksComplete
  <1>5. QED
    BY <1>2, <1>3, <1>4

LEMMA StepBlockStop == ASSUME IInv, BlockStop PROVE IInv'
  <1>1. /\ finished' \in Seq(Ended) /\ EmittedToGoodCut' /\ BlocksComplete'
    BY StepEnds DEF BlockStop
  <1>2. TypeOK'
    BY <1>1, EmptyText DEF IInv, TypeOK, BlockStop
  <1>3. QED
    BY <1>1, <1>2 DEF IInv

LEMMA StepEof == ASSUME IInv, Eof PROVE IInv'
  <1>1. /\ finished' \in Seq(Ended) /\ EmittedToGoodCut' /\ BlocksComplete'
    BY StepEnds DEF Eof
  <1>2. TypeOK'
    BY <1>1, EmptyText DEF IInv, TypeOK, Eof, upstream
  <1>3. QED
    BY <1>1, <1>2 DEF IInv

\* Between blocks there is nothing to drain.
LEMMA NothingToDrain ==
  ASSUME IInv, phase \in {"between", "tail"}
  PROVE  /\ received = << >> /\ pending = << >> /\ emitted = << >>
         /\ Drain = << >> /\ emitted \o Drain = << >>
  <1>1. received = << >> /\ pending = << >>
    BY DEF IInv, TypeOK
  <1>2. Drain = << >>
    BY <1>1, EmptyText DEF Drain
  <1>3. emitted \o Reversed(pending) = Reversed(received)
    BY GoodCutIsBatch DEF IInv, StreamIsBatch
  <1>4. emitted \o << >> = << >>
    BY <1>1, <1>3, EmptyText
  <1>5. emitted \in Seq(Piece)
    BY DEF IInv, TypeOK
  <1>6. emitted = << >>
    BY <1>4, <1>5, ConcatEmptySeq
  <1>7. QED
    BY <1>1, <1>2, <1>4, <1>6

LEMMA StepMessageEnd == ASSUME IInv, MessageEnd PROVE IInv'
  <1>1. /\ received' = << >> /\ pending' = << >> /\ emitted' = << >>
    BY NothingToDrain DEF MessageEnd
  <1>2. TypeOK'
    BY <1>1, EmptyText DEF IInv, TypeOK, MessageEnd
  <1>3. EmittedToGoodCut'
    <2>1. << >> \o << >> = << >>
      BY EmptyText, ConcatEmptySeq
    <2>2. QED
      BY <1>1, <2>1, EmptyText DEF EmittedToGoodCut
  <1>4. BlocksComplete'
    BY DEF IInv, BlocksComplete, MessageEnd
  <1>5. QED
    BY <1>2, <1>3, <1>4 DEF IInv

LEMMA StepErrorEvent == ASSUME IInv, ErrorEvent PROVE IInv'
  BY DEF IInv, TypeOK, EmittedToGoodCut, BlocksComplete, ErrorEvent

LEMMA StepTransportError == ASSUME IInv, TransportError PROVE IInv'
  BY DEF IInv, TypeOK, EmittedToGoodCut, BlocksComplete,
         TransportError, upstream

LEMMA StepStutter == ASSUME IInv, UNCHANGED vars PROVE IInv'
  BY DEF IInv, TypeOK, EmittedToGoodCut, BlocksComplete, vars, upstream

\* The invariant of the reverser, for every message, table and cut.
THEOREM Invariance == Spec => []IInv
  <1>1. ASSUME IInv, [Next]_vars PROVE IInv'
    BY <1>1, StepBlockStart, StepTextDelta, StepJsonDelta, StepBlockStop, StepMessageEnd,
       StepErrorEvent, StepEof, StepTransportError, StepStutter DEF Next
  <1>2. QED
    BY InitIInv, <1>1, PTL DEF Spec

\* Every reachable state has the shape TypeOK describes.
THEOREM TypeCorrect == Spec => []TypeOK
  <1>1. IInv => TypeOK
    BY DEF IInv
  <1>2. QED
    BY <1>1, Invariance, PTL

\* However the upstream cuts its text, the client reads what it would have
\* read had the whole block been reversed in one piece.
THEOREM StreamAlwaysBatch == Spec => []StreamIsBatch
  <1>1. IInv => StreamIsBatch
    BY GoodCutIsBatch DEF IInv
  <1>2. QED
    BY <1>1, Invariance, PTL

\* A block that ended brought its own text, reversed, and all of it.
THEOREM AlwaysComplete == Spec => []BlocksComplete
  <1>1. IInv => BlocksComplete
    BY DEF IInv
  <1>2. QED
    BY <1>1, Invariance, PTL

-----------------------------------------------------------------------------
(* What is withheld.                                                       *)

\* The withheld text is the beginning of a placeholder.
HeldPartial == pending # << >> => PartialAt(pending, 1, Len(pending))

LEMMA WithheldPartial ==
  ASSUME NEW s \in Seq(Char), Withheld(s) # << >>
  PROVE  PartialAt(Withheld(s), 1, Len(Withheld(s)))
  <1>1. ASSUME NEW k, k = SafeEmitPosition(s), NEW keep, keep = Withheld(s)
        PROVE  PartialAt(keep, 1, Len(keep))
    <2>1. k \in 0 .. Len(s) /\ Len(s) \in Nat
      BY <1>1, SafeCut, LenProperties
    <2>2. keep \in Seq(Char) /\ Len(keep) = Len(s) - k /\ \A i \in 1 .. Len(s) - k : keep[i] = s[k + i]
      BY <1>1, <2>1, Split DEF Withheld
    <2>3. k < Len(s)
      <3>1. Len(keep) # 0
        BY <1>1, <2>2, EmptySeq
      <3>2. QED
        BY <2>1, <2>2, <3>1
    <2>4. PartialAt(s, k + 1, Len(s))
      BY <1>1, <2>3, SafeCut
    <2>5. PartialAt(s, 1 + k, Len(keep) + k) <=> PartialAt(keep, 1, Len(keep))
      <3>1. \A i \in 1 .. Len(keep) : s[i + k] = keep[i]
        <4>1. \A i \in 1 .. Len(keep) : i + k = k + i
          BY <2>1, <2>2
        <4>2. QED
          BY <2>2, <4>1
      <3>2. 1 \in Int /\ Len(keep) \in Int /\ k \in Int /\ 1 <= Len(keep)
        BY <2>1, <2>2, <2>3
      <3>3. QED
        BY ONLY <3>1, <3>2, PartialSame
    <2>6. 1 + k = k + 1 /\ Len(keep) + k = Len(s)
      BY <2>1, <2>2
    <2>7. QED
      BY <2>4, <2>5, <2>6
  <1>2. QED
    BY <1>1

LEMMA HeldPartialStep ==
  ASSUME IInv, HeldPartial, [Next]_vars
  PROVE  HeldPartial'
  <1>1. CASE TextDelta
    <2>1. PICK n \in 0 .. Len(rest) :
            LET chunk == SubSeq(rest, 1, n)
                buf == pending \o chunk
            IN  /\ rest' = SubSeq(rest, n + 1, Len(rest))
                /\ received' = received \o chunk
                /\ pending' = Withheld(buf)
                /\ emitted' = emitted \o Reversed(Released(buf))
      BY <1>1 DEF TextDelta
    <2>2. pending' = Withheld(pending \o SubSeq(rest, 1, n))
      BY <2>1
    <2>3. rest \in Seq(Char) /\ pending \in Seq(Char)
      BY DEF IInv, TypeOK
    <2>4. SubSeq(rest, 1, n) \in Seq(Char)
      BY <2>3, Split
    <2>5. pending \o SubSeq(rest, 1, n) \in Seq(Char)
      BY <2>3, <2>4, ConcatProperties
    <2>6. QED
      BY <2>2, <2>5, WithheldPartial DEF HeldPartial
  <1>2. CASE BlockStart \/ JsonDelta \/ ErrorEvent \/ TransportError \/ UNCHANGED vars
    BY <1>2 DEF HeldPartial, BlockStart, JsonDelta, ErrorEvent, TransportError, vars
  <1>3. CASE BlockStop \/ MessageEnd \/ Eof
    BY <1>3 DEF HeldPartial, BlockStop, MessageEnd, Eof
  <1>4. QED
    BY <1>1, <1>2, <1>3 DEF Next

\* t has the m characters of the prefix from number k on, then c_d and the
\* closing guillemet.
IsEnding(t, k, m, c, d) ==
  /\ t \in Seq(Char) /\ Len(t) = m + 4
  /\ \A i \in 1 .. m : t[i] = SecretPrefix[k - 1 + i]
  /\ t[m + 1] = c /\ t[m + 2] = Underscore /\ t[m + 3] = d /\ t[m + 4] = Close

LEMMA EndingShape ==
  ASSUME NEW k \in 1 .. Len(SecretPrefix) + 1, NEW c \in Slug, NEW d \in Digit,
         NEW m, m = Len(SecretPrefix) - k + 1, NEW t, t = Ending(k, c, d)
  PROVE  IsEnding(t, k, m, c, d)
  <1>1. Len(SecretPrefix) \in Nat /\ \A i \in 1 .. Len(SecretPrefix) : SecretPrefix[i] \in Slug
    BY CharAssumption, PrefixChar, LenProperties
  <1>2. ASSUME NEW a, a = SubSeq(SecretPrefix, k, Len(SecretPrefix))
        PROVE  /\ a \in Seq(Char) /\ Len(a) = m /\ \A i \in 1 .. m : a[i] = SecretPrefix[k - 1 + i]
    <2>1. k \in Int /\ Len(SecretPrefix) \in Int /\ \A i \in k .. Len(SecretPrefix) : SecretPrefix[i] \in Char
      BY <1>1 DEF Char
    <2>2. /\ a \in Seq(Char) /\ Len(a) = IF k <= Len(SecretPrefix) THEN Len(SecretPrefix) - k + 1 ELSE 0
          /\ \A i \in 1 .. Len(SecretPrefix) - k + 1 : a[i] = SecretPrefix[k + i - 1]
      BY <1>2, <2>1, SubSeqProperties
    <2>3. \A i \in 1 .. m : k + i - 1 = k - 1 + i
      BY <1>1
    <2>4. QED
      BY <1>1, <2>2, <2>3
  <1>3. ASSUME NEW b, b = <<c, Underscore, d, Close>>
        PROVE  /\ b \in Seq(Char) /\ Len(b) = 4
               /\ b[1] = c /\ b[2] = Underscore /\ b[3] = d /\ b[4] = Close
    BY <1>3, CharAssumption DEF Char
  <1>4. ASSUME NEW a, a = SubSeq(SecretPrefix, k, Len(SecretPrefix)),
               NEW b, b = <<c, Underscore, d, Close>>
        PROVE  /\ m \in Nat /\ t \in Seq(Char) /\ Len(t) = m + 4
               /\ \A i \in 1 .. m : t[i] = SecretPrefix[k - 1 + i]
               /\ t[m + 1] = b[1] /\ t[m + 2] = b[2] /\ t[m + 3] = b[3] /\ t[m + 4] = b[4]
    <2>1. a \in Seq(Char) /\ Len(a) = m /\ b \in Seq(Char) /\ Len(b) = 4 /\ m \in Nat
      BY <1>1, <1>2, <1>3, <1>4
    <2>2. t = a \o b
      BY <1>4 DEF Ending
    <2>3. /\ t \in Seq(Char) /\ Len(t) = Len(a) + Len(b)
          /\ \A i \in 1 .. Len(a) + Len(b) : t[i] = IF i <= Len(a) THEN a[i] ELSE b[i - Len(a)]
      <3>1. a \in Seq(Char) /\ b \in Seq(Char)
        BY <2>1
      <3>2. QED
        BY ONLY <2>2, <3>1, ConcatProperties
    <2>4. \A i \in 1 .. m + 4 : (i <= m => t[i] = a[i]) /\ (~ (i <= m) => t[i] = b[i - m])
      BY ONLY <2>1, <2>3
    <2>5. \A i \in 1 .. m : t[i] = SecretPrefix[k - 1 + i]
      <3>1. \A i \in 1 .. m : a[i] = SecretPrefix[k - 1 + i]
        BY <1>2, <1>4
      <3>2. \A i \in 1 .. m : t[i] = a[i]
        BY ONLY <2>1, <2>4
      <3>3. QED
        BY ONLY <3>1, <3>2
    <2>6. t[m + 1] = b[1] /\ t[m + 2] = b[2] /\ t[m + 3] = b[3] /\ t[m + 4] = b[4]
      BY ONLY <2>1, <2>4
    <2>7. t \in Seq(Char) /\ Len(t) = m + 4
      BY <2>1, <2>3
    <2>8. QED
      BY <2>1, <2>5, <2>6, <2>7
  <1>5. QED
    BY <1>3, <1>4 DEF IsEnding

\* Every partial placeholder can be finished.
LEMMA CanBeFinished ==
  ASSUME NEW s \in Seq(Char), s # << >>, PartialAt(s, 1, Len(s))
  PROVE  \E tail \in Completions : PlaceholderAt(s \o tail, 1, Len(s \o tail))
  <1>1. PICK c \in Slug, d \in Digit : TRUE
    BY CharAssumption
  <1>2. ASSUME NEW L, L = Len(SecretPrefix), NEW n, n = Len(s),
               NEW k, k = IF n <= L THEN n ELSE L + 1, NEW m, m = L - k + 1,
               NEW t, t = Ending(k, c, d), NEW w, w = s \o t
        PROVE  PlaceholderAt(w, 1, Len(w)) /\ t \in Completions
    <2>0. /\ L \in Nat /\ n \in Nat \ {0} /\ m \in Nat /\ k \in 1 .. L + 1
          /\ n + m >= L + 1 /\ (n > L => m = 0) /\ (n <= L => n + m = L + 1 /\ k = n)
      <3>1. L \in Nat /\ n \in Nat \ {0}
        BY <1>2, CharAssumption, EmptySeq, LenProperties
      <3>2. CASE n <= L
        <4>1. k = n /\ m = L - n + 1
          BY <1>2, <3>2
        <4>2. QED
          BY <3>1, <3>2, <4>1
      <3>3. CASE n > L
        <4>1. k = L + 1 /\ m = L - (L + 1) + 1
          BY <1>2, <3>1, <3>3
        <4>2. QED
          BY <3>1, <3>3, <4>1
      <3>4. QED
        BY <3>1, <3>2, <3>3
    <2>1. /\ t \in Seq(Char) /\ Len(t) = m + 4
          /\ \A i \in 1 .. m : t[i] = SecretPrefix[k - 1 + i]
          /\ t[m + 1] = c /\ t[m + 2] = Underscore /\ t[m + 3] = d /\ t[m + 4] = Close
      <3>1. IsEnding(t, k, m, c, d)
        BY <1>2, <2>0, EndingShape
      <3>2. QED
        BY <3>1 DEF IsEnding
    <2>2. /\ Len(w) = n + (m + 4)
          /\ \A i \in 1 .. n : w[i] = s[i]
          /\ \A i \in 1 .. m + 4 : w[n + i] = t[i]
      <3>1. /\ Len(w) = Len(s) + Len(t)
            /\ \A i \in 1 .. Len(s) + Len(t) : w[i] = IF i <= Len(s) THEN s[i] ELSE t[i - Len(s)]
        BY <1>2, <2>1, ConcatProperties
      <3>2. Len(s) = n /\ Len(t) = m + 4
        BY <1>2, <2>1
      <3>3. \A i \in 1 .. n : w[i] = s[i]
        BY ONLY <2>0, <3>1, <3>2
      <3>4. ASSUME NEW i \in 1 .. m + 4 PROVE w[n + i] = t[i]
        <4>1. n + i \in 1 .. Len(s) + Len(t) /\ ~ (n + i <= Len(s)) /\ (n + i) - Len(s) = i
          BY <2>0, <3>2
        <4>2. QED
          BY ONLY <3>1, <4>1
      <3>5. QED
        BY <3>1, <3>2, <3>3, <3>4
    <2>3. /\ Len(w) = n + m + 4
          /\ w[n + m + 1] = c /\ w[n + m + 2] = Underscore /\ w[n + m + 3] = d /\ w[n + m + 4] = Close
      <3>1. /\ n + (m + 1) = n + m + 1 /\ n + (m + 2) = n + m + 2 /\ n + (m + 3) = n + m + 3
            /\ n + (m + 4) = n + m + 4
            /\ m + 1 \in 1 .. m + 4 /\ m + 2 \in 1 .. m + 4 /\ m + 3 \in 1 .. m + 4 /\ m + 4 \in 1 .. m + 4
        BY <2>0
      <3>2. QED
        BY <2>1, <2>2, <3>1
    <2>4. PartialAt(w, 1, Len(w) - 1)
      <3>1. w[1] = Open
        <4>1. 1 \in 1 .. n
          BY <2>0
        <4>2. s[1] = Open
          BY DEF PartialAt
        <4>3. QED
          BY <2>2, <4>1, <4>2
      <3>2. ASSUME NEW i \in 1 + 1 .. Len(w) - 1
            PROVE  IF i - 1 <= Len(SecretPrefix) THEN w[i] = SecretPrefix[i - 1] ELSE w[i] \in Slug
        <4>1. CASE i <= n
          <5>1. i \in 1 .. n /\ i \in 1 + 1 .. Len(s)
            BY <2>0, <2>3, <4>1, <1>2
          <5>2. w[i] = s[i]
            BY <2>2, <5>1
          <5>3. IF i - 1 <= Len(SecretPrefix) THEN s[i] = SecretPrefix[i - 1] ELSE s[i] \in Slug
            BY <5>1 DEF PartialAt
          <5>4. QED
            BY <5>2, <5>3
        <4>2. CASE n < i /\ i <= n + m
          <5>1. /\ i - n \in 1 .. m /\ i - n \in 1 .. m + 4 /\ n + (i - n) = i
                /\ k - 1 + (i - n) = i - 1 /\ i - 1 <= L
            BY <2>0, <2>3, <4>2
          <5>2. w[i] = t[i - n] /\ t[i - n] = SecretPrefix[k - 1 + (i - n)]
            BY <2>1, <2>2, <5>1
          <5>3. QED
            BY <5>1, <5>2, <1>2
        <4>3. CASE n + m < i
          <5>1. i \in {n + m + 1, n + m + 2, n + m + 3}
            BY <2>0, <2>3, <4>3
          <5>2. w[i] \in Slug
            BY <2>3, <5>1, CharAssumption
          <5>3. ~ (i - 1 <= L)
            BY <2>0, <4>3
          <5>4. QED
            BY <5>2, <5>3, <1>2
        <4>4. QED
          BY <2>0, <4>1, <4>2, <4>3
      <3>3. QED
        BY <3>1, <3>2 DEF PartialAt
    <2>5. \E u \in 1 + Len(SecretPrefix) + 2 .. Len(w) - 2 :
             w[u] = Underscore /\ \A i \in u + 1 .. Len(w) - 1 : w[i] \in Digit
      <3>1. n + m + 2 \in 1 + L + 2 .. Len(w) - 2
        BY <2>0, <2>3
      <3>2. ASSUME NEW i \in (n + m + 2) + 1 .. Len(w) - 1 PROVE w[i] \in Digit
        <4>1. i = n + m + 3
          BY <2>0, <2>3
        <4>2. QED
          BY <2>3, <4>1
      <3>3. QED
        BY <2>3, <3>1, <3>2, <1>2
    <2>6. PlaceholderAt(w, 1, Len(w))
      BY <2>3, <2>4, <2>5 DEF PlaceholderAt
    <2>7. t \in Completions
      <3>1. Ending(k, c, d) \in Completions
        <4>1. ASSUME NEW j \in 1 .. Len(SecretPrefix) + 1 PROVE Ending(j, c, d) \in Completions
          BY DEF Completions
        <4>2. k \in 1 .. Len(SecretPrefix) + 1
          BY <1>2, <2>0
        <4>3. QED
          BY <4>1, <4>2
      <3>2. QED
        BY <1>2, <3>1
    <2>8. QED
      BY <2>6, <2>7
  <1>3. QED
    BY <1>2

\* The reverser withholds text only while some continuation would make a
\* placeholder of it.
THEOREM HoldsNoMore == Spec => []HoldsOnlyPossiblePlaceholder
  <1>1. Init => HeldPartial
    BY DEF Init, HeldPartial
  <1>2. IInv /\ HeldPartial => HoldsOnlyPossiblePlaceholder
    BY CanBeFinished DEF IInv, TypeOK, HeldPartial, HoldsOnlyPossiblePlaceholder
  <1>3. QED
    BY <1>1, <1>2, HeldPartialStep, Invariance, PTL DEF Spec

-----------------------------------------------------------------------------
\* A text starts with its parts.
LEMMA ConcatStartsWith ==
  ASSUME NEW S, NEW s \in Seq(S), NEW t \in Seq(S)
  PROVE  Abstract!StartsWith(s \o t, s)
  <1>1. /\ Len(s \o t) = Len(s) + Len(t) /\ Len(s) \in Nat /\ Len(t) \in Nat
        /\ \A i \in 1 .. Len(s) + Len(t) : (s \o t)[i] = IF i <= Len(s) THEN s[i] ELSE t[i - Len(s)]
    BY ConcatProperties, LenProperties
  <1>2. \A i \in 1 .. Len(s) : (s \o t)[i] = s[i]
    BY <1>1
  <1>3. QED
    BY <1>1, <1>2 DEF Abstract!StartsWith

\* Whatever was emitted is the beginning of the block's reversal.
LEMMA EmittedStartsReversal ==
  ASSUME IInv
  PROVE  Abstract!StartsWith(Reversed(received), emitted)
  <1>1. /\ emitted \in Seq(Piece) /\ Reversed(pending) \in Seq(Piece)
        /\ emitted \o Reversed(pending) = Reversed(received)
    BY ReversedType, GoodCutIsBatch DEF IInv, TypeOK, StreamIsBatch
  <1>2. Abstract!StartsWith(emitted \o Reversed(pending), emitted)
    BY <1>1, ConcatStartsWith
  <1>3. QED
    BY <1>1, <1>2

\* StreamReversal and SseReverser reverse with the same table.
LEMMA SameReversal == \A s : Abstract!Reversed(s) = Reversed(s)
  <1> SUFFICES ASSUME NEW s PROVE Abstract!Reversed(s) = Reversed(s)
    OBVIOUS
  <1>1. Abstract!KnownMatches(s) = KnownMatches(s)
    BY DEF Abstract!KnownMatches, KnownMatches, Abstract!PlaceholderAt, PlaceholderAt,
           Abstract!PartialAt, PartialAt
  <1>2. \A i, m : Abstract!Inside(i, m) <=> Inside(i, m)
    BY DEF Abstract!Inside, Inside
  <1>3. QED
    BY <1>1, <1>2 DEF Abstract!Reversed, Reversed

LEMMA DeliverStep ==
  ASSUME IInv, IInv', TextDelta
  PROVE  Abstract!Deliver
  <1>1. PICK n \in 0 .. Len(rest) :
          LET chunk == SubSeq(rest, 1, n)
              buf == pending \o chunk
          IN  /\ received' = received \o chunk
              /\ emitted' = emitted \o Reversed(Released(buf))
    BY DEF TextDelta
  <1> DEFINE chunk == SubSeq(rest, 1, n)
             out == Released(pending \o chunk)
  <1>2. /\ rest \in Seq(Char) /\ pending \in Seq(Char) /\ received \in Seq(Char)
        /\ emitted \in Seq(Piece)
    BY DEF IInv, TypeOK
  <1>3. chunk \in Seq(Char)
    BY <1>2, Split
  <1>4. received' = received \o chunk /\ emitted' = emitted \o Reversed(out)
    BY <1>1
  <1> HIDE DEF chunk
  <1>5. out \in Seq(Char)
    <2>1. pending \o chunk \in Seq(Char)
      BY <1>2, <1>3, ConcatProperties
    <2>2. QED
      BY <2>1, SafeCut, Split DEF Released
  <1> HIDE DEF out
  <1>6. Reversed(out) \in Seq(Piece)
    BY <1>5, ReversedType
  <1>7. Abstract!StartsWith(received', received)
    BY <1>2, <1>3, <1>4, ConcatStartsWith
  <1>8. Abstract!StartsWith(emitted', emitted)
    BY <1>2, <1>4, <1>6, ConcatStartsWith
  <1>9. Abstract!StartsWith(Reversed(received'), emitted')
    <2>1. /\ emitted' \in Seq(Piece) /\ pending' \in Seq(Char)
      BY DEF IInv, TypeOK
    <2>2. StreamIsBatch'
      BY GoodCutIsBatch, PTL DEF IInv
    <2>3. emitted' \o Reversed(pending') = Reversed(received')
      BY <2>2 DEF StreamIsBatch
    <2>4. Reversed(pending') \in Seq(Piece)
      BY <2>1, ReversedType
    <2>5. Abstract!StartsWith(emitted' \o Reversed(pending'), emitted')
      BY <2>1, <2>4, ConcatStartsWith
    <2>6. QED
      BY <2>3, <2>5
  <1>10. /\ status = "streaming" /\ status' = status /\ finished' = finished
    BY DEF TextDelta
  <1>11. Abstract!Reversed(received') = Reversed(received')
    BY SameReversal
  <1>12. QED
    BY <1>7, <1>8, <1>9, <1>10, <1>11 DEF Abstract!Deliver

LEMMA EndBlockStep ==
  ASSUME IInv, finished' = Append(finished, EndedBlock),
         received' = << >>, emitted' = << >>, status = "streaming",
         status' \in {"streaming", "flushed"}
  PROVE  Abstract!EndBlock
  <1>1. Abstract!StartsWith(Reversed(received), emitted)
    BY EmittedStartsReversal
  <1>2. finished' = Append(finished, [up |-> received, down |-> Reversed(received)])
    BY EndedBlockOK
  <1>3. Abstract!Reversed(received) = Reversed(received)
    BY SameReversal
  <1>4. QED
    BY <1>1, <1>2, <1>3 DEF Abstract!EndBlock

\* The streaming reverser implements StreamReversal.
THEOREM Refinement == Spec => ImplementsStreamReversal
  <1>1. Init => Abstract!Init
    BY EmptySeq DEF Init, Abstract!Init
  <1>2. ASSUME IInv, IInv', [Next]_vars PROVE [Abstract!Next]_(Abstract!vars)
    <2>1. CASE BlockStart
      BY <2>1 DEF BlockStart, Abstract!vars
    <2>2. CASE TextDelta
      BY <1>2, <2>2, DeliverStep DEF Abstract!Next
    <2>3. CASE JsonDelta
      BY <2>3 DEF JsonDelta, Abstract!vars
    <2>4. CASE BlockStop
      BY <1>2, <2>4, EndBlockStep DEF BlockStop, Abstract!Next
    <2>5. CASE MessageEnd
      <3>1. received' = received /\ emitted' = emitted
        BY <1>2, <2>5, NothingToDrain DEF MessageEnd
      <3>2. QED
        BY <2>5, <3>1 DEF MessageEnd, Abstract!vars
    <2>6. CASE ErrorEvent
      BY <2>6 DEF ErrorEvent, Abstract!vars
    <2>7. CASE Eof
      BY <1>2, <2>7, EndBlockStep DEF Eof, Abstract!Next
    <2>8. CASE TransportError
      BY <2>8 DEF TransportError, Abstract!Next, Abstract!Fail
    <2>9. CASE UNCHANGED vars
      BY <2>9 DEF vars, Abstract!vars
    <2>10. QED
      BY <1>2, <2>1, <2>2, <2>3, <2>4, <2>5, <2>6, <2>7, <2>8, <2>9 DEF Next
  <1>3. QED
    BY <1>1, <1>2, Invariance, PTL DEF Spec, ImplementsStreamReversal, Abstract!Spec

=============================================================================
