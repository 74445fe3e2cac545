--------------------------- MODULE RedactionProofs ---------------------------
(***************************************************************************)
(* Theorems about Redaction, for any set of kinds, characters, texts and   *)
(* bodies.  The argument: `placeholder_for` keeps a table well formed and  *)
(* consistent (LibraryProofs), and only SubstituteFinding touches the      *)
(* table.                                                                  *)
(***************************************************************************)
EXTENDS Redaction, LibraryProofs

(***************************************************************************)
(* What a list of findings does to a body.                                 *)
(***************************************************************************)

\* A list of findings as `substitute` needs it: spans of this body, each one
\* behind all that precede it.
IsFindings(body, fs) ==
  /\ fs \in Seq(Finding)
  /\ \A n \in 1 .. Len(fs) : fs[n] \in FindingsFor(body)
  /\ \A j, n \in 1 .. Len(fs) : j < n => fs[j].end <= fs[n].start

\* Where the n-th finding ends, and where the gap behind it ends.
EndOf(fs, n) == IF n = 0 THEN 0 ELSE fs[n].end
GapEnd(body, fs, n) == IF n = Len(fs) THEN Len(body) ELSE fs[n + 1].start

\* The secret of a finding is in the table.
Bound(m, body, f) == <<f.kind, TextOf(body, f)>> \in DOMAIN m.forward

LEMMA FindingBounds ==
  ASSUME NEW body \in Seq(Token), NEW fs, IsFindings(body, fs), NEW n \in 1 .. Len(fs)
  PROVE  /\ fs[n].kind \in Kind /\ TextOf(body, fs[n]) \in Text
         /\ fs[n].start \in Nat /\ fs[n].end \in Nat
         /\ fs[n].start < fs[n].end /\ fs[n].end <= Len(body)
  <1>1. fs[n] \in FindingsFor(body) /\ Len(body) \in Nat
    BY LenProperties DEF IsFindings
  <1>2. QED
    BY <1>1 DEF FindingsFor

\* `scan` returns neighbours in order; then any two findings are.
LEMMA Ascending ==
  ASSUME NEW body \in Seq(Token), NEW fs \in Seq(Finding),
         \A n \in 1 .. Len(fs) : fs[n] \in FindingsFor(body), IsAscending(fs)
  PROVE  IsFindings(body, fs)
  <1> DEFINE T == {d \in Nat : \A j \in 1 .. Len(fs) :
                     j + 1 + d <= Len(fs) => fs[j].end <= fs[j + 1 + d].start}
  <1>0. Len(fs) \in Nat /\ Len(body) \in Nat
    BY LenProperties
  <1>1. \A n \in 1 .. Len(fs) :
          fs[n].start \in Nat /\ fs[n].end \in Nat /\ fs[n].start < fs[n].end
    BY <1>0 DEF FindingsFor
  <1>2. \A n \in 1 .. Len(fs) - 1 : fs[n].end <= fs[n + 1].start
    BY DEF IsAscending
  <1>3. 0 \in T
    <2>1. ASSUME NEW j \in 1 .. Len(fs), j + 1 + 0 <= Len(fs)
          PROVE  fs[j].end <= fs[j + 1 + 0].start
      <3>1. j \in 1 .. Len(fs) - 1 /\ j + 1 + 0 = j + 1
        BY <1>0, <2>1
      <3>2. QED
        BY <1>2, <3>1
    <2>2. QED
      BY <2>1
  <1>4. ASSUME NEW d \in Nat, d \in T PROVE d + 1 \in T
    <2>1. ASSUME NEW j \in 1 .. Len(fs), j + 1 + (d + 1) <= Len(fs)
          PROVE  fs[j].end <= fs[j + 1 + (d + 1)].start
      <3> DEFINE n == j + 1 + d
      <3>1. n \in 1 .. Len(fs) - 1 /\ n \in 1 .. Len(fs) /\ n + 1 \in 1 .. Len(fs)
            /\ j + 1 + (d + 1) = n + 1
        BY <1>0, <2>1
      <3>2. fs[j].end <= fs[n].start
        BY <1>4, <3>1
      <3>3. fs[n].end <= fs[n + 1].start
        BY <1>2, <3>1
      <3>4. fs[n].start < fs[n].end
        BY <1>1, <3>1
      <3>5. fs[j].end \in Nat /\ fs[n].start \in Nat /\ fs[n].end \in Nat /\ fs[n + 1].start \in Nat
        BY <1>1, <3>1
      <3> HIDE DEF n
      <3>6. fs[j].end <= fs[n + 1].start
        BY ONLY <3>2, <3>3, <3>4, <3>5
      <3>7. QED
        BY <3>1, <3>6
    <2>2. QED
      BY <2>1
  <1> HIDE DEF T
  <1>5. Nat \subseteq T
    BY <1>3, <1>4, Induction
  <1>6. ASSUME NEW j \in 1 .. Len(fs), NEW n \in 1 .. Len(fs), j < n
        PROVE  fs[j].end <= fs[n].start
    <2> DEFINE d == n - j - 1
    <2>1. d \in Nat /\ j + 1 + d = n
      BY <1>6
    <2>2. d \in T
      BY <1>5, <2>1
    <2> HIDE DEF d
    <2>3. QED
      BY <2>1, <2>2 DEF T
  <1>7. QED
    BY <1>6 DEF IsFindings

\* Findings do not overlap, and a position lies in at most one of them.
LEMMA OneFinding ==
  ASSUME NEW body \in Seq(Token), NEW fs, IsFindings(body, fs),
         NEW j \in 1 .. Len(fs), NEW n \in 1 .. Len(fs), NEW i \in Nat,
         fs[j].start < i, i <= fs[j].end, fs[n].start < i, i <= fs[n].end
  PROVE  j = n
  <1>1. fs[j].start \in Nat /\ fs[j].end \in Nat /\ fs[n].start \in Nat /\ fs[n].end \in Nat
    BY FindingBounds
  <1>2. (j < n => fs[j].end <= fs[n].start) /\ (n < j => fs[n].end <= fs[j].start)
    BY DEF IsFindings
  <1>3. j \in Nat /\ n \in Nat
    OBVIOUS
  <1>4. ~ (j < n) /\ ~ (n < j)
    BY <1>1, <1>2
  <1>5. QED
    BY <1>3, <1>4

\* The findings behind the n-th start at or behind the end of its gap.
LEMMA Later ==
  ASSUME NEW body \in Seq(Token), NEW fs, IsFindings(body, fs), NEW n \in 0 .. Len(fs),
         NEW j \in 1 .. Len(fs), n < j
  PROVE  GapEnd(body, fs, n) <= fs[j].start
  <1>0. Len(fs) \in Nat
    BY LenProperties DEF IsFindings
  <1>1. n # Len(fs) /\ n + 1 \in 1 .. Len(fs) /\ (n + 1 = j \/ n + 1 < j)
    BY <1>0
  <1>2. /\ fs[n + 1].start \in Nat /\ fs[n + 1].end \in Nat /\ fs[j].start \in Nat
        /\ fs[n + 1].start < fs[n + 1].end
    BY <1>1, FindingBounds
  <1>3. n + 1 < j => fs[n + 1].end <= fs[j].start
    BY <1>1 DEF IsFindings
  <1>4. GapEnd(body, fs, n) = fs[n + 1].start
    BY <1>1 DEF GapEnd
  <1>5. QED
    BY <1>1, <1>2, <1>3, <1>4

\* Positions in the order of the loop.
LEMMA Milestones ==
  ASSUME NEW body \in Seq(Token), NEW fs, IsFindings(body, fs), NEW n \in 0 .. Len(fs)
  PROVE  /\ EndOf(fs, n) \in Nat /\ GapEnd(body, fs, n) \in Nat
         /\ EndOf(fs, n) <= GapEnd(body, fs, n) /\ GapEnd(body, fs, n) <= Len(body)
  <1>0. Len(fs) \in Nat /\ Len(body) \in Nat
    BY LenProperties DEF IsFindings
  <1>1. n # 0 => /\ n \in 1 .. Len(fs) /\ EndOf(fs, n) = fs[n].end /\ fs[n].end \in Nat
                 /\ fs[n].end <= Len(body)
    BY <1>0, FindingBounds DEF EndOf
  <1>2. n # Len(fs) => /\ n + 1 \in 1 .. Len(fs) /\ GapEnd(body, fs, n) = fs[n + 1].start
                       /\ fs[n + 1].start \in Nat /\ fs[n + 1].end \in Nat
                       /\ fs[n + 1].start < fs[n + 1].end /\ fs[n + 1].end <= Len(body)
    <2>1. n # Len(fs) => n + 1 \in 1 .. Len(fs)
      BY <1>0
    <2>2. QED
      BY <2>1, FindingBounds DEF GapEnd
  <1>3. n # 0 /\ n # Len(fs) => fs[n].end <= fs[n + 1].start
    BY <1>0, <1>1, <1>2 DEF IsFindings
  <1>4. n = 0 => EndOf(fs, n) = 0
    BY DEF EndOf
  <1>5. n = Len(fs) => GapEnd(body, fs, n) = Len(body)
    BY DEF GapEnd
  <1>6. QED
    BY <1>0, <1>1, <1>2, <1>3, <1>4, <1>5

\* The gaps are not covered by any finding.
LEMMA GapIsPlain ==
  ASSUME NEW body \in Seq(Token), NEW fs, IsFindings(body, fs), NEW n \in 0 .. Len(fs),
         NEW i \in Nat, EndOf(fs, n) < i, i <= GapEnd(body, fs, n)
  PROVE  ~ Covered(fs, i)
  <1>1. ASSUME NEW j \in 1 .. Len(fs), fs[j].start < i, i <= fs[j].end PROVE FALSE
    <2>0. Len(fs) \in Nat
      BY LenProperties DEF IsFindings
    <2>1. fs[j].start \in Nat /\ fs[j].end \in Nat
      BY FindingBounds
    <2>2. CASE j <= n
      <3>1. n \in 1 .. Len(fs) /\ n # 0
        BY <2>0, <2>2
      <3>2. fs[n].start \in Nat /\ fs[n].end \in Nat /\ fs[n].start < fs[n].end
        BY <3>1, FindingBounds
      <3>3. fs[n].end < i
        BY <3>1 DEF EndOf
      <3>4. j < n => fs[j].end <= fs[n].start
        BY <3>1 DEF IsFindings
      <3>5. j = n \/ j < n
        BY <2>2, <3>1
      <3>6. QED
        BY <1>1, <2>1, <3>2, <3>3, <3>4, <3>5
    <2>3. CASE n < j
      <3>1. GapEnd(body, fs, n) <= fs[j].start /\ GapEnd(body, fs, n) \in Nat
        BY <2>3, Later, Milestones
      <3>2. QED
        BY <1>1, <2>1, <3>1
    <2>4. QED
      BY <2>2, <2>3
  <1>2. QED
    BY <1>1 DEF Covered

\* The three kinds of positions.
LEMMA PieceValue ==
  ASSUME NEW body \in Seq(Token), NEW fs, IsFindings(body, fs), NEW m, NEW i \in Nat
  PROVE  /\ ~ Covered(fs, i) => RedactedPiece(body, fs, m, i) = <<body[i]>>
         /\ \A n \in 1 .. Len(fs) :
              /\ i = fs[n].start + 1 =>
                   RedactedPiece(body, fs, m, i)
                     = <<m.forward[<<fs[n].kind, TextOf(body, fs[n])>>]>>
              /\ fs[n].start + 1 < i /\ i <= fs[n].end =>
                   RedactedPiece(body, fs, m, i) = << >>
  <1>1. ~ Covered(fs, i) => RedactedPiece(body, fs, m, i) = <<body[i]>>
    BY DEF RedactedPiece
  <1>2. \A j, n \in 1 .. Len(fs) :
          fs[j].start + 1 = i /\ fs[n].start < i /\ i <= fs[n].end => j = n
    <2>1. ASSUME NEW j \in 1 .. Len(fs), NEW n \in 1 .. Len(fs),
                 fs[j].start + 1 = i, fs[n].start < i, i <= fs[n].end
          PROVE  j = n
      <3>1. fs[j].start < i /\ i <= fs[j].end
        BY <2>1, FindingBounds
      <3>2. QED
        BY <2>1, <3>1, OneFinding
    <2>2. QED
      BY <2>1
  <1>3. ASSUME NEW n \in 1 .. Len(fs), i = fs[n].start + 1
        PROVE  RedactedPiece(body, fs, m, i)
                 = <<m.forward[<<fs[n].kind, TextOf(body, fs[n])>>]>>
    <2>1. fs[n].start < i /\ i <= fs[n].end
      BY <1>3, FindingBounds
    <2>2. Covered(fs, i)
      BY <2>1 DEF Covered
    <2>3. (CHOOSE j \in 1 .. Len(fs) : fs[j].start + 1 = i) = n
      BY <1>2, <1>3, <2>1
    <2>4. \E j \in 1 .. Len(fs) : fs[j].start + 1 = i
      BY <1>3
    <2>5. QED
      BY <2>2, <2>3, <2>4 DEF RedactedPiece
  <1>4. ASSUME NEW n \in 1 .. Len(fs), fs[n].start + 1 < i, i <= fs[n].end
        PROVE  RedactedPiece(body, fs, m, i) = << >>
    <2>1. fs[n].start \in Nat /\ fs[n].start < i
      BY <1>4, FindingBounds
    <2>2. Covered(fs, i)
      BY <1>4, <2>1 DEF Covered
    <2>3. ~ \E j \in 1 .. Len(fs) : fs[j].start + 1 = i
      BY <1>2, <1>4, <2>1
    <2>4. QED
      BY <2>2, <2>3 DEF RedactedPiece
  <1>5. QED
    BY <1>1, <1>3, <1>4

Pieces(body, fs, m) == [i \in 1 .. Len(body) |-> RedactedPiece(body, fs, m, i)]

LEMMA FrontIsUpto ==
  ASSUME NEW body \in Seq(Token), NEW fs, NEW m, NEW last \in 0 .. Len(body)
  PROVE  RedactedFront(body, fs, m, last) = Upto(Pieces(body, fs, m), last)
  <1>1. [i \in 1 .. last |-> RedactedPiece(body, fs, m, i)]
          = [i \in 1 .. last |-> Pieces(body, fs, m)[i]]
    <2>1. Len(body) \in Nat
      BY LenProperties
    <2>2. \A i \in 1 .. last : i \in 1 .. Len(body)
      BY <2>1
    <2>3. QED
      BY <2>2 DEF Pieces
  <1>2. QED
    BY <1>1, Zenon DEF RedactedFront, Upto

\* When the table holds the first n secrets, everything in front of the next
\* finding becomes tokens.
LEMMA PieceType ==
  ASSUME NEW body \in Seq(Token), NEW fs, IsFindings(body, fs), NEW m, IsMap(m),
         NEW n \in 0 .. Len(fs), \A j \in 1 .. n : Bound(m, body, fs[j]),
         NEW i \in Nat, 0 < i, i <= GapEnd(body, fs, n)
  PROVE  RedactedPiece(body, fs, m, i) \in Seq(Token)
  <1>0. Len(fs) \in Nat /\ Len(body) \in Nat /\ i <= Len(body)
    BY LenProperties, Milestones DEF IsFindings
  <1>1. CASE ~ Covered(fs, i)
    <2>1. body[i] \in Token
      BY <1>0, ElementOfSeq
    <2>2. RedactedPiece(body, fs, m, i) = <<body[i]>>
      BY <1>1, PieceValue
    <2>3. QED
      BY <2>1, <2>2
  <1>2. CASE Covered(fs, i)
    <2>1. PICK j \in 1 .. Len(fs) : fs[j].start < i /\ i <= fs[j].end
      BY <1>2 DEF Covered
    <2>2. fs[j].start \in Nat /\ fs[j].end \in Nat
      BY FindingBounds
    <2>3. j <= n
      <3>1. ASSUME n < j PROVE FALSE
        <4>1. GapEnd(body, fs, n) <= fs[j].start /\ GapEnd(body, fs, n) \in Nat
          BY <3>1, Later, Milestones
        <4>2. QED
          BY <2>1, <2>2, <4>1
      <3>2. QED
        BY <1>0, <3>1
    <2>4. CASE i = fs[j].start + 1
      <3>1. RedactedPiece(body, fs, m, i) = <<m.forward[<<fs[j].kind, TextOf(body, fs[j])>>]>>
        BY <2>4, PieceValue
      <3>2. <<fs[j].kind, TextOf(body, fs[j])>> \in DOMAIN m.forward
        BY <1>0, <2>1, <2>3 DEF Bound
      <3>3. m.forward[<<fs[j].kind, TextOf(body, fs[j])>>] \in Token
        BY <3>2 DEF IsMap, Token
      <3>4. QED
        BY <3>1, <3>3
    <2>5. CASE i # fs[j].start + 1
      <3>1. fs[j].start + 1 < i
        BY <2>1, <2>2, <2>5
      <3>2. RedactedPiece(body, fs, m, i) = << >>
        BY <2>1, <3>1, PieceValue
      <3>3. QED
        BY <3>2
    <2>6. QED
      BY <2>4, <2>5
  <1>3. QED
    BY <1>1, <1>2

LEMMA PiecesType ==
  ASSUME NEW body \in Seq(Token), NEW fs, IsFindings(body, fs), NEW m, IsMap(m),
         NEW n \in 0 .. Len(fs), \A j \in 1 .. n : Bound(m, body, fs[j])
  PROVE  /\ \A i \in 1 .. GapEnd(body, fs, n) : Pieces(body, fs, m)[i] \in Seq(Token)
         /\ \A i \in 1 .. Len(body) :
              Pieces(body, fs, m)[i] = RedactedPiece(body, fs, m, i)
  <1>1. \A i \in 1 .. Len(body) : Pieces(body, fs, m)[i] = RedactedPiece(body, fs, m, i)
    BY DEF Pieces
  <1>2. ASSUME NEW i \in 1 .. GapEnd(body, fs, n)
        PROVE  Pieces(body, fs, m)[i] \in Seq(Token)
    <2>1. Len(body) \in Nat /\ GapEnd(body, fs, n) \in Nat /\ GapEnd(body, fs, n) <= Len(body)
      BY LenProperties, Milestones
    <2>2. i \in Nat /\ 0 < i /\ i <= GapEnd(body, fs, n) /\ i \in 1 .. Len(body)
      BY <2>1
    <2>3. RedactedPiece(body, fs, m, i) \in Seq(Token)
      BY <2>2, PieceType
    <2>4. QED
      BY <1>1, <2>2, <2>3
  <1>3. QED
    BY <1>1, <1>2

\* The gap behind the n-th finding is copied.
LEMMA FrontGap ==
  ASSUME NEW body \in Seq(Token), NEW fs, IsFindings(body, fs), NEW m, IsMap(m),
         NEW n \in 0 .. Len(fs), \A j \in 1 .. n : Bound(m, body, fs[j])
  PROVE  /\ RedactedFront(body, fs, m, GapEnd(body, fs, n))
              = RedactedFront(body, fs, m, EndOf(fs, n))
                  \o SubSeq(body, EndOf(fs, n) + 1, GapEnd(body, fs, n))
         /\ RedactedFront(body, fs, m, GapEnd(body, fs, n)) \in Seq(Token)
         /\ RedactedFront(body, fs, m, EndOf(fs, n)) \in Seq(Token)
  <1>1. ASSUME NEW P, P = Pieces(body, fs, m), NEW a, a = EndOf(fs, n),
               NEW b, b = GapEnd(body, fs, n)
        PROVE  /\ RedactedFront(body, fs, m, b)
                    = RedactedFront(body, fs, m, a) \o SubSeq(body, a + 1, b)
               /\ RedactedFront(body, fs, m, b) \in Seq(Token)
               /\ RedactedFront(body, fs, m, a) \in Seq(Token)
    <2>0. Len(body) \in Nat
      BY LenProperties
    <2>1. a \in Nat /\ b \in Nat /\ a <= b /\ b <= Len(body)
      BY <1>1, Milestones
    <2>2. /\ \A i \in 1 .. b : P[i] \in Seq(Token)
          /\ \A i \in 1 .. Len(body) : P[i] = RedactedPiece(body, fs, m, i)
      BY <1>1, PiecesType
    <2>3. \A i \in a + 1 .. b : P[i] = <<body[i]>>
      <3>1. ASSUME NEW i \in a + 1 .. b PROVE P[i] = <<body[i]>>
        <4>1. i \in Nat /\ i \in 1 .. Len(body) /\ a < i /\ i <= b
          BY <2>0, <2>1
        <4>2. ~ Covered(fs, i)
          BY <1>1, <4>1, GapIsPlain
        <4>3. RedactedPiece(body, fs, m, i) = <<body[i]>>
          BY <4>1, <4>2, PieceValue
        <4>4. QED
          BY <2>2, <4>1, <4>3
      <3>2. QED
        BY <3>1
    <2>4. Upto(P, b) = Upto(P, a) \o SubSeq(body, a + 1, b)
      BY <2>1, <2>2, <2>3, UptoCopies
    <2>5. Upto(P, a) \in Seq(Token) /\ Upto(P, b) \in Seq(Token)
      <3>1. \A i \in 1 .. a : P[i] \in Seq(Token)
        BY <2>1, <2>2
      <3>2. QED
        BY <2>1, <2>2, <3>1, FrontIsSequence
    <2>6. /\ RedactedFront(body, fs, m, a) = Upto(P, a)
          /\ RedactedFront(body, fs, m, b) = Upto(P, b)
      <3>1. a \in 0 .. Len(body) /\ b \in 0 .. Len(body)
        BY <2>0, <2>1
      <3>2. QED
        BY <1>1, <3>1, FrontIsUpto
    <2>7. QED
      BY ONLY <2>4, <2>5, <2>6, Zenon
  <1>2. QED
    BY <1>1

\* The n-th finding becomes one token, its placeholder.
LEMMA FrontFinding ==
  ASSUME NEW body \in Seq(Token), NEW fs, IsFindings(body, fs), NEW m, IsMap(m),
         NEW n \in 1 .. Len(fs), \A j \in 1 .. n : Bound(m, body, fs[j])
  PROVE  RedactedFront(body, fs, m, fs[n].end)
           = RedactedFront(body, fs, m, fs[n].start)
               \o <<m.forward[<<fs[n].kind, TextOf(body, fs[n])>>]>>
  <1>1. ASSUME NEW P, P = Pieces(body, fs, m), NEW a, a = fs[n].start, NEW b, b = fs[n].end,
               NEW mark, mark = <<m.forward[<<fs[n].kind, TextOf(body, fs[n])>>]>>
        PROVE  RedactedFront(body, fs, m, b) = RedactedFront(body, fs, m, a) \o mark
    <2>0. Len(body) \in Nat /\ n \in 0 .. Len(fs)
      BY LenProperties
    <2>1. a \in Nat /\ b \in Nat /\ a < b /\ b <= Len(body)
      BY <1>1, FindingBounds
    <2>2. /\ \A i \in 1 .. GapEnd(body, fs, n) : P[i] \in Seq(Token)
          /\ \A i \in 1 .. Len(body) : P[i] = RedactedPiece(body, fs, m, i)
      BY <1>1, <2>0, PiecesType
    <2>3. b <= GapEnd(body, fs, n) /\ GapEnd(body, fs, n) \in Nat
      <3>1. EndOf(fs, n) = b
        BY <1>1 DEF EndOf
      <3>2. QED
        BY <2>0, <3>1, Milestones
    <2>4. \A i \in 1 .. b : P[i] \in Seq(Token)
      BY <2>1, <2>2, <2>3
    <2>5. P[a + 1] = mark
      <3>1. a + 1 \in Nat /\ a + 1 \in 1 .. Len(body)
        BY <2>0, <2>1
      <3>2. RedactedPiece(body, fs, m, a + 1) = mark
        BY <1>1, <3>1, PieceValue
      <3>3. QED
        BY <2>2, <3>1, <3>2
    <2>6. \A i \in (a + 1) + 1 .. b : P[i] = << >>
      <3>1. ASSUME NEW i \in (a + 1) + 1 .. b PROVE P[i] = << >>
        <4>1. i \in Nat /\ i \in 1 .. Len(body) /\ a + 1 < i /\ i <= b
          BY <2>0, <2>1
        <4>2. RedactedPiece(body, fs, m, i) = << >>
          BY <1>1, <4>1, PieceValue
        <4>3. QED
          BY <2>2, <4>1, <4>2
      <3>2. QED
        BY <3>1
    <2>7. Upto(P, a + 1) = Upto(P, a) \o P[a + 1]
      <3>1. \A i \in 1 .. a + 1 : P[i] \in Seq(Token)
        BY <2>1, <2>4
      <3>2. QED
        BY <2>1, <3>1, UptoStep
    <2>8. Upto(P, b) = Upto(P, a + 1)
      <3>1. a + 1 \in Nat /\ b \in Nat /\ a + 1 <= b
        BY <2>1
      <3>2. QED
        BY ONLY <3>1, <2>4, <2>6, UptoSkips
    <2>9. /\ RedactedFront(body, fs, m, a) = Upto(P, a)
          /\ RedactedFront(body, fs, m, b) = Upto(P, b)
      <3>1. a \in 0 .. Len(body) /\ b \in 0 .. Len(body)
        BY <2>0, <2>1
      <3>2. QED
        BY <1>1, <3>1, FrontIsUpto
    <2>10. QED
      BY ONLY <2>5, <2>7, <2>8, <2>9, Zenon
  <1>2. QED
    BY <1>1

\* Secrets that come into the table later change nothing.
LEMMA FrontKeeps ==
  ASSUME NEW body \in Seq(Token), NEW fs, IsFindings(body, fs), NEW m, NEW w,
         NEW n \in 0 .. Len(fs), \A j \in 1 .. n : Bound(m, body, fs[j]),
         \A s \in DOMAIN m.forward : w.forward[s] = m.forward[s]
  PROVE  /\ RedactedFront(body, fs, w, EndOf(fs, n)) = RedactedFront(body, fs, m, EndOf(fs, n))
         /\ n = Len(fs) => Redacted(body, fs, w) = Redacted(body, fs, m)
  <1>0. Len(fs) \in Nat /\ Len(body) \in Nat
    BY LenProperties DEF IsFindings
  <1>1. ASSUME NEW i \in Nat, 0 < i, i <= GapEnd(body, fs, n)
        PROVE  RedactedPiece(body, fs, w, i) = RedactedPiece(body, fs, m, i)
    <2>1. CASE ~ Covered(fs, i)
      BY <2>1, PieceValue
    <2>2. CASE Covered(fs, i)
      <3>1. PICK j \in 1 .. Len(fs) : fs[j].start < i /\ i <= fs[j].end
        BY <2>2 DEF Covered
      <3>2. fs[j].start \in Nat /\ fs[j].end \in Nat
        BY FindingBounds
      <3>3. j <= n
        <4>1. ASSUME n < j PROVE FALSE
          <5>1. GapEnd(body, fs, n) <= fs[j].start /\ GapEnd(body, fs, n) \in Nat
            BY <4>1, Later, Milestones
          <5>2. QED
            BY <1>1, <3>1, <3>2, <5>1
        <4>2. QED
          BY <1>0, <4>1
      <3>4. w.forward[<<fs[j].kind, TextOf(body, fs[j])>>]
              = m.forward[<<fs[j].kind, TextOf(body, fs[j])>>]
        BY <1>0, <3>3 DEF Bound
      <3>5. i = fs[j].start + 1 \/ fs[j].start + 1 < i
        BY <3>1, <3>2
      <3>6. i = fs[j].start + 1 =>
              /\ RedactedPiece(body, fs, w, i) = <<w.forward[<<fs[j].kind, TextOf(body, fs[j])>>]>>
              /\ RedactedPiece(body, fs, m, i) = <<m.forward[<<fs[j].kind, TextOf(body, fs[j])>>]>>
        BY PieceValue
      <3>7. fs[j].start + 1 < i =>
              RedactedPiece(body, fs, w, i) = << >> /\ RedactedPiece(body, fs, m, i) = << >>
        BY <3>1, PieceValue
      <3>8. QED
        BY <3>4, <3>5, <3>6, <3>7
    <2>3. QED
      BY <2>1, <2>2
  <1>2. ASSUME NEW last \in Nat, last <= GapEnd(body, fs, n)
        PROVE  RedactedFront(body, fs, w, last) = RedactedFront(body, fs, m, last)
    <2>1. GapEnd(body, fs, n) \in Nat
      BY Milestones
    <2>2. \A i \in 1 .. last : RedactedPiece(body, fs, w, i) = RedactedPiece(body, fs, m, i)
      BY <1>1, <1>2, <2>1
    <2>3. [i \in 1 .. last |-> RedactedPiece(body, fs, w, i)]
            = [i \in 1 .. last |-> RedactedPiece(body, fs, m, i)]
      BY <2>2
    <2>4. QED
      BY <2>3, Zenon DEF RedactedFront
  <1>3. EndOf(fs, n) \in Nat /\ EndOf(fs, n) <= GapEnd(body, fs, n)
    BY Milestones
  <1>4. n = Len(fs) => Len(body) <= GapEnd(body, fs, n)
    BY <1>0 DEF GapEnd
  <1>5. QED
    BY <1>0, <1>2, <1>3, <1>4 DEF Redacted

LEMMA FrontNone == \A body, fs, m : RedactedFront(body, fs, m, 0) = << >>
  <1>1. ASSUME NEW body, NEW fs, NEW m
        PROVE  RedactedFront(body, fs, m, 0) = << >>
    <2>1. ASSUME NEW P, P = [i \in 1 .. 0 |-> RedactedPiece(body, fs, m, i)]
          PROVE  RedactedFront(body, fs, m, 0) = << >>
      <3>1. [i \in 1 .. 0 |-> RedactedPiece(body, fs, m, i)] = [i \in 1 .. 0 |-> P[i]]
        BY <2>1
      <3>2. RedactedFront(body, fs, m, 0) = Upto(P, 0)
        BY <3>1, Zenon DEF RedactedFront, Upto
      <3>3. QED
        BY <3>2, UptoNone
    <2>2. QED
      BY <2>1
  <1>2. QED
    BY <1>1

\* A body without findings is redacted to itself.
LEMMA RedactedNothing ==
  ASSUME NEW body \in Seq(Token), NEW m, IsMap(m)
  PROVE  IsFindings(body, << >>) /\ Redacted(body, << >>, m) = body
  <1>0. ASSUME NEW fs, fs = << >>
        PROVE  IsFindings(body, fs) /\ Redacted(body, fs, m) = body
    <2>1. fs \in Seq(Finding) /\ Len(fs) = 0 /\ 0 \in 0 .. Len(fs)
      BY <1>0
    <2>2. IsFindings(body, fs)
      BY <2>1 DEF IsFindings
    <2>3. \A j \in 1 .. 0 : Bound(m, body, fs[j])
      OBVIOUS
    <2>4. EndOf(fs, 0) = 0 /\ GapEnd(body, fs, 0) = Len(body)
      BY <2>1 DEF EndOf, GapEnd
    <2>5. RedactedFront(body, fs, m, Len(body))
            = RedactedFront(body, fs, m, 0) \o SubSeq(body, 0 + 1, Len(body))
      BY <2>1, <2>2, <2>3, <2>4, FrontGap
    <2>6. SubSeq(body, 0 + 1, Len(body)) = body
      <3>1. 0 + 1 = 1
        OBVIOUS
      <3>2. QED
        BY <3>1, SubSeqFull
    <2>7. << >> \o body = body
      BY ConcatEmptySeq
    <2>8. Redacted(body, fs, m) = body
      BY <2>5, <2>6, <2>7, FrontNone DEF Redacted
    <2>9. QED
      BY <2>2, <2>8
  <1>1. QED
    BY <1>0

(***************************************************************************)
(* The way back.                                                           *)
(***************************************************************************)

\* What each token of a text is replaced by.
Originals(text, m) ==
  [i \in 1 .. Len(text) |->
     IF text[i] \in Minted(m) THEN m.reverse[text[i]] ELSE <<text[i]>>]

LEMMA OriginalsType ==
  ASSUME NEW m, IsMap(m), NEW text \in Seq(Token)
  PROVE  /\ Len(text) \in Nat
         /\ \A i \in 1 .. Len(text) :
              /\ Originals(text, m)[i] \in Seq(Token)
              /\ text[i] \notin Minted(m) => Originals(text, m)[i] = <<text[i]>>
              /\ text[i] \in Minted(m) => Originals(text, m)[i] = m.reverse[text[i]]
         /\ Reversed(text, m) = Upto(Originals(text, m), Len(text))
         /\ Reversed(text, m) \in Seq(Token)
  <1>1. ASSUME NEW P, P = Originals(text, m), NEW n, n = Len(text)
        PROVE  /\ n \in Nat
               /\ \A i \in 1 .. n :
                    /\ P[i] \in Seq(Token)
                    /\ text[i] \notin Minted(m) => P[i] = <<text[i]>>
                    /\ text[i] \in Minted(m) => P[i] = m.reverse[text[i]]
               /\ Reversed(text, m) = Upto(P, n)
               /\ Reversed(text, m) \in Seq(Token)
    <2>1. n \in Nat /\ \A i \in 1 .. n : text[i] \in Token
      BY <1>1, LenProperties, ElementOfSeq
    <2>2. \A i \in 1 .. n :
            /\ text[i] \notin Minted(m) => P[i] = <<text[i]>>
            /\ text[i] \in Minted(m) => P[i] = m.reverse[text[i]]
      BY <1>1 DEF Originals
    <2>3. \A p \in Minted(m) : m.reverse[p] \in Seq(Token)
      BY TextAssumption DEF IsMap, Minted
    <2>4. ASSUME NEW i \in 1 .. n PROVE P[i] \in Seq(Token)
      <3>1. CASE text[i] \in Minted(m)
        BY <2>2, <2>3, <3>1
      <3>2. CASE text[i] \notin Minted(m)
        <4>1. <<text[i]>> \in Seq(Token)
          BY <2>1
        <4>2. QED
          BY <2>2, <3>2, <4>1
      <3>3. QED
        BY <3>1, <3>2
    <2>5. [i \in 1 .. n |-> P[i]] = P
      BY <1>1 DEF Originals
    <2>6. Reversed(text, m) = FlattenSeq(P)
      BY ONLY <1>1, Zenon DEF Reversed, Originals
    <2>7. Reversed(text, m) = Upto(P, n)
      BY ONLY <2>5, <2>6, Zenon DEF Upto
    <2>8. Upto(P, n) \in Seq(Token)
      BY <2>1, <2>4, FrontIsSequence
    <2>9. QED
      BY <2>1, <2>2, <2>4, <2>7, <2>8
  <1>2. QED
    BY <1>1

\* A text is reversed part by part.
LEMMA ReversedConcat ==
  ASSUME NEW m, IsMap(m), NEW s \in Seq(Token), NEW t \in Seq(Token)
  PROVE  Reversed(s \o t, m) = Reversed(s, m) \o Reversed(t, m)
  <1>1. ASSUME NEW st, st = s \o t, NEW a, a = Len(s), NEW n, n = Len(t),
               NEW P, P = Originals(st, m), NEW Q, Q = Originals(s, m),
               NEW R, R = Originals(t, m)
        PROVE  Reversed(st, m) = Reversed(s, m) \o Reversed(t, m)
    <2>1. /\ st \in Seq(Token) /\ Len(st) = a + n /\ a \in Nat /\ n \in Nat
          /\ \A i \in 1 .. a : st[i] = s[i]
          /\ \A i \in 1 .. n : st[a + i] = t[i]
      <3>1. /\ st \in Seq(Token) /\ Len(st) = a + n
            /\ \A i \in 1 .. a + n : st[i] = IF i <= a THEN s[i] ELSE t[i - a]
        BY <1>1, ConcatProperties
      <3>2. a \in Nat /\ n \in Nat
        BY <1>1, LenProperties
      <3>3. \A i \in 1 .. a : i \in 1 .. a + n /\ i <= a
        BY <3>2
      <3>4. \A i \in 1 .. n : a + i \in 1 .. a + n /\ ~ (a + i <= a) /\ (a + i) - a = i
        BY <3>2
      <3>5. \A i \in 1 .. n : st[a + i] = t[i]
        BY ONLY <3>1, <3>4
      <3>6. \A i \in 1 .. a : st[i] = s[i]
        BY ONLY <3>1, <3>3
      <3>7. QED
        BY <3>1, <3>2, <3>5, <3>6
    <2>2. /\ \A i \in 1 .. a + n : P[i] \in Seq(Token)
          /\ Reversed(st, m) = Upto(P, a + n)
      BY <1>1, <2>1, OriginalsType
    <2>3. Reversed(s, m) = Upto(Q, a) /\ Reversed(t, m) = Upto(R, n)
      BY <1>1, OriginalsType
    <2>4. \A i \in 1 .. a : P[i] = Q[i]
      <3>1. \A i \in 1 .. a :
              P[i] = IF st[i] \in Minted(m) THEN m.reverse[st[i]] ELSE <<st[i]>>
        BY <1>1, <2>1 DEF Originals
      <3>2. \A i \in 1 .. a :
              Q[i] = IF s[i] \in Minted(m) THEN m.reverse[s[i]] ELSE <<s[i]>>
        BY <1>1 DEF Originals
      <3>3. QED
        BY ONLY <2>1, <3>1, <3>2
    <2>5. Follows(R, P, a, n)
      <3>1. \A i \in 1 .. n :
              P[a + i] = IF st[a + i] \in Minted(m) THEN m.reverse[st[a + i]]
                                                    ELSE <<st[a + i]>>
        <4>1. \A i \in 1 .. n : a + i \in 1 .. Len(st)
          BY <2>1
        <4>2. QED
          BY <1>1, <4>1 DEF Originals
      <3>2. \A i \in 1 .. n :
              R[i] = IF t[i] \in Minted(m) THEN m.reverse[t[i]] ELSE <<t[i]>>
        BY <1>1 DEF Originals
      <3>3. QED
        BY ONLY <2>1, <3>1, <3>2 DEF Follows
    <2>6. Upto(P, a + n) = Upto(P, a) \o Upto(R, n)
      <3>1. a \in Nat /\ n \in Nat
        BY <2>1
      <3>2. \A i \in 1 .. a + n : P[i] \in Seq(Token)
        BY <2>2
      <3>3. QED
        BY ONLY <3>1, <3>2, <2>5, UptoJoins
    <2>7. Upto(P, a) = Upto(Q, a)
      BY <2>4, UptoSame
    <2>8. QED
      BY ONLY <2>2, <2>3, <2>6, <2>7, Zenon
  <1>2. QED
    BY <1>1

\* A text without placeholders of the table comes back as it is.
LEMMA ReversedPlain ==
  ASSUME NEW m, IsMap(m), NEW t \in Seq(Token),
         \A i \in 1 .. Len(t) : t[i] \notin Minted(m)
  PROVE  Reversed(t, m) = t
  <1>1. ASSUME NEW P, P = Originals(t, m), NEW n, n = Len(t)
        PROVE  Reversed(t, m) = t
    <2>1. /\ n \in Nat /\ \A i \in 1 .. n : P[i] \in Seq(Token) /\ P[i] = <<t[i]>>
          /\ Reversed(t, m) = Upto(P, n)
      BY <1>1, OriginalsType
    <2>2. ASSUME NEW z, z = 0
          PROVE  Upto(P, n) = Upto(P, z) \o SubSeq(t, z + 1, n)
      <3>1. /\ t \in Seq(Token) /\ n \in Nat /\ z \in Nat /\ z <= n /\ n <= Len(t)
            /\ \A i \in 1 .. n : P[i] \in Seq(Token)
            /\ \A i \in z + 1 .. n : P[i] = <<t[i]>>
        BY <1>1, <2>1, <2>2
      <3>2. QED
        BY ONLY <3>1, UptoCopies
    <2>3. SubSeq(t, 0 + 1, n) = t
      <3>1. 0 + 1 = 1
        OBVIOUS
      <3>2. QED
        BY <1>1, <3>1, SubSeqFull
    <2>4. << >> \o t = t
      BY ConcatEmptySeq
    <2>5. QED
      BY ONLY <2>1, <2>2, <2>3, <2>4, UptoNone, Zenon
  <1>2. QED
    BY <1>1

\* A placeholder of the table comes back as its secret.
LEMMA ReversedMark ==
  ASSUME NEW m, IsMap(m), NEW p \in Minted(m)
  PROVE  Reversed(<<p>>, m) = m.reverse[p] /\ m.reverse[p] \in Seq(Token)
  <1>1. ASSUME NEW t, t = <<p>>, NEW P, P = Originals(t, m)
        PROVE  Reversed(t, m) = m.reverse[p]
    <2>1. t \in Seq(Token) /\ Len(t) = 1 /\ t[1] = p
      BY <1>1 DEF IsMap, Minted, Token
    <2>2. /\ \A i \in 1 .. 0 + 1 : P[i] \in Seq(Token)
          /\ P[0 + 1] = m.reverse[p]
          /\ Reversed(t, m) = Upto(P, 0 + 1)
      <3>1. /\ \A i \in 1 .. Len(t) :
                 P[i] \in Seq(Token) /\ (t[i] \in Minted(m) => P[i] = m.reverse[t[i]])
            /\ Reversed(t, m) = Upto(P, Len(t))
        BY <1>1, <2>1, OriginalsType
      <3>2. 0 + 1 = Len(t) /\ 0 + 1 = 1 /\ 1 \in 1 .. Len(t)
        BY <2>1
      <3>3. P[1] = m.reverse[p]
        BY <2>1, <3>1, <3>2
      <3>4. QED
        BY ONLY <3>1, <3>2, <3>3
    <2>3. Upto(P, 0 + 1) = Upto(P, 0) \o P[0 + 1]
      BY <2>2, UptoStep
    <2>4. << >> \o m.reverse[p] = m.reverse[p]
      <3>1. m.reverse[p] \in Seq(Token)
        BY TextAssumption DEF IsMap, Minted
      <3>2. QED
        BY <3>1, ConcatEmptySeq
    <2>5. QED
      BY ONLY <2>2, <2>3, <2>4, UptoNone, Zenon
  <1>2. QED
    BY <1>1, TextAssumption DEF IsMap, Minted

LEMMA Joined ==
  ASSUME NEW body \in Seq(Token), NEW a \in Nat, NEW b \in Nat, a <= b, b <= Len(body)
  PROVE  SubSeq(body, 1, a) \o SubSeq(body, a + 1, b) = SubSeq(body, 1, b)
  <1>1. Len(body) \in Nat
    BY LenProperties
  <1>2. 1 \in 1 .. Len(body) + 1 /\ a \in 1 - 1 .. Len(body) /\ b \in a .. Len(body)
    BY <1>1
  <1>3. QED
    BY <1>2, ConcatAdjacentSubSeq

GapOf(body, fs, n) == SubSeq(body, EndOf(fs, n) + 1, GapEnd(body, fs, n))

\* The copied gaps survive the way back, unless they quote a placeholder.
LEMMA GapComesBack ==
  ASSUME NEW body \in Seq(Token), NEW fs, IsFindings(body, fs), NEW m, IsMap(m),
         ~ QuotesPlaceholder(body, fs, m), NEW n \in 0 .. Len(fs)
  PROVE  GapOf(body, fs, n) \in Seq(Token) /\ Reversed(GapOf(body, fs, n), m) = GapOf(body, fs, n)
  <1>1. ASSUME NEW a, a = EndOf(fs, n), NEW b, b = GapEnd(body, fs, n),
               NEW gap, gap = GapOf(body, fs, n)
        PROVE  gap \in Seq(Token) /\ Reversed(gap, m) = gap
    <2>1. a \in Nat /\ b \in Nat /\ a <= b /\ b <= Len(body) /\ Len(body) \in Nat
      BY <1>1, Milestones, LenProperties
    <2>2. /\ a + 1 \in Int /\ b \in Int
          /\ \A i \in a + 1 .. b : body[i] \in Token \ Minted(m)
      <3>1. ASSUME NEW i \in a + 1 .. b PROVE body[i] \in Token \ Minted(m)
        <4>1. i \in Nat /\ i \in 1 .. Len(body) /\ a < i /\ i <= b
          BY <2>1
        <4>2. ~ Covered(fs, i)
          BY <1>1, <4>1, GapIsPlain
        <4>3. body[i] \in Token
          BY <4>1, ElementOfSeq
        <4>4. QED
          BY <4>1, <4>2, <4>3 DEF QuotesPlaceholder
      <3>2. QED
        BY <2>1, <3>1
    <2>3. SubSeq(body, a + 1, b) \in Seq(Token \ Minted(m))
      BY <2>2, SubSeqProperties
    <2>4. gap \in Seq(Token \ Minted(m))
      BY ONLY <1>1, <2>3, Zenon DEF GapOf
    <2>5. \A i \in 1 .. Len(gap) : gap[i] \notin Minted(m)
      BY <2>4, ElementOfSeq
    <2>6. gap \in Seq(Token)
      BY <2>4, SeqMonotonic
    <2>7. QED
      BY <2>5, <2>6, ReversedPlain
  <1>2. QED
    BY <1>1

\* Up to the end of each finding the way back restores the body.
CameBack(body, fs, m, n) ==
  Reversed(RedactedFront(body, fs, m, EndOf(fs, n)), m) = SubSeq(body, 1, EndOf(fs, n))

LEMMA NextComesBack ==
  ASSUME NEW body \in Seq(Token), NEW fs, IsFindings(body, fs), NEW m, IsMap(m), Consistent(m),
         ~ QuotesPlaceholder(body, fs, m),
         NEW n \in Nat, n + 1 <= Len(fs),
         \A j \in 1 .. Len(fs) : Bound(m, body, fs[j]), CameBack(body, fs, m, n)
  PROVE  CameBack(body, fs, m, n + 1)
  <1>1. ASSUME NEW f, f = fs[n + 1], NEW a, a = EndOf(fs, n),
               NEW gap, gap = SubSeq(body, a + 1, f.start),
               NEW mark, mark = m.forward[<<f.kind, TextOf(body, f)>>],
               NEW x, x = RedactedFront(body, fs, m, a),
               NEW y, y = RedactedFront(body, fs, m, f.start),
               NEW z, z = RedactedFront(body, fs, m, f.end)
        PROVE  CameBack(body, fs, m, n + 1)
    <2>0. /\ Len(fs) \in Nat /\ n \in 0 .. Len(fs) /\ n # Len(fs) /\ n + 1 # 0
          /\ n + 1 \in 1 .. Len(fs) /\ n + 1 \in 0 .. Len(fs) /\ Len(body) \in Nat
      BY LenProperties DEF IsFindings
    <2>1. /\ f.start \in Nat /\ f.end \in Nat /\ f.start < f.end /\ f.end <= Len(body)
          /\ TextOf(body, f) \in Text
      BY <1>1, <2>0, FindingBounds
    <2>2. GapEnd(body, fs, n) = f.start /\ EndOf(fs, n + 1) = f.end
      BY <1>1, <2>0 DEF GapEnd, EndOf
    <2>3. a \in Nat /\ a <= f.start
      BY <1>1, <2>0, <2>2, Milestones
    <2>4. y = x \o gap /\ y \in Seq(Token) /\ x \in Seq(Token)
      <3>1. \A j \in 1 .. n : Bound(m, body, fs[j])
        BY <2>0
      <3>2. /\ RedactedFront(body, fs, m, GapEnd(body, fs, n))
                 = RedactedFront(body, fs, m, EndOf(fs, n))
                     \o SubSeq(body, EndOf(fs, n) + 1, GapEnd(body, fs, n))
            /\ RedactedFront(body, fs, m, GapEnd(body, fs, n)) \in Seq(Token)
            /\ RedactedFront(body, fs, m, EndOf(fs, n)) \in Seq(Token)
        BY <2>0, <3>1, FrontGap
      <3>3. QED
        BY ONLY <1>1, <2>2, <3>2, Zenon
    <2>5. z = y \o <<mark>>
      <3>1. \A j \in 1 .. n + 1 : Bound(m, body, fs[j])
        BY <2>0
      <3>2. RedactedFront(body, fs, m, fs[n + 1].end)
              = RedactedFront(body, fs, m, fs[n + 1].start)
                  \o <<m.forward[<<fs[n + 1].kind, TextOf(body, fs[n + 1])>>]>>
        BY <2>0, <3>1, FrontFinding
      <3>3. QED
        BY ONLY <1>1, <3>2, Zenon
    <2>6. gap \in Seq(Token) /\ Reversed(gap, m) = gap
      <3>1. gap = GapOf(body, fs, n)
        BY ONLY <1>1, <2>2, Zenon DEF GapOf
      <3>2. /\ GapOf(body, fs, n) \in Seq(Token)
            /\ Reversed(GapOf(body, fs, n), m) = GapOf(body, fs, n)
        BY <2>0, GapComesBack
      <3>3. QED
        BY ONLY <3>1, <3>2, Zenon
    <2>7. mark \in Minted(m) /\ m.reverse[mark] = TextOf(body, f)
      <3>1. <<f.kind, TextOf(body, f)>> \in DOMAIN m.forward
        BY <1>1, <2>0 DEF Bound
      <3>2. QED
        BY <1>1, <3>1 DEF Consistent, Invertible, Minted
    <2>8. Reversed(y, m) = SubSeq(body, 1, a) \o gap
      <3>1. Reversed(x \o gap, m) = Reversed(x, m) \o Reversed(gap, m)
        BY <2>4, <2>6, ReversedConcat
      <3>2. Reversed(x, m) = SubSeq(body, 1, a)
        BY <1>1 DEF CameBack
      <3>3. QED
        BY ONLY <2>4, <2>6, <3>1, <3>2, Zenon
    <2>9. Reversed(y, m) = SubSeq(body, 1, f.start)
      <3>1. SubSeq(body, 1, a) \o SubSeq(body, a + 1, f.start) = SubSeq(body, 1, f.start)
        <4>1. f.start <= Len(body)
          BY <2>0, <2>1
        <4>2. QED
          BY <2>1, <2>3, <4>1, Joined
      <3>2. QED
        BY ONLY <1>1, <2>8, <3>1, Zenon
    <2>10. Reversed(z, m) = Reversed(y, m) \o TextOf(body, f)
      <3>1. <<mark>> \in Seq(Token)
        BY <2>7 DEF IsMap, Minted, Token
      <3>2. Reversed(y \o <<mark>>, m) = Reversed(y, m) \o Reversed(<<mark>>, m)
        BY <2>4, <3>1, ReversedConcat
      <3>3. Reversed(<<mark>>, m) = m.reverse[mark]
        BY <2>7, ReversedMark
      <3>4. QED
        BY ONLY <2>5, <2>7, <3>2, <3>3, Zenon
    <2>11. Reversed(z, m) = SubSeq(body, 1, f.end)
      <3>1. SubSeq(body, 1, f.start) \o SubSeq(body, f.start + 1, f.end) = SubSeq(body, 1, f.end)
        <4>1. f.start <= f.end
          BY <2>1
        <4>2. QED
          BY <2>1, <4>1, Joined
      <3>2. QED
        BY ONLY <2>9, <2>10, <3>1, Zenon DEF TextOf
    <2>12. QED
      BY ONLY <1>1, <2>2, <2>11, Zenon DEF CameBack
  <1>2. QED
    BY <1>1

\* The round trip, for one call: a body, its findings, and a table that holds
\* at least their secrets.
THEOREM ReverseUndoesRedact ==
  ASSUME NEW body \in Seq(Token), NEW fs, IsFindings(body, fs), NEW m, IsMap(m), Consistent(m),
         \A j \in 1 .. Len(fs) : Bound(m, body, fs[j]),
         ~ QuotesPlaceholder(body, fs, m)
  PROVE  Reversed(Redacted(body, fs, m), m) = body
  <1> DEFINE T == {n \in Nat : n <= Len(fs) => CameBack(body, fs, m, n)}
  <1>0. Len(fs) \in Nat /\ Len(body) \in Nat
    BY LenProperties DEF IsFindings
  <1>1. 0 \in T
    <2>1. EndOf(fs, 0) = 0 /\ RedactedFront(body, fs, m, 0) = << >>
      BY FrontNone DEF EndOf
    <2>2. << >> \in Seq(Token) /\ \A i \in 1 .. Len(<< >>) : << >>[i] \notin Minted(m)
      OBVIOUS
    <2>3. Reversed(<< >>, m) = << >>
      BY <2>2, ReversedPlain
    <2>4. SubSeq(body, 1, 0) = << >>
      BY SubSeqEmpty
    <2>5. CameBack(body, fs, m, 0)
      BY ONLY <2>1, <2>3, <2>4, Zenon DEF CameBack
    <2>6. QED
      BY <2>5
  <1>2. ASSUME NEW n \in Nat, n \in T PROVE n + 1 \in T
    <2>1. n + 1 <= Len(fs) => CameBack(body, fs, m, n)
      BY <1>0, <1>2
    <2>2. n + 1 <= Len(fs) => CameBack(body, fs, m, n + 1)
      BY <2>1, NextComesBack
    <2>3. QED
      BY <2>2
  <1> HIDE DEF T
  <1>3. Nat \subseteq T
    BY <1>1, <1>2, Induction
  <1>4. CameBack(body, fs, m, Len(fs))
    BY <1>0, <1>3 DEF T
  <1>5. ASSUME NEW a, a = EndOf(fs, Len(fs)), NEW x, x = RedactedFront(body, fs, m, a),
               NEW rest, rest = SubSeq(body, a + 1, Len(body))
        PROVE  Reversed(Redacted(body, fs, m), m) = body
    <2>1. Len(fs) \in 0 .. Len(fs) /\ GapEnd(body, fs, Len(fs)) = Len(body)
      BY <1>0 DEF GapEnd
    <2>2. a \in Nat /\ a <= Len(body)
      BY <1>5, <2>1, Milestones
    <2>3. Redacted(body, fs, m) = x \o rest /\ x \in Seq(Token)
      <3>1. /\ RedactedFront(body, fs, m, GapEnd(body, fs, Len(fs)))
                 = RedactedFront(body, fs, m, EndOf(fs, Len(fs)))
                     \o SubSeq(body, EndOf(fs, Len(fs)) + 1, GapEnd(body, fs, Len(fs)))
            /\ RedactedFront(body, fs, m, EndOf(fs, Len(fs))) \in Seq(Token)
        BY <2>1, FrontGap
      <3>2. QED
        BY ONLY <1>5, <2>1, <3>1, Zenon DEF Redacted
    <2>4. rest \in Seq(Token) /\ Reversed(rest, m) = rest
      <3>1. rest = GapOf(body, fs, Len(fs))
        BY ONLY <1>5, <2>1, Zenon DEF GapOf
      <3>2. /\ GapOf(body, fs, Len(fs)) \in Seq(Token)
            /\ Reversed(GapOf(body, fs, Len(fs)), m) = GapOf(body, fs, Len(fs))
        BY <2>1, GapComesBack
      <3>3. QED
        BY ONLY <3>1, <3>2, Zenon
    <2>5. Reversed(x \o rest, m) = Reversed(x, m) \o Reversed(rest, m)
      BY <2>3, <2>4, ReversedConcat
    <2>6. Reversed(x, m) = SubSeq(body, 1, a)
      BY ONLY <1>4, <1>5, Zenon DEF CameBack
    <2>7. SubSeq(body, 1, a) \o SubSeq(body, a + 1, Len(body)) = SubSeq(body, 1, Len(body))
      <3>1. Len(body) <= Len(body)
        BY <1>0
      <3>2. QED
        BY <1>0, <2>2, <3>1, Joined
    <2>8. SubSeq(body, 1, Len(body)) = body
      BY SubSeqFull
    <2>9. QED
      BY ONLY <1>5, <2>3, <2>4, <2>5, <2>6, <2>7, <2>8, Zenon
  <1>6. QED
    BY <1>5

(***************************************************************************)
(* The loop.                                                               *)
(***************************************************************************)

\* Between two iterations: everything up to the cursor, which stands at the
\* end of the last finding handled, has been redacted as the reference has
\* it, and the table holds the secrets handled so far.
LoopOnTrack ==
  pc = "substituting" =>
    /\ IsFindings(input, findings)
    /\ next <= Len(findings) + 1
    /\ cursor = EndOf(findings, next - 1)
    /\ \A n \in 1 .. next - 1 : Bound(map, input, findings[n])
    /\ out = RedactedFront(input, findings, map, cursor)

\* A finished call: its secrets are in the table m, and its result is what
\* the reference makes of them with m.
IsRight(d, m) ==
  /\ d[1] \in Seq(Token)
  /\ IsFindings(d[1], d[2])
  /\ \A n \in 1 .. Len(d[2]) : Bound(m, d[1], d[2][n])
  /\ d[3] = Redacted(d[1], d[2], m)

DoneRight == \A d \in done : IsRight(d, map)

\* The inductive invariant.  LoopMatchesReference alone is not inductive: it
\* says nothing in the middle of a body, nor why a later secret cannot
\* disturb the result of an earlier call.
IInv == TypeOK /\ MapConsistent /\ LoopOnTrack /\ DoneRight

LEMMA InitIInv == Init => IInv
  <1> SUFFICES ASSUME Init PROVE IInv
    OBVIOUS
  <1>1. IsMap(map) /\ MapConsistent
    BY EmptyMapOK DEF Init, MapConsistent
  <1>2. QED
    BY <1>1 DEF Init, IInv, TypeOK, LoopOnTrack, DoneRight

\* Adding a finished call to the history keeps its type.
LEMMA HistoryGrows ==
  ASSUME NEW S, NEW T, NEW H, H \subseteq S \X T \X S,
         NEW x \in S, NEW fs \in T, NEW y \in S
  PROVE  H \cup {<<x, fs, y>>} \subseteq S \X T \X S
  OBVIOUS

\* placeholder_for leaves a finished call right.
LEMMA StaysRight ==
  ASSUME NEW m, NEW k, NEW t, NEW d, IsRight(d, m)
  PROVE  IsRight(d, AfterPlaceholderFor(m, k, t))
  <1>1. ASSUME NEW w, w = AfterPlaceholderFor(m, k, t) PROVE IsRight(d, w)
    <2>1. /\ DOMAIN m.forward \subseteq DOMAIN w.forward
          /\ \A s \in DOMAIN m.forward : w.forward[s] = m.forward[s]
      BY <1>1 DEF AfterPlaceholderFor, Insert, Knows
    <2>2. \A n \in 1 .. Len(d[2]) : Bound(m, d[1], d[2][n]) /\ Bound(w, d[1], d[2][n])
      BY <2>1 DEF IsRight, Bound
    <2>3. Len(d[2]) \in 0 .. Len(d[2])
      <3>1. Len(d[2]) \in Nat
        BY LenProperties DEF IsRight, IsFindings
      <3>2. QED
        BY <3>1
    <2>4. Redacted(d[1], d[2], w) = Redacted(d[1], d[2], m)
      <3>1. d[1] \in Seq(Token) /\ IsFindings(d[1], d[2])
        BY DEF IsRight
      <3>2. QED
        BY <2>1, <2>2, <2>3, <3>1, FrontKeeps
    <2>5. QED
      BY <2>2, <2>4 DEF IsRight
  <1>2. QED
    BY <1>1

LEMMA StepRedactNothing == IInv /\ RedactNothing => IInv'
  <1> SUFFICES ASSUME IInv, RedactNothing PROVE IInv'
    OBVIOUS
  <1>1. PICK body \in Body : done' = done \cup {<<body, << >>, body>>}
    BY DEF RedactNothing
  <1>2. body \in Seq(Token) /\ << >> \in Seq(Finding)
    BY BodyAssumption
  <1>3. done' \subseteq Seq(Token) \X Seq(Finding) \X Seq(Token)
    <2>1. done \subseteq Seq(Token) \X Seq(Finding) \X Seq(Token)
      BY DEF IInv, TypeOK
    <2>2. QED
      BY <1>1, <1>2, <2>1, HistoryGrows
  <1>4. map' = map /\ IsMap(map)
    BY DEF RedactNothing, IInv, TypeOK
  <1>5. IsRight(<<body, << >>, body>>, map)
    BY <1>2, <1>4, RedactedNothing DEF IsRight
  <1>6. DoneRight'
    BY <1>1, <1>4, <1>5 DEF IInv, DoneRight
  <1>7. QED
    BY <1>3, <1>6 DEF IInv, TypeOK, MapConsistent, LoopOnTrack, RedactNothing

LEMMA StepRedactStart == IInv /\ RedactStart => IInv'
  <1> SUFFICES ASSUME IInv, RedactStart PROVE IInv'
    OBVIOUS
  <1>0. PICK body \in Body :
          \E fs \in BoundedSeq(FindingsFor(body), Len(body)) :
            IsAscending(fs) /\ input' = body /\ findings' = fs
    BY DEF RedactStart
  <1>1. PICK fs \in BoundedSeq(FindingsFor(body), Len(body)) :
          IsAscending(fs) /\ input' = body /\ findings' = fs
    BY <1>0
  <1>2. body \in Seq(Token) /\ Len(body) \in Nat
    BY BodyAssumption
  <1>3. fs \in Seq(FindingsFor(body))
    BY <1>2 DEF BoundedSeq, SeqOf
  <1>4. FindingsFor(body) \subseteq Finding
    BY <1>2 DEF FindingsFor, Finding
  <1>5. findings' \in Seq(Finding)
    BY <1>1, <1>3, <1>4, SeqMonotonic
  <1>6. IsFindings(input', findings')
    <2>1. \A i \in 1 .. Len(fs) : fs[i] \in FindingsFor(body)
      BY <1>3, ElementOfSeq
    <2>2. QED
      BY <1>1, <1>2, <1>5, <2>1, Ascending
  <1>7. TypeOK'
    BY <1>1, <1>2, <1>5 DEF RedactStart, IInv, TypeOK
  <1>8. LoopOnTrack'
    <2>1. next' = 1 /\ cursor' = 0 /\ out' = << >> /\ Len(findings') \in Nat
      BY <1>5, LenProperties DEF RedactStart
    <2>2. cursor' = EndOf(findings', next' - 1)
      BY <2>1 DEF EndOf
    <2>3. out' = RedactedFront(input', findings', map', cursor')
      BY <2>1, FrontNone
    <2>4. next' <= Len(findings') + 1 /\ 1 .. next' - 1 = {}
      BY <2>1
    <2>5. QED
      BY <1>6, <2>2, <2>3, <2>4 DEF LoopOnTrack
  <1>9. MapConsistent' /\ DoneRight'
    BY DEF RedactStart, IInv, MapConsistent, DoneRight
  <1>10. QED
    BY <1>7, <1>8, <1>9 DEF IInv

LEMMA StepSubstituteFinding == IInv /\ SubstituteFinding => IInv'
  <1> SUFFICES ASSUME IInv, SubstituteFinding PROVE IInv'
    OBVIOUS
  <1> DEFINE f == findings[next]
             text == TextOf(input, f)
  <1>0. /\ pc = "substituting" /\ next \in Nat \ {0} /\ next <= Len(findings)
        /\ input \in Seq(Token) /\ IsFindings(input, findings) /\ Len(findings) \in Nat
        /\ next \in 1 .. Len(findings) /\ next - 1 \in 0 .. Len(findings)
    BY LenProperties DEF IInv, TypeOK, LoopOnTrack, SubstituteFinding
  <1>2. /\ f.kind \in Kind /\ text \in Text
        /\ f.start \in Nat /\ f.end \in Nat /\ f.start < f.end /\ f.end <= Len(input)
    BY <1>0, FindingBounds
  <1>3. /\ out' = out \o Gap(input, cursor, f) \o <<PlaceholderFor(map, f.kind, text)>>
        /\ map' = AfterPlaceholderFor(map, f.kind, text)
        /\ cursor' = f.end /\ next' = next + 1
        /\ UNCHANGED <<pc, input, findings, done>>
    BY DEF SubstituteFinding
  <1>4. IsMap(map) /\ Consistent(map)
    BY DEF IInv, TypeOK, MapConsistent
  <1>5. IsMap(map') /\ Consistent(map')
    BY <1>2, <1>3, <1>4, AfterPlaceholderForIsMap, AfterPlaceholderForConsistent
  <1>6. /\ DOMAIN map'.forward = DOMAIN map.forward \cup {<<f.kind, text>>}
        /\ map'.forward[<<f.kind, text>>] = PlaceholderFor(map, f.kind, text)
        /\ \A s \in DOMAIN map.forward : map'.forward[s] = map.forward[s]
    BY <1>3, AfterPlaceholderForForward
  <1>7. /\ \A n \in 1 .. next - 1 : Bound(map, input, findings[n])
        /\ \A n \in 1 .. next : Bound(map', input, findings[n])
    <2>1. \A n \in 1 .. next - 1 : Bound(map, input, findings[n])
      BY <1>0 DEF IInv, LoopOnTrack
    <2>2. \A n \in 1 .. next : n = next \/ n \in 1 .. next - 1
      BY <1>0
    <2>3. Bound(map', input, findings[next])
      BY <1>6 DEF Bound
    <2>4. \A n \in 1 .. next - 1 : Bound(map', input, findings[n])
      BY <2>1, <1>6 DEF Bound
    <2>5. QED
      BY <2>1, <2>2, <2>3, <2>4
  <1>8. out' = RedactedFront(input, findings, map', f.end)
    <2>1. out = RedactedFront(input, findings, map, EndOf(findings, next - 1))
          /\ cursor = EndOf(findings, next - 1)
      BY <1>0 DEF IInv, LoopOnTrack
    <2>2. RedactedFront(input, findings, map', EndOf(findings, next - 1)) = out
      BY <1>0, <1>6, <1>7, <2>1, FrontKeeps
    <2>3. GapEnd(input, findings, next - 1) = f.start
      BY <1>0 DEF GapEnd
    <2>4. \A n \in 1 .. next - 1 : Bound(map', input, findings[n])
      BY <1>0, <1>7
    <2>5. RedactedFront(input, findings, map', GapEnd(input, findings, next - 1))
            = RedactedFront(input, findings, map', EndOf(findings, next - 1))
                \o SubSeq(input, EndOf(findings, next - 1) + 1, GapEnd(input, findings, next - 1))
      BY <1>0, <1>5, <2>4, FrontGap
    <2>6. RedactedFront(input, findings, map', f.start) = out \o Gap(input, cursor, f)
      BY ONLY <2>1, <2>2, <2>3, <2>5, Zenon DEF Gap
    <2>7. RedactedFront(input, findings, map', f.end)
            = RedactedFront(input, findings, map', f.start)
                \o <<map'.forward[<<f.kind, TextOf(input, f)>>]>>
      BY <1>0, <1>5, <1>7, FrontFinding
    <2>8. QED
      BY ONLY <1>3, <1>6, <2>6, <2>7, Zenon
  <1>9. out' \in Seq(Token)
    <2>1. next \in 0 .. Len(findings) /\ EndOf(findings, next) = f.end
      BY <1>0 DEF EndOf
    <2>2. RedactedFront(input, findings, map', EndOf(findings, next)) \in Seq(Token)
      BY <1>0, <1>5, <1>7, <2>1, FrontGap
    <2>3. QED
      BY <1>8, <2>1, <2>2
  <1>10. TypeOK'
    BY <1>0, <1>2, <1>3, <1>5, <1>9 DEF IInv, TypeOK
  <1>11. LoopOnTrack'
    <2>1. next' <= Len(findings') + 1 /\ next' - 1 = next
      BY <1>0, <1>3
    <2>2. cursor' = EndOf(findings', next' - 1)
      BY <1>0, <1>3, <2>1 DEF EndOf
    <2>3. out' = RedactedFront(input', findings', map', cursor')
      BY <1>3, <1>8
    <2>4. \A n \in 1 .. next' - 1 : Bound(map', input', findings'[n])
      BY <1>3, <1>7, <2>1
    <2>5. IsFindings(input', findings')
      BY <1>0, <1>3
    <2>6. QED
      BY <2>1, <2>2, <2>3, <2>4, <2>5 DEF LoopOnTrack
  <1>12. DoneRight'
    BY <1>3, StaysRight DEF IInv, DoneRight
  <1>13. QED
    BY <1>5, <1>10, <1>11, <1>12 DEF IInv, MapConsistent

LEMMA StepSubstituteEnd == IInv /\ SubstituteEnd => IInv'
  <1> SUFFICES ASSUME IInv, SubstituteEnd PROVE IInv'
    OBVIOUS
  <1>0. /\ input \in Seq(Token) /\ findings \in Seq(Finding) /\ IsFindings(input, findings)
        /\ Len(findings) \in Nat /\ next - 1 = Len(findings)
        /\ Len(findings) \in 0 .. Len(findings) /\ IsMap(map)
    <2>1. input \in Seq(Token) /\ findings \in Seq(Finding) /\ next \in Nat /\ IsMap(map)
      BY DEF IInv, TypeOK
    <2>2. IsFindings(input, findings) /\ next <= Len(findings) + 1 /\ next > Len(findings)
      BY DEF IInv, LoopOnTrack, SubstituteEnd
    <2>3. Len(findings) \in Nat
      BY <2>1, LenProperties
    <2>4. QED
      BY <2>1, <2>2, <2>3
  <1>1. /\ out' = out \o Remainder(input, cursor)
        /\ done' = done \cup {<<input, findings, out'>>}
        /\ UNCHANGED <<map, input, findings, next, cursor>> /\ pc' = "idle"
    BY DEF SubstituteEnd
  <1>2. /\ \A n \in 1 .. Len(findings) : Bound(map, input, findings[n])
        /\ cursor = EndOf(findings, Len(findings))
        /\ out = RedactedFront(input, findings, map, cursor)
    BY <1>0 DEF IInv, LoopOnTrack, SubstituteEnd
  <1>3. GapEnd(input, findings, Len(findings)) = Len(input)
    BY DEF GapEnd
  <1>4. /\ RedactedFront(input, findings, map, Len(input))
             = RedactedFront(input, findings, map, EndOf(findings, Len(findings)))
                 \o SubSeq(input, EndOf(findings, Len(findings)) + 1, Len(input))
        /\ RedactedFront(input, findings, map, Len(input)) \in Seq(Token)
    BY <1>0, <1>2, <1>3, FrontGap
  <1>5. out' = Redacted(input, findings, map)
    BY ONLY <1>1, <1>2, <1>4, Zenon DEF Remainder, Redacted
  <1>6. out' \in Seq(Token)
    BY <1>4, <1>5 DEF Redacted
  <1>7. done' \subseteq Seq(Token) \X Seq(Finding) \X Seq(Token)
    <2>1. done \subseteq Seq(Token) \X Seq(Finding) \X Seq(Token)
      BY DEF IInv, TypeOK
    <2>2. input \in Seq(Token) /\ findings \in Seq(Finding)
      BY <1>0
    <2>3. done' = done \cup {<<input, findings, out'>>}
      BY <1>1
    <2>4. QED
      BY ONLY <1>6, <2>1, <2>2, <2>3, HistoryGrows
  <1>8. TypeOK'
    BY <1>1, <1>6, <1>7 DEF IInv, TypeOK
  <1>9. IsRight(<<input, findings, out'>>, map)
    BY <1>0, <1>2, <1>5 DEF IsRight
  <1>10. DoneRight'
    BY <1>1, <1>9 DEF IInv, DoneRight
  <1>11. QED
    BY <1>1, <1>8, <1>10 DEF IInv, MapConsistent, LoopOnTrack

\* Every reachable state satisfies the inductive invariant.
THEOREM Invariance == Spec => []IInv
  <1>1. IInv /\ [Next]_vars => IInv'
    <2> SUFFICES ASSUME IInv, [Next]_vars PROVE IInv'
      OBVIOUS
    <2>1. CASE RedactNothing
      BY <2>1, StepRedactNothing
    <2>2. CASE RedactStart
      BY <2>2, StepRedactStart
    <2>3. CASE SubstituteFinding
      BY <2>3, StepSubstituteFinding
    <2>4. CASE SubstituteEnd
      BY <2>4, StepSubstituteEnd
    <2>5. CASE UNCHANGED vars
      BY <2>5 DEF vars, IInv, TypeOK, MapConsistent, LoopOnTrack, DoneRight
    <2>6. QED
      BY <2>1, <2>2, <2>3, <2>4, <2>5 DEF Next
  <1>2. QED
    BY InitIInv, <1>1, PTL DEF Spec

\* The loop of `substitute` keeps every variable in its type: in particular
\* the redacted text consists of characters and placeholders only.
THEOREM TypeCorrect == Spec => []TypeOK
  <1>1. IInv => TypeOK
    BY DEF IInv
  <1>2. QED
    BY <1>1, Invariance, PTL

\* The tables of placeholder.rs are inverse to each other at all times, two
\* secrets never share a placeholder and the numbers are gapless, whatever
\* the kinds, the texts and the number of calls.
THEOREM MapAlwaysConsistent == Spec => []MapConsistent
  <1>1. IInv => MapConsistent
    BY DEF IInv
  <1>2. QED
    BY <1>1, Invariance, PTL

\* lib.rs, `substitute`: the cursor arithmetic of the loop produces what the
\* definition position by position asks for, for any body and any list of
\* spans in ascending order, and with the table as it is after any number of
\* later calls.
THEOREM LoopCorrect == Spec => []LoopMatchesReference
  <1>1. IInv => LoopMatchesReference
    BY DEF IInv, DoneRight, IsRight, LoopMatchesReference
  <1>2. QED
    BY <1>1, Invariance, PTL

\* Reversing what the upstream service was sent gives back the client's body,
\* with the table as it is after any number of later calls, unless the body
\* already quoted one of the table's placeholders.
THEOREM RoundTripHolds == Spec => []RoundTrip
  <1>1. IInv => RoundTrip
    <2> SUFFICES ASSUME IInv, NEW d \in done, ~ QuotesPlaceholder(d[1], d[2], map)
                 PROVE  Reversed(d[3], map) = d[1]
      BY DEF RoundTrip
    <2>1. IsMap(map) /\ Consistent(map) /\ IsRight(d, map)
      BY DEF IInv, TypeOK, MapConsistent, DoneRight
    <2>2. /\ d[1] \in Seq(Token) /\ IsFindings(d[1], d[2])
          /\ \A n \in 1 .. Len(d[2]) : Bound(map, d[1], d[2][n])
      BY <2>1 DEF IsRight
    <2>3. Reversed(Redacted(d[1], d[2], map), map) = d[1]
      BY <2>1, <2>2, ReverseUndoesRedact
    <2>4. d[3] = Redacted(d[1], d[2], map)
      BY <2>1 DEF IsRight
    <2>5. QED
      BY ONLY <2>3, <2>4, Zenon
  <1>2. QED
    BY <1>1, Invariance, PTL

\* No call ever removes or rebinds a placeholder that was handed out.
THEOREM BindingsNeverChange == Spec => BindingsStable
  <1> DEFINE Keeps == \A p \in Minted(map) : p \in Minted(map') /\ map'.reverse[p] = map.reverse[p]
  <1>1. IInv /\ [Next]_vars => [Keeps]_vars
    <2> SUFFICES ASSUME IInv, Next PROVE Keeps
      OBVIOUS
    <2>1. CASE SubstituteFinding
      <3> DEFINE f == findings[next]
                 text == TextOf(input, f)
      <3>1. next \in 1 .. Len(findings) /\ input \in Seq(Token) /\ IsFindings(input, findings)
        BY <2>1, LenProperties DEF IInv, TypeOK, LoopOnTrack, SubstituteFinding
      <3>2. f.kind \in Kind /\ text \in Text
        BY <3>1, FindingBounds
      <3>3. map' = AfterPlaceholderFor(map, f.kind, text)
        BY <2>1 DEF SubstituteFinding
      <3>4. QED
        BY <3>2, <3>3, AfterPlaceholderForKeeps DEF IInv, TypeOK, MapConsistent
    <2>2. CASE map' = map
      BY <2>2
    <2>3. QED
      BY <2>1, <2>2 DEF Next, RedactNothing, RedactStart, SubstituteEnd
  <1>2. QED
    BY Invariance, <1>1, PTL DEF Spec, BindingsStable

=============================================================================
