--------------------------- MODULE LibraryProofs ---------------------------
(***************************************************************************)
(* Lemmas the proofs share: on induction, on sequences and their           *)
(* flattening, and on the placeholder table.  No state is involved here.   *)
(*                                                                         *)
(* FlattenSeq is defined by recursion; here induction is replaced by       *)
(* looking at the least number for which a claim would fail.               *)
(***************************************************************************)
EXTENDS PlaceholderMap, Integers, SequencesExt, SequenceTheorems, WellFoundedInduction, TLAPS

\* A set of natural numbers has a least member.
LEMMA LeastMember ==
  ASSUME NEW T, T \subseteq Nat, T # {}
  PROVE  \E n \in T : \A m \in T : n <= m
  <1>1. PICK n \in T : \A m \in T : ~ (<<m, n>> \in OpToRel(<, Nat))
    BY NatLessThanWellFounded, WFMin
  <1>2. ASSUME NEW m \in T, ~ (n <= m) PROVE FALSE
    <2>1. m \in Nat /\ n \in Nat /\ m < n
      BY <1>2
    <2>2. <<m, n>> \in OpToRel(<, Nat)
      BY <2>1 DEF OpToRel
    <2>3. QED
      BY <1>1, <2>2
  <1>3. QED
    BY <1>1, <1>2

\* Induction over the natural numbers, for a set instead of a predicate.
LEMMA Induction ==
  ASSUME NEW T, 0 \in T, \A n \in Nat : n \in T => n + 1 \in T
  PROVE  Nat \subseteq T
  <1>1. ASSUME NEW x \in Nat, x \notin T PROVE FALSE
    <2>1. Nat \ T \subseteq Nat /\ Nat \ T # {}
      BY <1>1
    <2>2. PICK n \in Nat \ T : \A m \in Nat \ T : n <= m
      BY <2>1, LeastMember
    <2>3. n # 0 /\ n - 1 \in Nat /\ ~ (n <= n - 1) /\ (n - 1) + 1 = n
      BY <2>2
    <2>4. n - 1 \in T
      BY <2>2, <2>3
    <2>5. QED
      BY <2>2, <2>3, <2>4
  <1>2. QED
    BY <1>1

\* A set of numbers up to n has a greatest member.
LEMMA GreatestMember ==
  ASSUME NEW n \in Nat, NEW T, T \subseteq 0 .. n, T # {}
  PROVE  \E x \in T : \A y \in T : y <= x
  <1> DEFINE D == {n - x : x \in T}
  <1>1. D \subseteq Nat /\ D # {}
    <2>1. \A x \in T : x \in 0 .. n
      OBVIOUS
    <2>2. \A x \in T : n - x \in Nat
      BY <2>1
    <2>3. PICK x \in T : TRUE
      OBVIOUS
    <2>4. n - x \in D
      OBVIOUS
    <2>5. QED
      BY <2>2, <2>4
  <1>2. PICK d \in D : \A e \in D : d <= e
    BY <1>1, LeastMember
  <1>3. PICK x \in T : d = n - x
    BY <1>2
  <1>4. ASSUME NEW y \in T PROVE y <= x
    <2>1. n - x <= n - y
      BY <1>2, <1>3
    <2>2. x \in 0 .. n /\ y \in 0 .. n
      OBVIOUS
    <2>3. QED
      BY <2>1, <2>2
  <1>5. QED
    BY <1>4

-----------------------------------------------------------------------------
LEMMA FunctionIsSequence ==
  ASSUME NEW S, NEW n \in Nat, NEW f \in [1 .. n -> S]
  PROVE  f \in Seq(S) /\ Len(f) = n
  <1>1. f \in Seq(S)
    BY SeqDef
  <1>2. Len(f) \in Nat /\ DOMAIN f = 1 .. Len(f)
    BY <1>1, LenProperties
  <1>3. DOMAIN f = 1 .. n
    OBVIOUS
  <1>4. QED
    BY <1>1, <1>2, <1>3

\* a is what stands in s behind its first d members.
StandsIn(a, s, d) == \A i \in 1 .. Len(a) : a[i] = s[d + i]

\* A sequence cut in two.
LEMMA Cut ==
  ASSUME NEW S, NEW s \in Seq(S), NEW n \in 0 .. Len(s)
  PROVE  /\ SubSeq(s, 1, n) \in Seq(S) /\ SubSeq(s, n + 1, Len(s)) \in Seq(S)
         /\ Len(SubSeq(s, 1, n)) = n /\ Len(SubSeq(s, n + 1, Len(s))) = Len(s) - n
         /\ StandsIn(SubSeq(s, 1, n), s, 0) /\ StandsIn(SubSeq(s, n + 1, Len(s)), s, n)
         /\ SubSeq(s, 1, n) \o SubSeq(s, n + 1, Len(s)) = s
  <1>1. ASSUME NEW a, a = SubSeq(s, 1, n), NEW b, b = SubSeq(s, n + 1, Len(s))
        PROVE  /\ a \in Seq(S) /\ b \in Seq(S)
               /\ Len(a) = n /\ Len(b) = Len(s) - n
               /\ StandsIn(a, s, 0) /\ StandsIn(b, s, n)
               /\ a \o b = s
    <2>0. Len(s) \in Nat /\ \A i \in 1 .. Len(s) : s[i] \in S
      BY ElementOfSeq, LenProperties
    <2>1. a \in Seq(S) /\ Len(a) = n /\ \A i \in 1 .. n : a[i] = s[i]
      <3>1. 1 \in Int /\ n \in Int /\ \A i \in 1 .. n : s[i] \in S
        BY <2>0
      <3>2. /\ a \in Seq(S) /\ Len(a) = IF 1 <= n THEN n - 1 + 1 ELSE 0
            /\ \A i \in 1 .. n - 1 + 1 : a[i] = s[1 + i - 1]
        BY <1>1, <3>1, SubSeqProperties
      <3>3. \A i \in 1 .. n : i \in 1 .. n - 1 + 1 /\ 1 + i - 1 = i
        OBVIOUS
      <3>4. QED
        BY <2>0, <3>2, <3>3
    <2>2. b \in Seq(S) /\ Len(b) = Len(s) - n /\ \A i \in 1 .. Len(s) - n : b[i] = s[n + i]
      <3>1. n + 1 \in Int /\ Len(s) \in Int /\ \A i \in n + 1 .. Len(s) : s[i] \in S
        BY <2>0
      <3>2. /\ b \in Seq(S) /\ Len(b) = IF n + 1 <= Len(s) THEN Len(s) - (n + 1) + 1 ELSE 0
            /\ \A i \in 1 .. Len(s) - (n + 1) + 1 : b[i] = s[(n + 1) + i - 1]
        BY <1>1, <3>1, SubSeqProperties
      <3>3. \A i \in 1 .. Len(s) - n : i \in 1 .. Len(s) - (n + 1) + 1 /\ (n + 1) + i - 1 = n + i
        BY <2>0
      <3>4. QED
        BY <2>0, <3>2, <3>3
    <2>3. a \o b = s
      <3>1. SubSeq(s, 1, n) \o SubSeq(s, n + 1, Len(s)) = SubSeq(s, 1, Len(s))
        <4>1. 1 \in 1 .. Len(s) + 1 /\ n \in 1 - 1 .. Len(s) /\ Len(s) \in n .. Len(s)
          BY <2>0
        <4>2. QED
          BY <4>1, ConcatAdjacentSubSeq
      <3>2. QED
        BY <1>1, <3>1, SubSeqFull
    <2>4. StandsIn(a, s, 0) /\ StandsIn(b, s, n)
      BY <2>1, <2>2 DEF StandsIn
    <2>5. QED
      BY <2>1, <2>2, <2>3, <2>4
  <1>2. QED
    BY <1>1

-----------------------------------------------------------------------------
\* p[i] is the concatenation of the first i members of s, for i up to n.
Partial(s, n, p) ==
  p = [i \in 1 .. n |-> IF i = 1 THEN s[i] ELSE p[i - 1] \o s[i]]

\* There is such a p ...
LEMMA PartialExists ==
  ASSUME NEW S, NEW s \in Seq(Seq(S))
  PROVE  \A n \in 0 .. Len(s) : \E p \in [1 .. n -> Seq(S)] : Partial(s, n, p)
  <1> DEFINE Good == {n \in Nat : n <= Len(s) => \E p \in [1 .. n -> Seq(S)] : Partial(s, n, p)}
  <1>1. 0 \in Good
    <2>1. ASSUME NEW p, p = [i \in 1 .. 0 |-> << >>]
          PROVE  p \in [1 .. 0 -> Seq(S)] /\ Partial(s, 0, p)
      BY <2>1 DEF Partial
    <2>2. \E p \in [1 .. 0 -> Seq(S)] : Partial(s, 0, p)
      BY <2>1
    <2>3. QED
      BY <2>2
  <1>2. ASSUME NEW n \in Nat, n \in Good, n + 1 <= Len(s)
        PROVE  \E p \in [1 .. n + 1 -> Seq(S)] : Partial(s, n + 1, p)
    <2>0. Len(s) \in Nat
      OBVIOUS
    <2>1. PICK q \in [1 .. n -> Seq(S)] : Partial(s, n, q)
      BY <1>2, <2>0
    <2>2. n + 1 \in 1 .. Len(s) /\ s[n + 1] \in Seq(S)
      BY <1>2, <2>0
    <2>3. ASSUME NEW last \in Seq(S), last = IF n = 0 THEN s[n + 1] ELSE q[n] \o s[n + 1],
                 NEW p, p = [i \in 1 .. n + 1 |-> IF i = n + 1 THEN last ELSE q[i]]
          PROVE  p \in [1 .. n + 1 -> Seq(S)] /\ Partial(s, n + 1, p)
      <3>1. p \in [1 .. n + 1 -> Seq(S)]
        BY <2>3
      <3>2. ASSUME NEW i \in 1 .. n + 1
            PROVE  p[i] = IF i = 1 THEN s[i] ELSE p[i - 1] \o s[i]
        <4>1. CASE i = n + 1 /\ n = 0
          BY <2>3, <4>1
        <4>2. CASE i = n + 1 /\ n # 0
          <5>1. n \in 1 .. n + 1 /\ i - 1 = n /\ i # 1 /\ n # n + 1
            BY <4>2
          <5>2. QED
            BY <2>3, <4>2, <5>1
        <4>3. CASE i # n + 1
          <5>1. i \in 1 .. n /\ i - 1 # n + 1 /\ (i # 1 => i - 1 \in 1 .. n + 1)
            BY <4>3
          <5>2. q[i] = IF i = 1 THEN s[i] ELSE q[i - 1] \o s[i]
            BY <2>1, <5>1 DEF Partial
          <5>3. p[i] = q[i] /\ (i # 1 => p[i - 1] = q[i - 1])
            BY <2>3, <4>3, <5>1
          <5>4. QED
            BY <5>2, <5>3
        <4>4. QED
          BY <4>1, <4>2, <4>3
      <3>3. p = [i \in 1 .. n + 1 |-> p[i]]
        BY <2>3
      <3>4. QED
        BY <3>1, <3>2, <3>3 DEF Partial
    <2>4. (IF n = 0 THEN s[n + 1] ELSE q[n] \o s[n + 1]) \in Seq(S)
      <3>1. n # 0 => q[n] \in Seq(S)
        BY <2>1
      <3>2. QED
        BY <2>2, <3>1
    <2>5. QED
      BY <2>3, <2>4
  <1>3. \A n \in Nat : n \in Good => n + 1 \in Good
    BY <1>2
  <1> HIDE DEF Good
  <1>4. Nat \subseteq Good
    BY <1>1, <1>3, Induction
  <1>5. QED
    BY <1>4 DEF Good

\* ... and only one.
LEMMA PartialUnique ==
  ASSUME NEW s, NEW n \in Nat, NEW k \in 0 .. n, NEW t, NEW p, NEW q,
         Partial(s, n, p), Partial(t, k, q), \A i \in 1 .. k : s[i] = t[i]
  PROVE  \A i \in 1 .. k : p[i] = q[i]
  <1> DEFINE Same == {m \in Nat : m \in 1 .. k => p[m] = q[m]}
  <1>1. 0 \in Same
    OBVIOUS
  <1>2. ASSUME NEW m \in Nat, m \in Same, m + 1 \in 1 .. k
        PROVE  p[m + 1] = q[m + 1]
    <2>1. /\ p[m + 1] = IF m + 1 = 1 THEN s[m + 1] ELSE p[(m + 1) - 1] \o s[m + 1]
          /\ q[m + 1] = IF m + 1 = 1 THEN t[m + 1] ELSE q[(m + 1) - 1] \o t[m + 1]
      <3>1. m + 1 \in 1 .. n
        BY <1>2
      <3>2. QED
        BY <1>2, <3>1 DEF Partial
    <2>2. (m + 1) - 1 = m /\ (m + 1 # 1 => m \in 1 .. k)
      BY <1>2
    <2>3. m + 1 # 1 => p[m] = q[m]
      BY <1>2, <2>2
    <2>4. QED
      BY <1>2, <2>1, <2>2, <2>3
  <1>3. \A m \in Nat : m \in Same => m + 1 \in Same
    BY <1>2
  <1> HIDE DEF Same
  <1>4. Nat \subseteq Same
    BY <1>1, <1>3, Induction
  <1>5. QED
    BY <1>4 DEF Same

\* FlattenSeq is the last of these concatenations.
LEMMA FlattenIsPartial ==
  ASSUME NEW S, NEW s \in Seq(Seq(S)), Len(s) # 0
  PROVE  \E p \in [1 .. Len(s) -> Seq(S)] : Partial(s, Len(s), p) /\ FlattenSeq(s) = p[Len(s)]
  <1> DEFINE h == CHOOSE f : f = [i \in 1 .. Len(s) |-> IF i = 1 THEN s[i] ELSE f[i - 1] \o s[i]]
  <1>1. Len(s) \in Nat \ {0} /\ Len(s) \in 0 .. Len(s) /\ Len(s) \in 1 .. Len(s)
    OBVIOUS
  <1>2. FlattenSeq(s) = h[Len(s)]
    BY ONLY Len(s) # 0, Zenon DEF FlattenSeq
  <1>3. PICK p \in [1 .. Len(s) -> Seq(S)] : Partial(s, Len(s), p)
    BY <1>1, PartialExists
  <1>4. h = [i \in 1 .. Len(s) |-> IF i = 1 THEN s[i] ELSE h[i - 1] \o s[i]]
    BY <1>3 DEF Partial
  <1>5. Partial(s, Len(s), h)
    BY <1>4 DEF Partial
  <1> HIDE DEF h
  <1>6. \A i \in 1 .. Len(s) : h[i] = p[i]
    BY <1>1, <1>3, <1>5, PartialUnique
  <1>7. h[Len(s)] = p[Len(s)]
    BY <1>1, <1>6
  <1>8. QED
    BY <1>2, <1>3, <1>7

THEOREM FlattenEmpty == FlattenSeq(<< >>) = << >>
  BY DEF FlattenSeq

THEOREM FlattenType ==
  ASSUME NEW S, NEW s \in Seq(Seq(S))
  PROVE  FlattenSeq(s) \in Seq(S)
  <1>1. CASE Len(s) = 0
    <2>1. s = << >>
      BY <1>1, EmptySeq
    <2>2. << >> \in Seq(S)
      OBVIOUS
    <2>3. QED
      BY <2>1, <2>2, FlattenEmpty
  <1>2. CASE Len(s) # 0
    <2>1. PICK p \in [1 .. Len(s) -> Seq(S)] : FlattenSeq(s) = p[Len(s)]
      BY <1>2, FlattenIsPartial
    <2>2. Len(s) \in 1 .. Len(s)
      BY <1>2
    <2>3. QED
      BY <2>1, <2>2
  <1>3. QED
    BY <1>1, <1>2

\* One more member: its text comes at the end.
LEMMA FlattenAppend ==
  ASSUME NEW S, NEW s \in Seq(Seq(S)), NEW x \in Seq(S)
  PROVE  FlattenSeq(Append(s, x)) = FlattenSeq(s) \o x
  <1>1. ASSUME NEW t, t = Append(s, x), NEW n, n = Len(s)
        PROVE  FlattenSeq(t) = FlattenSeq(s) \o x
    <2>1. /\ t \in Seq(Seq(S)) /\ n \in Nat /\ Len(t) = n + 1 /\ t[n + 1] = x
          /\ \A i \in 1 .. n : t[i] = s[i]
      BY <1>1, AppendProperties
    <2>2. PICK p : Partial(t, n + 1, p) /\ FlattenSeq(t) = p[n + 1]
      <3>1. Len(t) # 0
        BY <2>1
      <3>2. QED
        BY <2>1, <3>1, FlattenIsPartial
    <2>3. p[n + 1] = IF n + 1 = 1 THEN t[n + 1] ELSE p[(n + 1) - 1] \o t[n + 1]
      <3>1. n + 1 \in 1 .. n + 1
        BY <2>1
      <3>2. QED
        BY <2>2, <3>1 DEF Partial
    <2>4. CASE n = 0
      <3>1. s = << >>
        BY <1>1, <2>4, EmptySeq
      <3>2. FlattenSeq(s) = << >>
        BY <3>1, FlattenEmpty
      <3>3. p[n + 1] = x
        BY <2>1, <2>3, <2>4
      <3>4. QED
        BY <2>2, <3>2, <3>3
    <2>5. CASE n # 0
      <3>1. PICK q : Partial(s, n, q) /\ FlattenSeq(s) = q[n]
        BY <1>1, <2>5, FlattenIsPartial
      <3>2. n \in 1 .. n /\ n \in 0 .. n + 1 /\ n + 1 \in Nat /\ (n + 1) - 1 = n /\ n + 1 # 1
        BY <2>1, <2>5
      <3>3. \A i \in 1 .. n : p[i] = q[i]
        <4>1. Partial(t, n + 1, p) /\ Partial(s, n, q) /\ \A i \in 1 .. n : t[i] = s[i]
          BY <2>1, <2>2, <3>1
        <4>2. QED
          BY <3>2, <4>1, PartialUnique
      <3>4. p[n] = q[n]
        BY <3>2, <3>3
      <3>5. p[n + 1] = p[n] \o x
        BY <2>1, <2>3, <3>2
      <3>6. QED
        BY <2>2, <3>1, <3>4, <3>5
    <2>6. QED
      BY <2>4, <2>5
  <1>2. QED
    BY <1>1

-----------------------------------------------------------------------------
\* The pieces P[1], P[2], ... up to the n-th, concatenated.
Upto(P, n) == FlattenSeq([i \in 1 .. n |-> P[i]])

LEMMA FrontIsSequence ==
  ASSUME NEW S, NEW n \in Nat, NEW P, \A i \in 1 .. n : P[i] \in Seq(S)
  PROVE  /\ [i \in 1 .. n |-> P[i]] \in Seq(Seq(S))
         /\ Len([i \in 1 .. n |-> P[i]]) = n
         /\ Upto(P, n) \in Seq(S)
  <1>1. ASSUME NEW f, f = [i \in 1 .. n |-> P[i]]
        PROVE  f \in Seq(Seq(S)) /\ Len(f) = n /\ FlattenSeq(f) \in Seq(S)
    <2>1. f \in [1 .. n -> Seq(S)]
      BY <1>1
    <2>2. f \in Seq(Seq(S)) /\ Len(f) = n
      BY <2>1, FunctionIsSequence
    <2>3. QED
      BY <2>2, FlattenType
  <1>2. QED
    BY <1>1 DEF Upto

\* Concatenation is associative.  The set of sequences has a name here, as
\* the provers rewrite what they know to be a concatenation.
Strings(S) == Seq(S)

LEMMA Regroup ==
  ASSUME NEW S
  PROVE  \A r, s, t \in Strings(S) : r \o (s \o t) = (r \o s) \o t
  <1>1. ASSUME NEW r \in Strings(S), NEW s \in Strings(S), NEW t \in Strings(S)
        PROVE  r \o (s \o t) = (r \o s) \o t
    BY ConcatAssociative DEF Strings
  <1>2. QED
    BY <1>1

\* No pieces.
LEMMA UptoNone == \A P : Upto(P, 0) = << >>
  <1>1. ASSUME NEW P PROVE [i \in 1 .. 0 |-> P[i]] = << >>
    <2>1. ASSUME NEW f, f = [i \in 1 .. 0 |-> P[i]] PROVE f = << >>
      <3>1. f \in [1 .. 0 -> {}]
        BY <2>1
      <3>2. f \in Seq({}) /\ Len(f) = 0
        BY <3>1, FunctionIsSequence
      <3>3. QED
        BY <3>2, EmptySeq
    <2>2. QED
      BY <2>1
  <1>2. QED
    BY <1>1, FlattenEmpty DEF Upto

\* One piece more.
LEMMA UptoStep ==
  ASSUME NEW S, NEW n \in Nat, NEW P, \A i \in 1 .. n + 1 : P[i] \in Seq(S)
  PROVE  Upto(P, n + 1) = Upto(P, n) \o P[n + 1]
  <1>1. ASSUME NEW f, f = [i \in 1 .. n |-> P[i]],
               NEW g, g = [i \in 1 .. n + 1 |-> P[i]],
               NEW h, h = Append(f, P[n + 1])
        PROVE  FlattenSeq(g) = FlattenSeq(f) \o P[n + 1]
    <2>1. n + 1 \in Nat /\ n + 1 \in 1 .. n + 1 /\ \A i \in 1 .. n : i \in 1 .. n + 1
      OBVIOUS
    <2>2. f \in Seq(Seq(S)) /\ Len(f) = n /\ P[n + 1] \in Seq(S)
      BY <1>1, <2>1, FrontIsSequence
    <2>3. g \in Seq(Seq(S)) /\ Len(g) = n + 1
      BY <1>1, <2>1, FrontIsSequence
    <2>4. /\ h \in Seq(Seq(S)) /\ Len(h) = n + 1 /\ h[n + 1] = P[n + 1]
          /\ \A i \in 1 .. n : h[i] = f[i]
      BY <1>1, <2>2, AppendProperties
    <2>5. \A i \in 1 .. n + 1 : g[i] = P[i]
      BY <1>1
    <2>6. \A i \in 1 .. n : f[i] = P[i]
      BY <1>1
    <2>7. \A i \in 1 .. n + 1 : g[i] = h[i]
      <3>1. \A i \in 1 .. n + 1 : i = n + 1 \/ i \in 1 .. n
        OBVIOUS
      <3>2. QED
        BY ONLY <3>1, <2>4, <2>5, <2>6
    <2>8. g = h
      BY <2>3, <2>4, <2>7, SeqEqual
    <2>9. QED
      BY <1>1, <2>2, <2>8, FlattenAppend
  <1>2. QED
    BY <1>1 DEF Upto

\* The pieces up to a, and then the members of x up to j.
Copied(P, x, a, j) == Upto(P, j) = Upto(P, a) \o SubSeq(x, a + 1, j)

\* Pieces that are single members of x, from the (a+1)-st to the b-th: they
\* add that part of x.
LEMMA UptoCopies ==
  ASSUME NEW S, NEW x \in Seq(S), NEW a \in Nat, NEW b \in Nat, a <= b, b <= Len(x),
         NEW P, \A i \in 1 .. b : P[i] \in Seq(S),
         \A i \in a + 1 .. b : P[i] = <<x[i]>>
  PROVE  Upto(P, b) = Upto(P, a) \o SubSeq(x, a + 1, b)
  <1> DEFINE T == {j \in Nat : a + j <= b => Copied(P, x, a, a + j)}
  <1>0. /\ Len(x) \in Nat /\ \A i \in 1 .. Len(x) : x[i] \in S
        /\ Upto(P, a) \in Seq(S)
    <2>1. \A i \in 1 .. a : P[i] \in Seq(S)
      OBVIOUS
    <2>2. QED
      BY <2>1, FrontIsSequence
  <1>1. 0 \in T
    <2>1. SubSeq(x, a + 1, a) = << >>
      BY SubSeqEmpty
    <2>2. Upto(P, a) \o << >> = Upto(P, a)
      BY <1>0, ConcatEmptySeq
    <2>3. a + 0 = a
      OBVIOUS
    <2>4. Copied(P, x, a, a)
      BY <2>1, <2>2 DEF Copied
    <2>5. QED
      BY <2>3, <2>4
  <1>2. ASSUME NEW j \in Nat, j \in T, a + (j + 1) <= b
        PROVE  Copied(P, x, a, a + (j + 1))
    <2> DEFINE n == a + j
    <2>2. n \in Nat /\ n + 1 = a + (j + 1) /\ n + 1 <= b /\ n <= b
      BY <1>2
    <2>3. Upto(P, n) = Upto(P, a) \o SubSeq(x, a + 1, n)
      <3>1. Copied(P, x, a, n)
        BY <1>2, <2>2
      <3>2. QED
        BY <3>1 DEF Copied
    <2>4. Upto(P, n + 1) = Upto(P, n) \o P[n + 1]
      <3>1. \A i \in 1 .. n + 1 : P[i] \in Seq(S)
        BY <2>2
      <3>2. QED
        BY <2>2, <3>1, UptoStep
    <2>5. P[n + 1] = <<x[n + 1]>>
      BY <2>2
    <2>6. SubSeq(x, a + 1, n + 1) = SubSeq(x, a + 1, n) \o <<x[n + 1]>>
      <3>1. /\ a + 1 \in 1 .. Len(x) /\ n + 1 \in a + 1 .. Len(x)
            /\ (n + 1) - 1 = n
        BY <1>0, <2>2
      <3>2. QED
        BY <3>1, SubSeqRecursiveSecond
    <2>7. SubSeq(x, a + 1, n) \in Seq(S) /\ <<x[n + 1]>> \in Seq(S)
      <3>1. n \in Int /\ a + 1 \in Int /\ \A i \in a + 1 .. n : x[i] \in S
        BY <1>0, <2>2
      <3>2. x[n + 1] \in S
        BY <1>0, <2>2
      <3>3. QED
        BY <3>1, <3>2, SubSeqProperties
    <2> HIDE DEF n
    <2>8. Upto(P, a) \o (SubSeq(x, a + 1, n) \o <<x[n + 1]>>)
            = (Upto(P, a) \o SubSeq(x, a + 1, n)) \o <<x[n + 1]>>
      <3>1. /\ Upto(P, a) \in Strings(S) /\ SubSeq(x, a + 1, n) \in Strings(S)
            /\ <<x[n + 1]>> \in Strings(S)
        BY <1>0, <2>7 DEF Strings
      <3>2. \A r, s, t \in Strings(S) : r \o (s \o t) = (r \o s) \o t
        BY Regroup
      <3>3. QED
        BY ONLY <3>1, <3>2
    <2>9. Copied(P, x, a, n + 1)
      BY ONLY <2>3, <2>4, <2>5, <2>6, <2>8, Zenon DEF Copied
    <2>10. QED
      BY <2>2, <2>9
  <1>7. ASSUME NEW j \in Nat, j \in T PROVE j + 1 \in T
    <2>1. CASE a + (j + 1) <= b
      BY <1>2, <1>7, <2>1
    <2>2. CASE ~ (a + (j + 1) <= b)
      BY <2>2
    <2>3. QED
      BY <2>1, <2>2
  <1> HIDE DEF T
  <1>3. Nat \subseteq T
    BY <1>1, <1>7, Induction
  <1>4. b - a \in Nat /\ a + (b - a) = b
    OBVIOUS
  <1>5. b - a \in T
    BY <1>3, <1>4
  <1>6. Copied(P, x, a, b)
    BY <1>4, <1>5 DEF T
  <1>8. QED
    BY ONLY <1>6, Zenon DEF Copied

\* Empty pieces add nothing.
LEMMA UptoSkips ==
  ASSUME NEW S, NEW a \in Nat, NEW b \in Nat, a <= b,
         NEW P, \A i \in 1 .. b : P[i] \in Seq(S),
         \A i \in a + 1 .. b : P[i] = << >>
  PROVE  Upto(P, b) = Upto(P, a)
  <1> DEFINE T == {j \in Nat : a + j <= b => Upto(P, a + j) = Upto(P, a)}
  <1>1. 0 \in T
    <2>1. a + 0 = a
      OBVIOUS
    <2>2. QED
      BY <2>1
  <1>2. ASSUME NEW j \in Nat, j \in T, a + (j + 1) <= b
        PROVE  Upto(P, a + (j + 1)) = Upto(P, a)
    <2> DEFINE n == a + j
    <2>2. n \in Nat /\ n + 1 = a + (j + 1) /\ n + 1 <= b /\ n <= b
      BY <1>2
    <2>3. Upto(P, n) = Upto(P, a)
      BY <1>2, <2>2
    <2>4. Upto(P, n + 1) = Upto(P, n) \o P[n + 1]
      <3>1. \A i \in 1 .. n + 1 : P[i] \in Seq(S)
        BY <2>2
      <3>2. QED
        BY <2>2, <3>1, UptoStep
    <2>5. P[n + 1] = << >>
      BY <2>2
    <2>6. Upto(P, n) \in Seq(S)
      <3>1. \A i \in 1 .. n : P[i] \in Seq(S)
        BY <2>2
      <3>2. QED
        BY <2>2, <3>1, FrontIsSequence
    <2> HIDE DEF n
    <2>7. Upto(P, n) \o << >> = Upto(P, n)
      BY <2>6, ConcatEmptySeq
    <2>8. Upto(P, n + 1) = Upto(P, a)
      BY ONLY <2>3, <2>4, <2>5, <2>7, Zenon
    <2>9. QED
      BY <2>2, <2>8
  <1>7. \A j \in Nat : j \in T => j + 1 \in T
    BY <1>2
  <1> HIDE DEF T
  <1>3. Nat \subseteq T
    BY <1>1, <1>7, Induction
  <1>4. b - a \in Nat /\ a + (b - a) = b
    OBVIOUS
  <1>5. b - a \in T
    BY <1>3, <1>4
  <1>6. QED
    BY <1>4, <1>5 DEF T

\* Q begins with the n pieces that come in P behind the first a.
Follows(Q, P, a, n) == \A i \in 1 .. n : Q[i] = P[a + i]

LEMMA UptoJoins ==
  ASSUME NEW S, NEW a \in Nat, NEW n \in Nat,
         NEW P, \A i \in 1 .. a + n : P[i] \in Seq(S),
         NEW Q, Follows(Q, P, a, n)
  PROVE  Upto(P, a + n) = Upto(P, a) \o Upto(Q, n)
  <1> DEFINE T == {j \in Nat : j <= n => Upto(P, a + j) = Upto(P, a) \o Upto(Q, j)}
  <1>0. Upto(P, a) \in Seq(S)
    <2>1. \A i \in 1 .. a : P[i] \in Seq(S)
      OBVIOUS
    <2>2. QED
      BY <2>1, FrontIsSequence
  <1>1. 0 \in T
    <2>1. a + 0 = a /\ Upto(Q, 0) = << >>
      BY UptoNone
    <2>2. Upto(P, a) \o << >> = Upto(P, a)
      BY <1>0, ConcatEmptySeq
    <2>3. QED
      BY <2>1, <2>2
  <1>2. ASSUME NEW j \in Nat, j \in T PROVE j + 1 \in T
    <2>1. SUFFICES ASSUME j + 1 <= n
                   PROVE  Upto(P, a + (j + 1)) = Upto(P, a) \o Upto(Q, j + 1)
      OBVIOUS
    <2>2. Upto(P, a + j) = Upto(P, a) \o Upto(Q, j)
      BY <1>2, <2>1
    <2>3. Upto(P, (a + j) + 1) = Upto(P, a + j) \o P[(a + j) + 1]
      <3>1. a + j \in Nat /\ \A i \in 1 .. (a + j) + 1 : P[i] \in Seq(S)
        BY <2>1
      <3>2. QED
        BY <3>1, UptoStep
    <2>4. \A i \in 1 .. j + 1 : Q[i] = P[a + i] /\ a + i \in 1 .. a + n
      BY <2>1 DEF Follows
    <2>5. \A i \in 1 .. j + 1 : Q[i] \in Seq(S)
      BY <2>4
    <2>6. Upto(Q, j + 1) = Upto(Q, j) \o Q[j + 1]
      BY <2>5, UptoStep
    <2>7. (a + j) + 1 = a + (j + 1) /\ Q[j + 1] = P[(a + j) + 1]
      BY <2>4
    <2>8. Q[j + 1] \in Seq(S) /\ Upto(Q, j) \in Seq(S)
      <3>1. \A i \in 1 .. j : Q[i] \in Seq(S)
        BY <2>5
      <3>2. QED
        BY <2>5, <3>1, FrontIsSequence
    <2>9. Upto(P, a) \o (Upto(Q, j) \o Q[j + 1]) = (Upto(P, a) \o Upto(Q, j)) \o Q[j + 1]
      <3>1. Upto(P, a) \in Strings(S) /\ Upto(Q, j) \in Strings(S) /\ Q[j + 1] \in Strings(S)
        BY <1>0, <2>8 DEF Strings
      <3>2. \A r, s, t \in Strings(S) : r \o (s \o t) = (r \o s) \o t
        BY Regroup
      <3>3. QED
        BY ONLY <3>1, <3>2
    <2>10. QED
      BY ONLY <2>2, <2>3, <2>6, <2>7, <2>9, Zenon
  <1> HIDE DEF T
  <1>3. Nat \subseteq T
    BY <1>1, <1>2, Induction
  <1>4. n \in T
    BY <1>3
  <1>5. QED
    BY <1>4 DEF T

\* Only the pieces count.
LEMMA UptoSame ==
  ASSUME NEW n, NEW P, NEW Q, \A i \in 1 .. n : P[i] = Q[i]
  PROVE  Upto(P, n) = Upto(Q, n)
  <1>1. [i \in 1 .. n |-> P[i]] = [i \in 1 .. n |-> Q[i]]
    OBVIOUS
  <1>2. QED
    BY <1>1, Zenon DEF Upto

-----------------------------------------------------------------------------
(***************************************************************************)
(* The operations of the placeholder table, for any set of kinds and       *)
(* texts.                                                                  *)
(***************************************************************************)

\* Rendering is injective: kind and number can be read off a placeholder.
LEMMA RenderInjective ==
  ASSUME NEW j \in Kind, NEW k \in Kind, NEW m \in Nat, NEW n \in Nat,
         Render(j, m) = Render(k, n)
  PROVE  j = k /\ m = n
  BY SlugsDistinct DEF Render

\* A new table is well formed and consistent.
LEMMA EmptyMapOK == IsMap(EmptyMap) /\ Consistent(EmptyMap)
  BY DEF EmptyMap, IsMap, Consistent, Invertible, Injective, NoOrphans, Numbered

\* The number a new placeholder gets has not been handed out before.
LEMMA FreshIsNew ==
  ASSUME NEW m, IsMap(m), Consistent(m), NEW k \in Kind
  PROVE  /\ Fresh(m, k) \in Placeholder
         /\ Fresh(m, k) \notin Minted(m)
         /\ \A s \in DOMAIN m.forward : m.forward[s] # Fresh(m, k)
  <1>1. m.counters[k] \in Nat
    BY DEF IsMap
  <1>2. Fresh(m, k) \in Placeholder
    BY <1>1 DEF Fresh, Render, Placeholder
  <1>3. ASSUME NEW s \in DOMAIN m.forward, m.forward[s] = Fresh(m, k)
        PROVE  FALSE
    <2>1. s[1] \in Kind /\ m.counters[s[1]] \in Nat
      BY DEF IsMap
    <2>2. PICK n \in 1 .. m.counters[s[1]] : m.forward[s] = Render(s[1], n)
      BY DEF Consistent, Numbered
    <2>3. s[1] = k /\ n = m.counters[k] + 1
      BY <1>1, <1>3, <2>1, <2>2, RenderInjective DEF Fresh
    <2>4. QED
      BY <1>1, <2>2, <2>3
  <1>4. Fresh(m, k) \notin Minted(m)
    BY <1>3 DEF Consistent, NoOrphans, Minted
  <1>5. QED
    BY <1>2, <1>3, <1>4

\* placeholder_for keeps the table well formed.
LEMMA AfterPlaceholderForIsMap ==
  ASSUME NEW m, IsMap(m), Consistent(m), NEW k \in Kind, NEW t \in Text
  PROVE  IsMap(AfterPlaceholderFor(m, k, t))
  <1>1. CASE Knows(m, k, t)
    BY <1>1 DEF AfterPlaceholderFor
  <1>2. CASE ~ Knows(m, k, t)
    <2> DEFINE w == AfterPlaceholderFor(m, k, t)
               f == Insert(m.forward, <<k, t>>, Fresh(m, k))
               r == Insert(m.reverse, Fresh(m, k), t)
               c == [m.counters EXCEPT ![k] = @ + 1]
    <2>1. w = [forward |-> f, reverse |-> r, counters |-> c]
      BY <1>2 DEF AfterPlaceholderFor
    <2>2. Fresh(m, k) \in Placeholder
      BY FreshIsNew
    <2>3. f \in [DOMAIN f -> Placeholder] /\ DOMAIN f \subseteq Kind \X Text
      BY <2>2 DEF IsMap, Insert
    <2>4. r \in [DOMAIN r -> Text] /\ DOMAIN r \subseteq Placeholder
      BY <2>2 DEF IsMap, Insert
    <2>5. c \in [Kind -> Nat]
      BY DEF IsMap
    <2>6. QED
      BY <2>1, <2>3, <2>4, <2>5 DEF IsMap
  <1>3. QED
    BY <1>1, <1>2

\* placeholder_for keeps the two tables inverse to each other and the
\* numbering gapless.
LEMMA AfterPlaceholderForConsistent ==
  ASSUME NEW m, IsMap(m), Consistent(m), NEW k \in Kind, NEW t \in Text
  PROVE  Consistent(AfterPlaceholderFor(m, k, t))
  <1>1. CASE Knows(m, k, t)
    BY <1>1 DEF AfterPlaceholderFor
  <1>2. CASE ~ Knows(m, k, t)
    <2> DEFINE w == AfterPlaceholderFor(m, k, t)
               p == Fresh(m, k)
               new == <<k, t>>
    <2>1. /\ w.forward = Insert(m.forward, new, p)
          /\ w.reverse = Insert(m.reverse, p, t)
          /\ w.counters = [m.counters EXCEPT ![k] = @ + 1]
      BY <1>2 DEF AfterPlaceholderFor
    <2>2. p \notin DOMAIN m.reverse /\ \A s \in DOMAIN m.forward : m.forward[s] # p
      BY FreshIsNew DEF Minted
    <2>3. new \notin DOMAIN m.forward
      BY <1>2 DEF Knows
    <2>4. /\ DOMAIN w.forward = DOMAIN m.forward \cup {new}
          /\ w.forward[new] = p
          /\ \A s \in DOMAIN m.forward : w.forward[s] = m.forward[s]
      BY <2>1, <2>3 DEF Insert
    <2>5. /\ DOMAIN w.reverse = DOMAIN m.reverse \cup {p}
          /\ w.reverse[p] = t
          /\ \A q \in DOMAIN m.reverse : w.reverse[q] = m.reverse[q]
      BY <2>1, <2>2 DEF Insert
    <2>6. /\ m.counters \in [Kind -> Nat]
          /\ w.counters[k] = m.counters[k] + 1
          /\ \A j \in Kind \ {k} : w.counters[j] = m.counters[j]
      BY <2>1 DEF IsMap
    <2>7. Invertible(w)
      BY <2>4, <2>5 DEF Consistent, Invertible
    <2>8. Injective(w)
      BY <2>2, <2>4 DEF Consistent, Injective
    <2>9. NoOrphans(w)
      BY <2>4, <2>5 DEF Consistent, NoOrphans
    <2>10. Numbered(w)
      <3>1. ASSUME NEW s \in DOMAIN w.forward
            PROVE  \E n \in 1 .. w.counters[s[1]] : w.forward[s] = Render(s[1], n)
        <4>1. CASE s = new
          BY <4>1, <2>4, <2>6 DEF Fresh
        <4>2. CASE s \in DOMAIN m.forward
          <5>1. s[1] \in Kind
            BY <4>2 DEF IsMap
          <5>2. PICK n \in 1 .. m.counters[s[1]] : m.forward[s] = Render(s[1], n)
            BY <4>2 DEF Consistent, Numbered
          <5>3. n \in 1 .. w.counters[s[1]]
            BY <5>1, <5>2, <2>6
          <5>4. QED
            BY <4>2, <5>2, <5>3, <2>4
        <4>3. QED
          BY <4>1, <4>2, <2>4
      <3>2. ASSUME NEW j \in Kind, NEW n \in 1 .. w.counters[j]
            PROVE  Render(j, n) \in DOMAIN w.reverse
        <4>1. CASE n \in 1 .. m.counters[j]
          BY <4>1, <2>5 DEF Consistent, Numbered
        <4>2. CASE n \notin 1 .. m.counters[j]
          <5>1. j = k /\ n = m.counters[k] + 1
            BY <4>2, <2>6
          <5>2. QED
            BY <5>1, <2>5 DEF Fresh
        <4>3. QED
          BY <4>1, <4>2
      <3>3. QED
        BY <3>1, <3>2 DEF Numbered
    <2>11. QED
      BY <2>7, <2>8, <2>9, <2>10 DEF Consistent
  <1>3. QED
    BY <1>1, <1>2

\* What placeholder_for returns is in the table afterwards, for this secret.
LEMMA PlaceholderForReturns ==
  ASSUME NEW m, IsMap(m), Consistent(m), NEW k \in Kind, NEW t \in Text
  PROVE  /\ PlaceholderFor(m, k, t) \in Placeholder
         /\ PlaceholderFor(m, k, t) \in Minted(AfterPlaceholderFor(m, k, t))
         /\ AfterPlaceholderFor(m, k, t).reverse[PlaceholderFor(m, k, t)] = t
  <1>1. CASE Knows(m, k, t)
    <2>1. /\ PlaceholderFor(m, k, t) = m.forward[<<k, t>>]
          /\ AfterPlaceholderFor(m, k, t) = m
          /\ <<k, t>> \in DOMAIN m.forward
      BY <1>1 DEF PlaceholderFor, AfterPlaceholderFor, Knows
    <2>2. QED
      BY <2>1 DEF Consistent, Invertible, IsMap, Minted
  <1>2. CASE ~ Knows(m, k, t)
    <2>1. /\ PlaceholderFor(m, k, t) = Fresh(m, k)
          /\ AfterPlaceholderFor(m, k, t).reverse = Insert(m.reverse, Fresh(m, k), t)
      BY <1>2 DEF PlaceholderFor, AfterPlaceholderFor
    <2>2. QED
      BY <2>1, FreshIsNew DEF Insert, Minted
  <1>3. QED
    BY <1>1, <1>2

\* placeholder_for adds the secret to the forward table, bound to what it
\* returns, and leaves the other bindings alone.
LEMMA AfterPlaceholderForForward ==
  ASSUME NEW m, NEW k, NEW t
  PROVE  LET after == AfterPlaceholderFor(m, k, t).forward
         IN  /\ DOMAIN after = DOMAIN m.forward \cup {<<k, t>>}
             /\ after[<<k, t>>] = PlaceholderFor(m, k, t)
             /\ \A s \in DOMAIN m.forward : after[s] = m.forward[s]
  BY DEF AfterPlaceholderFor, PlaceholderFor, Insert, Knows

\* placeholder_for never removes or rebinds a placeholder.
LEMMA AfterPlaceholderForKeeps ==
  ASSUME NEW m, IsMap(m), Consistent(m), NEW k \in Kind, NEW t \in Text,
         NEW p \in Minted(m)
  PROVE  /\ p \in Minted(AfterPlaceholderFor(m, k, t))
         /\ AfterPlaceholderFor(m, k, t).reverse[p] = m.reverse[p]
  <1>1. Fresh(m, k) # p
    BY FreshIsNew
  <1>2. QED
    BY <1>1 DEF AfterPlaceholderFor, Insert, Minted

=============================================================================
