------------------------- MODULE RelayForwardProofs -------------------------
(***************************************************************************)
(* Theorems about RelayForward, for any number of concurrent calls, any    *)
(* requests, routes, replies and secrets.                                  *)
(*                                                                         *)
(* A body is redacted in one step, so what leaves is a function of what    *)
(* came (SentFor).  The first half is about that function: the table it    *)
(* uses holds exactly the secrets of the body (Covers), and the words of   *)
(* the result are those of the body, with the table's placeholders in the  *)
(* places of secrets, and perhaps behind the prompt (Rendered).            *)
(*                                                                         *)
(* The second half is the inductive invariant Good(e), which speaks of one *)
(* exchange only, as a step of one leaves the entries of all others alone  *)
(* (OthersKeep).  The table of a call is gone when it is over; what the    *)
(* client has read is therefore compared with the table of its request     *)
(* (TableOf), which does not change.                                       *)
(***************************************************************************)
EXTENDS RelayForward, LibraryProofs

-----------------------------------------------------------------------------
(***************************************************************************)
(* The table that redaction leaves.                                        *)
(***************************************************************************)

Named(text) == <<KindOf[text], text>>

\* A table for the first n of the words: it holds their secrets, no others.
Covers(map, words, n) ==
  /\ IsMap(map) /\ Consistent(map)
  /\ \A j \in 1 .. n : words[j] \in Text => Named(words[j]) \in DOMAIN map.forward
  /\ \A s \in DOMAIN map.forward :
       \E j \in 1 .. n : words[j] \in Text /\ s = Named(words[j])

\* p is the table after each of the first n words.
IsMinting(words, n, p) ==
  /\ p = [j \in 0 .. n |-> p[j]]
  /\ p[0] = EmptyMap
  /\ \A j \in 1 .. n : p[j] = Mint(p[j - 1], words[j])

LEMMA MintingExists ==
  ASSUME NEW words, NEW n \in Nat
  PROVE  \E p : IsMinting(words, n, p)
  <1> DEFINE T == {m \in Nat : \E p : IsMinting(words, m, p)}
  <1>1. 0 \in T
    <2>1. ASSUME NEW p, p = [j \in 0 .. 0 |-> EmptyMap] PROVE IsMinting(words, 0, p)
      BY <2>1 DEF IsMinting
    <2>2. \E p : IsMinting(words, 0, p)
      BY <2>1
    <2> QED
      BY <2>2
  <1>2. ASSUME NEW m \in Nat, m \in T PROVE m + 1 \in T
    <2>1. PICK p : IsMinting(words, m, p)
      BY <1>2
    <2>2. ASSUME NEW x, x = Mint(p[m], words[m + 1]),
                 NEW q, q = [j \in 0 .. m + 1 |-> IF j = m + 1 THEN x ELSE p[j]]
          PROVE  IsMinting(words, m + 1, q)
      <3>1. q = [j \in 0 .. m + 1 |-> q[j]]
        BY ONLY <2>2
      <3>2. q[0] = EmptyMap
        BY ONLY <2>2, <2>1, m \in Nat DEF IsMinting
      <3>3. ASSUME NEW j \in 1 .. m + 1
            PROVE  q[j] = Mint(q[j - 1], words[j])
        <4>1. CASE j = m + 1
          <5>1. q[j] = x /\ q[j - 1] = p[m]
            BY ONLY <2>2, <4>1, m \in Nat
          <5> QED
            BY ONLY <4>1, <5>1, <2>2
        <4>2. CASE j # m + 1
          <5>1. q[j] = p[j] /\ q[j - 1] = p[j - 1] /\ j \in 1 .. m
            BY ONLY <2>2, <4>2, m \in Nat, j \in 1 .. m + 1
          <5> QED
            BY ONLY <2>1, <5>1 DEF IsMinting
        <4> QED
          BY <4>1, <4>2
      <3> QED
        BY <3>1, <3>2, <3>3 DEF IsMinting
    <2>3. \E q : IsMinting(words, m + 1, q)
      BY <2>2
    <2> QED
      BY <2>3
  <1> HIDE DEF T
  <1>3. n \in T
    BY <1>1, <1>2, Induction
  <1> QED
    BY <1>3 DEF T

LEMMA KindOfText == ASSUME NEW t \in Text PROVE KindOf[t] \in Kind
  BY KindOfAssumption

\* One word more.
LEMMA MintCovers ==
  ASSUME NEW words, NEW n \in Nat, NEW map, Covers(map, words, n),
         NEW next, next = Mint(map, words[n + 1])
  PROVE  Covers(next, words, n + 1)
  <1>1. \A j : j \in 1 .. n + 1 <=> j \in 1 .. n \/ j = n + 1
    OBVIOUS
  <1>2. CASE words[n + 1] \notin Text
    <2>1. next = map
      BY <1>2 DEF Mint
    <2> QED
      BY <1>1, <1>2, <2>1 DEF Covers
  <1>3. CASE words[n + 1] \in Text
    <2>1. KindOf[words[n + 1]] \in Kind
      BY <1>3, KindOfText
    <2>2. next = AfterPlaceholderFor(map, KindOf[words[n + 1]], words[n + 1])
      BY <1>3 DEF Mint
    <2>3. IsMap(map) /\ Consistent(map)
      BY DEF Covers
    <2>4. IsMap(next) /\ Consistent(next)
      BY <1>3, <2>1, <2>2, <2>3, AfterPlaceholderForIsMap, AfterPlaceholderForConsistent
    <2>5. DOMAIN next.forward = DOMAIN map.forward \cup {Named(words[n + 1])}
      <3> DEFINE t == words[n + 1]
                 k == KindOf[t]
                 after == AfterPlaceholderFor(map, k, t)
      <3>1. /\ DOMAIN after.forward = DOMAIN map.forward \cup {<<k, t>>}
            /\ after.forward[<<k, t>>] = PlaceholderFor(map, k, t)
            /\ \A s \in DOMAIN map.forward : after.forward[s] = map.forward[s]
        BY AfterPlaceholderForForward
      <3> QED
        BY <2>2, <3>1 DEF Named
    <2> QED
      BY <1>1, <1>3, <2>4, <2>5 DEF Covers
  <1> QED
    BY <1>2, <1>3

LEMMA MintingCovers ==
  ASSUME NEW words, NEW n \in Nat, NEW p, IsMinting(words, n, p)
  PROVE  Covers(p[n], words, n)
  <1> DEFINE T == {m \in Nat : m <= n => Covers(p[m], words, m)}
  <1>1. 0 \in T
    <2>1. Covers(EmptyMap, words, 0)
      BY EmptyMapOK DEF Covers, EmptyMap
    <2> QED
      BY <2>1 DEF IsMinting
  <1>2. ASSUME NEW m \in Nat, m \in T PROVE m + 1 \in T
    <2>1. SUFFICES ASSUME m + 1 <= n PROVE Covers(p[m + 1], words, m + 1)
      OBVIOUS
    <2>2. Covers(p[m], words, m) /\ m + 1 \in 1 .. n /\ (m + 1) - 1 = m
      BY <1>2, <2>1
    <2>3. p[m + 1] = Mint(p[m], words[m + 1])
      BY <2>2 DEF IsMinting
    <2> QED
      BY <2>2, <2>3, MintCovers
  <1> HIDE DEF T
  <1>3. n \in T
    BY <1>1, <1>2, Induction
  <1> QED
    BY <1>3 DEF T

LEMMA MintedForCovers ==
  ASSUME NEW body, NEW words, words = Words(body), Len(words) \in Nat
  PROVE  Covers(MintedFor(body), words, Len(words))
  <1> DEFINE Body(f) == [n \in 0 .. Len(words) |->
                           IF n = 0 THEN EmptyMap ELSE Mint(f[n - 1], words[n])]
             m == CHOOSE f : f = Body(f)
  <1>1. PICK p : IsMinting(words, Len(words), p)
    BY MintingExists
  <1>2. p = Body(p)
    <2>1. \A n \in 0 .. Len(words) : p[n] = Body(p)[n]
      <3>1. ASSUME NEW n \in 0 .. Len(words) PROVE p[n] = Body(p)[n]
        <4>1. Body(p)[n] = IF n = 0 THEN EmptyMap ELSE Mint(p[n - 1], words[n])
          OBVIOUS
        <4>2. n = 0 \/ n \in 1 .. Len(words)
          OBVIOUS
        <4> QED
          BY <1>1, <4>1, <4>2 DEF IsMinting
      <3> QED
        BY <3>1
    <2>2. p = [n \in 0 .. Len(words) |-> p[n]]
      BY <1>1 DEF IsMinting
    <2> QED
      BY <2>1, <2>2
  <1>3. m = Body(m)
    BY <1>2
  <1>4. ASSUME NEW f, f = Body(f)
        PROVE  IsMinting(words, Len(words), f)
    <2>1. f[0] = EmptyMap /\ \A n \in 1 .. Len(words) : f[n] = Mint(f[n - 1], words[n])
      BY <1>4
    <2>2. f = [n \in 0 .. Len(words) |-> f[n]]
      BY <1>4
    <2> QED
      BY <2>1, <2>2 DEF IsMinting
  <1>5. MintedFor(body) = m[Len(words)]
    BY DEF MintedFor
  <1> HIDE DEF m
  <1> QED
    BY <1>3, <1>4, <1>5, MintingCovers

-----------------------------------------------------------------------------
(***************************************************************************)
(* What becomes of the words of a body.                                    *)
(***************************************************************************)
Element == [role : STRING, plain : BOOLEAN, text : Seq(Word)]
Field == [tag : {"absent", "null", "string", "array", "other"}, text : Seq(Word), items : Seq(Element)]
Body == [utf8 : BOOLEAN, object : BOOLEAN, field : Field, bare : Seq(Word), rest : Seq(Word)]

IsTable(map) == IsMap(map) /\ Consistent(map)

Replaced(map, token) ==
  IF token \in Text THEN PlaceholderFor(map, KindOf[token], token) ELSE token

LEMMA ReplacedType ==
  ASSUME NEW map, IsTable(map), NEW token \in Word
  PROVE  Replaced(map, token) \in Plain \cup Placeholder
  BY KindOfText, PlaceholderForReturns DEF Replaced, IsTable, Word

\* new is what redaction makes of a text, word by word.
Turned(map, text, new) ==
  /\ text \in Seq(Word) /\ new \in Seq(Word) /\ Len(new) = Len(text)
  /\ \A i \in 1 .. Len(text) : new[i] = Replaced(map, text[i])

\* out is a text with the prompt in front.
Led(out, text) ==
  /\ text \in Seq(Word) /\ out \in Seq(Token) /\ Len(out) = Len(text) + 1
  /\ out[1] = Preamble
  /\ \A i \in 1 .. Len(text) : out[i + 1] = text[i]

LEMMA SubstitutedTurns ==
  ASSUME NEW map, IsTable(map), NEW text \in Seq(Word)
  PROVE  Turned(map, text, Substituted(map, text))
  <1>1. Substituted(map, text) = [i \in 1 .. Len(text) |-> Replaced(map, text[i])]
    BY DEF Substituted, Replaced
  <1>2. Len(text) \in Nat /\ \A i \in 1 .. Len(text) : text[i] \in Word
    OBVIOUS
  <1>3. [i \in 1 .. Len(text) |-> Replaced(map, text[i])] \in [1 .. Len(text) -> Word]
    BY <1>2, ReplacedType DEF Word
  <1> QED
    BY <1>1, <1>2, <1>3, FunctionIsSequence DEF Turned

LEMMA Joined ==
  ASSUME NEW S, NEW s \in Seq(S), NEW t \in Seq(S), NEW st, st = s \o t
  PROVE  /\ st \in Seq(S) /\ Len(st) = Len(s) + Len(t)
         /\ \A i \in 1 .. Len(s) : st[i] = s[i]
         /\ \A i \in 1 .. Len(t) : st[i + Len(s)] = t[i]
  OBVIOUS

\* A position of a concatenation is one of either part.
LEMMA Either ==
  ASSUME NEW a \in Nat, NEW b \in Nat, NEW i \in 1 .. a + b
  PROVE  i \in 1 .. a \/ \E j \in 1 .. b : i = j + a
  <1>1. CASE i > a
    <2>1. i - a \in 1 .. b /\ i = (i - a) + a
      BY <1>1
    <2> QED
      BY <2>1
  <1> QED
    BY <1>1

LEMMA TurnedJoins ==
  ASSUME NEW map, NEW s, NEW b, Turned(map, s, b), NEW t, NEW c, Turned(map, t, c),
         NEW st, st = s \o t, NEW bc, bc = b \o c
  PROVE  Turned(map, st, bc)
  <1>1. /\ s \in Seq(Word) /\ t \in Seq(Word) /\ b \in Seq(Word) /\ c \in Seq(Word)
        /\ Len(b) = Len(s) /\ Len(c) = Len(t) /\ Len(s) \in Nat /\ Len(t) \in Nat
    BY DEF Turned
  <1>2. /\ st \in Seq(Word) /\ Len(st) = Len(s) + Len(t)
        /\ \A i \in 1 .. Len(s) : st[i] = s[i]
        /\ \A i \in 1 .. Len(t) : st[i + Len(s)] = t[i]
    BY <1>1, Joined
  <1>3. /\ bc \in Seq(Word) /\ Len(bc) = Len(s) + Len(t)
        /\ \A i \in 1 .. Len(s) : bc[i] = b[i]
        /\ \A i \in 1 .. Len(t) : bc[i + Len(s)] = c[i]
    <2>1. /\ bc \in Seq(Word) /\ Len(bc) = Len(b) + Len(c)
          /\ \A i \in 1 .. Len(b) : bc[i] = b[i]
          /\ \A i \in 1 .. Len(c) : bc[i + Len(b)] = c[i]
      <3>1. b \in Seq(Word) /\ c \in Seq(Word)
        BY <1>1
      <3>2. bc = b \o c
        OBVIOUS
      <3> QED
        BY ONLY <3>1, <3>2, Joined
    <2> QED
      BY ONLY <1>1, <2>1
  <1>4. ASSUME NEW i \in 1 .. Len(st) PROVE bc[i] = Replaced(map, st[i])
    <2>1. i \in 1 .. Len(s) \/ \E j \in 1 .. Len(t) : i = j + Len(s)
      <3>1. Len(s) \in Nat /\ Len(t) \in Nat /\ i \in 1 .. Len(s) + Len(t)
        BY ONLY <1>1, <1>2, i \in 1 .. Len(st)
      <3> QED
        BY ONLY <3>1, Either
    <2>2. CASE i \in 1 .. Len(s)
      <3>1. bc[i] = b[i] /\ st[i] = s[i]
        BY ONLY <1>2, <1>3, <2>2
      <3> QED
        BY <2>2, <3>1 DEF Turned
    <2>3. ASSUME NEW j \in 1 .. Len(t), i = j + Len(s) PROVE bc[i] = Replaced(map, st[i])
      <3>1. bc[i] = c[j] /\ st[i] = t[j]
        BY ONLY <1>2, <1>3, <2>3
      <3> QED
        BY <3>1 DEF Turned
    <2> QED
      BY <2>1, <2>2, <2>3
  <1>5. Len(bc) = Len(st)
    BY ONLY <1>2, <1>3
  <1> QED
    BY ONLY <1>2, <1>3, <1>4, <1>5 DEF Turned

LEMMA FlattenTurned ==
  ASSUME NEW map, NEW n \in Nat, NEW P, NEW Q, \A i \in 1 .. n : Turned(map, P[i], Q[i])
  PROVE  Turned(map, Upto(P, n), Upto(Q, n))
  <1> DEFINE T == {j \in Nat : j <= n => Turned(map, Upto(P, j), Upto(Q, j))}
  <1>1. 0 \in T
    <2>1. Upto(Q, 0) = << >> /\ Upto(P, 0) = << >>
      BY UptoNone
    <2>2. Turned(map, << >>, << >>)
      BY DEF Turned
    <2> QED
      BY <2>1, <2>2
  <1>2. ASSUME NEW j \in Nat, j \in T PROVE j + 1 \in T
    <2>1. SUFFICES ASSUME j + 1 <= n PROVE Turned(map, Upto(P, j + 1), Upto(Q, j + 1))
      OBVIOUS
    <2>2. /\ \A i \in 1 .. j + 1 : P[i] \in Seq(Word) /\ Q[i] \in Seq(Word)
          /\ Turned(map, P[j + 1], Q[j + 1])
      BY <2>1 DEF Turned
    <2>3. Upto(P, j + 1) = Upto(P, j) \o P[j + 1] /\ Upto(Q, j + 1) = Upto(Q, j) \o Q[j + 1]
      BY <2>2, UptoStep
    <2>4. Turned(map, Upto(P, j), Upto(Q, j))
      BY <1>2, <2>1
    <2> QED
      BY <2>2, <2>3, <2>4, TurnedJoins
  <1> HIDE DEF T
  <1>3. n \in T
    BY <1>1, <1>2, Induction
  <1> QED
    BY <1>3 DEF T

LEMMA LedJoins ==
  ASSUME NEW b, NEW s, Led(b, s), NEW t \in Seq(Word), NEW st, st = s \o t, NEW bt, bt = b \o t
  PROVE  Led(bt, st)
  <1>1. /\ s \in Seq(Word) /\ b \in Seq(Token) /\ t \in Seq(Token)
        /\ Len(b) = Len(s) + 1 /\ Len(s) \in Nat /\ Len(t) \in Nat
    BY DEF Led, Token
  <1>2. /\ st \in Seq(Word) /\ Len(st) = Len(s) + Len(t)
        /\ \A i \in 1 .. Len(s) : st[i] = s[i]
        /\ \A i \in 1 .. Len(t) : st[i + Len(s)] = t[i]
    BY <1>1, Joined
  <1>3. /\ bt \in Seq(Token) /\ Len(bt) = Len(b) + Len(t)
        /\ \A i \in 1 .. Len(b) : bt[i] = b[i]
        /\ \A i \in 1 .. Len(t) : bt[i + Len(b)] = t[i]
    <2>1. b \in Seq(Token) /\ t \in Seq(Token)
      BY <1>1
    <2>2. bt = b \o t
      OBVIOUS
    <2> QED
      BY ONLY <2>1, <2>2, Joined
  <1>4. ASSUME NEW i \in 1 .. Len(st) PROVE bt[i + 1] = st[i]
    <2>1. i \in 1 .. Len(s) \/ \E j \in 1 .. Len(t) : i = j + Len(s)
      <3>1. Len(s) \in Nat /\ Len(t) \in Nat /\ i \in 1 .. Len(s) + Len(t)
        BY ONLY <1>1, <1>2, i \in 1 .. Len(st)
      <3> QED
        BY ONLY <3>1, Either
    <2>2. CASE i \in 1 .. Len(s)
      <3>1. bt[i + 1] = b[i + 1] /\ st[i] = s[i]
        BY ONLY <1>1, <1>2, <1>3, <2>2
      <3> QED
        BY <2>2, <3>1 DEF Led
    <2>3. ASSUME NEW j \in 1 .. Len(t), i = j + Len(s) PROVE bt[i + 1] = st[i]
      <3>1. i + 1 = j + Len(b)
        BY ONLY <1>1, <2>3
      <3> QED
        BY ONLY <1>2, <1>3, <2>3, <3>1
    <2> QED
      BY <2>1, <2>2, <2>3
  <1>5. bt[1] = Preamble
    <2>1. b[1] = Preamble /\ 1 \in 1 .. Len(b)
      BY <1>1 DEF Led
    <2> QED
      BY ONLY <1>3, <2>1
  <1>6. Len(bt) = Len(st) + 1
    BY ONLY <1>1, <1>2, <1>3
  <1> QED
    BY ONLY <1>2, <1>3, <1>4, <1>5, <1>6 DEF Led

LEMMA LedAlone ==
  ASSUME NEW t \in Seq(Word), NEW bt, bt = Prepended(t)
  PROVE  Led(bt, t)
  <1>1. ASSUME NEW b, b = <<Preamble>>, NEW s, s = << >> PROVE Led(b, s)
    BY <1>1 DEF Led, Token
  <1>2. t = << >> \o t /\ bt = <<Preamble>> \o t
    BY DEF Prepended
  <1> QED
    BY <1>1, <1>2, LedJoins

LEMMA PreambleType == <<Preamble>> \in Seq(Token) /\ Seq(Word) \subseteq Seq(Token)
  BY DEF Token

LEMMA UptoOne ==
  ASSUME NEW P, P[1] \in Seq(Token)
  PROVE  Upto(P, 1) = P[1]
  <1>1. \A i \in 1 .. 0 + 1 : P[i] \in Seq(Token)
    OBVIOUS
  <1>2. Upto(P, 0 + 1) = Upto(P, 0) \o P[0 + 1]
    BY <1>1, UptoStep
  <1>3. Upto(P, 0) = << >>
    BY UptoNone
  <1>4. \A s \in Seq(Token) : << >> \o s = s
    OBVIOUS
  <1> QED
    BY <1>2, <1>3, <1>4

\* Behind the first k texts of Q come those behind the first a of P.
Continues(Q, k, P, a, n) == \A i \in 1 .. n : Q[k + i] = P[a + i]

\* Texts that follow stay behind the prompt.
LEMMA FlattenLed ==
  ASSUME NEW P, NEW a \in Nat, NEW Q, NEW k \in Nat, NEW n \in Nat,
         Led(Upto(Q, k), Upto(P, a)), Continues(Q, k, P, a, n),
         NEW x, x = k + n, NEW y, y = a + n,
         \A i \in 1 .. y : P[i] \in Seq(Word), \A i \in 1 .. x : Q[i] \in Seq(Token)
  PROVE  Led(Upto(Q, x), Upto(P, y))
  <1> DEFINE T == {j \in Nat : j <= n => Led(Upto(Q, k + j), Upto(P, a + j))}
  <1>1. 0 \in T
    OBVIOUS
  <1>2. ASSUME NEW j \in Nat, j \in T PROVE j + 1 \in T
    <2>1. SUFFICES ASSUME j + 1 <= n PROVE Led(Upto(Q, k + (j + 1)), Upto(P, a + (j + 1)))
      OBVIOUS
    <2>2. /\ a + (j + 1) = (a + j) + 1 /\ k + (j + 1) = (k + j) + 1
          /\ a + j \in Nat /\ k + j \in Nat /\ j + 1 \in 1 .. n
          /\ \A i \in 1 .. (a + j) + 1 : i \in 1 .. y
          /\ \A i \in 1 .. (k + j) + 1 : i \in 1 .. x
          /\ (a + j) + 1 \in 1 .. y
      BY <2>1
    <2>3. Upto(P, (a + j) + 1) = Upto(P, a + j) \o P[(a + j) + 1]
      BY <2>2, UptoStep
    <2>4. Upto(Q, (k + j) + 1) = Upto(Q, k + j) \o Q[(k + j) + 1]
      BY <2>2, UptoStep
    <2>5. Q[(k + j) + 1] = P[(a + j) + 1] /\ P[(a + j) + 1] \in Seq(Word)
      <3>1. Q[k + (j + 1)] = P[a + (j + 1)]
        BY <2>2 DEF Continues
      <3> QED
        BY <2>2, <3>1
    <2>6. Led(Upto(Q, k + j), Upto(P, a + j))
      BY <1>2, <2>1
    <2>7. Led(Upto(Q, (k + j) + 1), Upto(P, (a + j) + 1))
      BY <2>3, <2>4, <2>5, <2>6, LedJoins
    <2> QED
      BY <2>2, <2>7
  <1> HIDE DEF T
  <1>3. n \in T
    BY <1>1, <1>2, Induction
  <1> QED
    BY <1>3 DEF T

-----------------------------------------------------------------------------
(***************************************************************************)
(* What redaction and the prompt make of a body.                           *)
(***************************************************************************)
Texts(items) == [i \in 1 .. Len(items) |-> items[i].text]

LEMMA FieldTextIs ==
  ASSUME NEW field
  PROVE  FieldText(field) = field.text \o Upto(Texts(field.items), Len(field.items))
  <1>1. Texts(field.items) = [i \in 1 .. Len(field.items) |-> Texts(field.items)[i]]
    BY DEF Texts
  <1>2. Upto(Texts(field.items), Len(field.items)) = FlattenSeq(Texts(field.items))
    BY <1>1 DEF Upto
  <1> QED
    BY <1>2 DEF FieldText, Texts

LEMMA TextsType ==
  ASSUME NEW items \in Seq(Element)
  PROVE  /\ Len(items) \in Nat
         /\ \A i \in 1 .. Len(items) :
              /\ items[i] \in Element /\ items[i].text \in Seq(Word)
              /\ Texts(items)[i] = items[i].text
  <1>1. \A i \in 1 .. Len(items) : items[i] \in Element
    OBVIOUS
  <1> QED
    BY <1>1 DEF Texts, Element

LEMMA WordsType ==
  ASSUME NEW body \in Body
  PROVE  Words(body) \in Seq(Word) /\ FieldText(body.field) \in Seq(Word)
  <1>1. /\ body.field \in Field /\ body.bare \in Seq(Word) /\ body.rest \in Seq(Word)
        /\ body.field.text \in Seq(Word) /\ body.field.items \in Seq(Element)
        /\ Len(body.field.items) \in Nat
    BY DEF Body, Field
  <1>2. \A i \in 1 .. Len(body.field.items) : Texts(body.field.items)[i] \in Seq(Word)
    BY <1>1, TextsType
  <1>3. Upto(Texts(body.field.items), Len(body.field.items)) \in Seq(Word)
    BY <1>1, <1>2, FrontIsSequence
  <1>4. FieldText(body.field) \in Seq(Word)
    <2>1. body.field.text \o Upto(Texts(body.field.items), Len(body.field.items)) \in Seq(Word)
      BY <1>1, <1>3, Joined
    <2> QED
      BY <2>1, FieldTextIs
  <1> QED
    BY <1>1, <1>4 DEF Words

\* Redaction turns the words of a body and leaves its form alone.
LEMMA RedactBodyTurns ==
  ASSUME NEW body \in Body, NEW map, map = MintedFor(body), NEW new, new = RedactBody(body)
  PROVE  /\ Covers(map, Words(body), Len(Words(body)))
         /\ Turned(map, Words(body), Words(new))
         /\ new \in Body /\ new.utf8 = body.utf8 /\ new.field.tag = body.field.tag
         /\ IsField(body.field) => IsField(new.field)
         /\ new.object <=> body.object /\ \A i \in 1 .. Len(body.bare) : body.bare[i] \notin Text
  <1>1. Covers(map, Words(body), Len(Words(body)))
    <2>1. Len(Words(body)) \in Nat
      BY WordsType
    <2> QED
      BY <2>1, MintedForCovers
  <1>2. IsTable(map)
    BY <1>1 DEF Covers, IsTable
  <1> DEFINE items == [i \in 1 .. Len(body.field.items) |->
                         [body.field.items[i] EXCEPT !.text = Substituted(map, @)]]
             field == [body.field EXCEPT !.text = Substituted(map, @), !.items = items]
  <1>3. /\ body.field \in Field /\ body.bare \in Seq(Word) /\ body.rest \in Seq(Word)
        /\ body.field.text \in Seq(Word) /\ body.field.items \in Seq(Element)
        /\ Len(body.field.items) \in Nat
        /\ \A i \in 1 .. Len(body.field.items) :
             body.field.items[i] \in Element /\ body.field.items[i].text \in Seq(Word)
    BY TextsType DEF Body, Field
  <1>4. \A t \in Seq(Word) : Turned(map, t, Substituted(map, t)) /\ Substituted(map, t) \in Seq(Word)
    BY <1>2, SubstitutedTurns DEF Turned
  <1>5. /\ new.utf8 = body.utf8 /\ new.object \in BOOLEAN /\ new.field = field
        /\ new.bare = Substituted(map, body.bare) /\ new.rest = Substituted(map, body.rest)
        /\ new = [utf8 |-> new.utf8, object |-> new.object, field |-> new.field,
                  bare |-> new.bare, rest |-> new.rest]
    BY DEF RedactBody, Body
  <1>6. items \in Seq(Element) /\ Len(items) = Len(body.field.items)
    <2>1. \A i \in 1 .. Len(body.field.items) :
            [body.field.items[i] EXCEPT !.text = Substituted(map, @)] \in Element
      BY <1>3, <1>4 DEF Element
    <2>2. items \in [1 .. Len(body.field.items) -> Element]
      BY <2>1
    <2> QED
      BY <1>3, <2>2, FunctionIsSequence
  <1>7. /\ field.tag = body.field.tag /\ field.text = Substituted(map, body.field.text)
        /\ field.items = items /\ field \in Field
    BY <1>3, <1>4, <1>6 DEF Field
  <1>8. \A i \in 1 .. Len(items) :
          Texts(items)[i] = Substituted(map, Texts(body.field.items)[i])
    BY <1>3, <1>6 DEF Texts, Element
  <1>9. \A i \in 1 .. Len(items) : Turned(map, Texts(body.field.items)[i], Texts(items)[i])
    BY <1>3, <1>4, <1>6, <1>8 DEF Texts
  <1> HIDE DEF items
  <1>10. Turned(map, FieldText(body.field), FieldText(field))
    <2>1. Turned(map, Upto(Texts(body.field.items), Len(items)), Upto(Texts(items), Len(items)))
      BY <1>3, <1>6, <1>9, FlattenTurned
    <2>2. Turned(map, body.field.text, field.text)
      BY <1>3, <1>4, <1>7
    <2>3. /\ FieldText(body.field)
               = body.field.text \o Upto(Texts(body.field.items), Len(items))
          /\ FieldText(field) = field.text \o Upto(Texts(items), Len(items))
      BY <1>6, <1>7, FieldTextIs
    <2> QED
      BY <2>1, <2>2, <2>3, TurnedJoins
  <1> HIDE DEF field
  <1>11. Turned(map, Words(body), Words(new))
    <2>1. new.field = field /\ new.bare = Substituted(map, body.bare)
          /\ new.rest = Substituted(map, body.rest)
      BY <1>5
    <2>2. Turned(map, body.bare, new.bare) /\ Turned(map, body.rest, new.rest)
      BY <1>3, <1>4, <2>1
    <2>3. ASSUME NEW a, a = FieldText(body.field), NEW b, b = FieldText(field),
                 NEW ab, ab = a \o body.bare, NEW bb, bb = b \o new.bare
          PROVE  Turned(map, ab \o body.rest, bb \o new.rest)
      <3>1. Turned(map, ab, bb)
        BY <1>10, <2>2, <2>3, TurnedJoins
      <3> QED
        BY <2>2, <3>1, TurnedJoins
    <2> QED
      BY <2>1, <2>3 DEF Words
  <1>12. new \in Body
    <2>1. body.utf8 \in BOOLEAN
      BY DEF Body
    <2>2. /\ new.utf8 \in BOOLEAN /\ new.object \in BOOLEAN /\ new.field \in Field
          /\ new.bare \in Seq(Word) /\ new.rest \in Seq(Word)
          /\ new = [utf8 |-> new.utf8, object |-> new.object, field |-> new.field,
                    bare |-> new.bare, rest |-> new.rest]
      BY <1>3, <1>4, <1>5, <1>7, <2>1
    <2> QED
      BY ONLY <2>2 DEF Body
  <1>13. IsField(body.field) => IsField(new.field)
    <2>1. ASSUME NEW t \in Seq(Word), t = << >> PROVE Substituted(map, t) = << >>
      <3>1. Len(Substituted(map, t)) = 0 /\ Substituted(map, t) \in Seq(Word)
        BY <1>4, <2>1 DEF Turned
      <3> QED
        BY <3>1, EmptySeq
    <2>2. body.field.items = << >> => items = << >>
      BY <1>6, EmptySeq
    <2>3. new.field = field
      BY <1>5
    <2> QED
      BY <1>3, <1>7, <2>1, <2>2, <2>3 DEF IsField
  <1>14. new.object <=> body.object /\ \A i \in 1 .. Len(body.bare) : body.bare[i] \notin Text
    BY DEF RedactBody, Body
  <1> QED
    BY <1>1, <1>5, <1>7, <1>11, <1>12, <1>13, <1>14

\* The type of the field stays, but for one that is created.
TagKept(had, has) == had = has \/ (had \in {"absent", "null"} /\ has = "string")

\* A field whose value is a string, or none.
LEMMA StringLeads ==
  ASSUME NEW field \in Field, field.items = << >>, NEW new, new = Str(Prepended(field.text))
  PROVE  Led(FieldText(new), FieldText(field))
  <1>1. field.text \in Seq(Word) /\ Len(field.items) = 0
    BY DEF Field
  <1>2. new.text = Prepended(field.text) /\ new.items = << >> /\ Len(new.items) = 0
    BY DEF Str
  <1>3. FieldText(field) = field.text \o << >> /\ FieldText(new) = new.text \o << >>
    <2>1. \A items : Len(items) = 0 => Upto(Texts(items), Len(items)) = << >>
      BY UptoNone
    <2> QED
      BY <1>1, <1>2, <2>1, FieldTextIs
  <1>4. Led(new.text, field.text)
    BY <1>1, <1>2, LedAlone
  <1>5. << >> \in Seq(Word)
    OBVIOUS
  <1> QED
    BY <1>3, <1>4, <1>5, LedJoins

\* A list of texts behind the prompt; behind << >>, the other text of the field.
LEMMA ArrayText ==
  ASSUME NEW field, field.text = << >>, NEW n, n = Len(field.items),
         Upto(Texts(field.items), n) \in Seq(Token)
  PROVE  FieldText(field) = Upto(Texts(field.items), n)
  <1>1. FieldText(field) = << >> \o Upto(Texts(field.items), n)
    BY FieldTextIs
  <1>2. \A s \in Seq(Token) : << >> \o s = s
    OBVIOUS
  <1> QED
    BY <1>1, <1>2

\* The prompt is an element of its own.
LEMMA ElementLeads ==
  ASSUME NEW field \in Field, field.text = << >>,
         NEW first, first.text = <<Preamble>>, NEW new, new = Arr(<<first>> \o field.items)
  PROVE  Led(FieldText(new), FieldText(field))
  <1>1. field.items \in Seq(Element)
    BY DEF Field
  <1> DEFINE P == Texts(field.items)
             n == Len(field.items)
             Q == Texts(new.items)
  <1>2. n \in Nat /\ \A i \in 1 .. n : P[i] = field.items[i].text /\ P[i] \in Seq(Word)
    BY <1>1, TextsType
  <1>3. /\ new.text = << >> /\ Len(new.items) = n + 1 /\ new.items[1] = first
        /\ \A i \in 1 .. n : new.items[i + 1] = field.items[i]
    <2>1. ASSUME NEW items \in Seq(Element), NEW l, l = <<first>> \o items
          PROVE  /\ Len(l) = Len(items) + 1 /\ l[1] = first
                 /\ \A i \in 1 .. Len(items) : l[i + 1] = items[i]
      BY <2>1
    <2>2. new.text = << >> /\ new.items = <<first>> \o field.items
      BY DEF Arr
    <2> QED
      BY <1>1, <2>1, <2>2
  <1>4. Q[1] = <<Preamble>> /\ \A i \in 1 .. n : Q[i + 1] = P[i]
    <2>1. \A i \in 1 .. n + 1 : Q[i] = new.items[i].text
      BY <1>3 DEF Texts
    <2>2. 1 \in 1 .. n + 1 /\ \A i \in 1 .. n : i + 1 \in 1 .. n + 1
      BY <1>2
    <2> QED
      BY <1>2, <1>3, <2>1, <2>2
  <1> HIDE DEF P, Q, n
  <1>5. ASSUME NEW x, x = n + 1, NEW i \in 1 .. x PROVE Q[i] \in Seq(Token)
    <2>1. CASE i = 1
      BY <1>4, <2>1, PreambleType
    <2>2. CASE i # 1
      <3>1. i - 1 \in 1 .. n /\ (i - 1) + 1 = i
        BY <1>2, <1>5, <2>2
      <3>2. Q[i] = P[i - 1]
        BY <1>4, <3>1
      <3> QED
        BY <1>2, <3>1, <3>2, PreambleType
    <2> QED
      BY <2>1, <2>2
  <1>6. Led(Upto(Q, 1), Upto(P, 0))
    <2>1. Upto(P, 0) = << >> /\ Upto(Q, 1) = <<Preamble>>
      BY <1>4, UptoNone, UptoOne, PreambleType
    <2>2. Led(<<Preamble>>, << >>)
      BY PreambleType DEF Led
    <2> QED
      BY <2>1, <2>2
  <1>7. Continues(Q, 1, P, 0, n)
    <2>1. \A i \in 1 .. n : 1 + i = i + 1 /\ 0 + i = i
      BY <1>2
    <2> QED
      BY <1>4, <2>1 DEF Continues
  <1>8. ASSUME NEW x, x = n + 1
        PROVE  Led(Upto(Q, x), Upto(P, n))
    <2>1. x = 1 + n /\ n = 0 + n
      BY <1>2, <1>8
    <2>2. \A i \in 1 .. x : Q[i] \in Seq(Token)
      BY <1>5, <1>8
    <2>3. \A i \in 1 .. n : P[i] \in Seq(Word)
      BY <1>2
    <2> QED
      BY ONLY <1>2, <1>6, <1>7, <2>1, <2>2, <2>3, FlattenLed, 0 \in Nat, 1 \in Nat
  <1>9. Upto(Q, n + 1) \in Seq(Token) /\ Upto(P, n) \in Seq(Token)
    BY <1>8, PreambleType DEF Led
  <1>10. FieldText(field) = Upto(P, n) /\ FieldText(new) = Upto(Q, n + 1)
    BY <1>3, <1>9, ArrayText DEF P, Q, n
  <1> QED
    BY <1>8, <1>10

\* The prompt is merged into the first element.
LEMMA MergedLeads ==
  ASSUME NEW field \in Field, field.text = << >>, Mergeable(field.items),
         NEW new, new = Arr([field.items EXCEPT ![1].text = Prepended(@)])
  PROVE  Led(FieldText(new), FieldText(field))
  <1>1. field.items \in Seq(Element) /\ field.items # << >>
    BY DEF Field, Mergeable
  <1> DEFINE P == Texts(field.items)
             n == Len(field.items)
             Q == Texts(new.items)
  <1>2. n \in Nat /\ \A i \in 1 .. n : P[i] = field.items[i].text /\ P[i] \in Seq(Word)
    BY <1>1, TextsType
  <1>3. n >= 1 /\ field.items[1] \in Element
    BY <1>1, EmptySeq
  <1>4. /\ new.text = << >> /\ Len(new.items) = n
        /\ new.items[1].text = Prepended(P[1])
        /\ \A i \in 2 .. n : new.items[i] = field.items[i]
    <2>1. ASSUME NEW items \in Seq(Element), Len(items) >= 1, items[1] \in Element,
                 NEW l, l = [items EXCEPT ![1].text = Prepended(@)]
          PROVE  /\ Len(l) = Len(items) /\ l[1].text = Prepended(items[1].text)
                 /\ \A i \in 2 .. Len(items) : l[i] = items[i]
      BY <2>1 DEF Element
    <2>2. new.text = << >> /\ new.items = [field.items EXCEPT ![1].text = Prepended(@)]
      BY DEF Arr
    <2>3. P[1] = field.items[1].text
      BY <1>2, <1>3
    <2> QED
      BY <1>1, <1>3, <2>1, <2>2, <2>3
  <1>5. /\ Q[1] = Prepended(P[1])
        /\ \A i \in 2 .. n : Q[i] = P[i]
    <2>1. \A i \in 1 .. n : Q[i] = new.items[i].text
      BY <1>4 DEF Texts
    <2>2. Q[1] = Prepended(P[1])
      <3>1. 1 \in 1 .. n
        BY <1>2, <1>3
      <3> QED
        BY <1>4, <2>1, <3>1
    <2>3. ASSUME NEW i \in 2 .. n PROVE Q[i] = P[i]
      <3>1. i \in 1 .. n
        BY <1>2
      <3>2. Q[i] = new.items[i].text /\ P[i] = field.items[i].text
        BY <1>2, <2>1, <3>1
      <3> QED
        BY <1>4, <3>2
    <2> QED
      BY <2>2, <2>3
  <1> HIDE DEF P, Q, n
  <1>6. Led(Q[1], P[1])
    BY <1>2, <1>3, <1>5, LedAlone
  <1>7. \A i \in 1 .. n : Q[i] \in Seq(Token)
    <2>1. ASSUME NEW i \in 1 .. n PROVE Q[i] \in Seq(Token)
      <3>1. CASE i = 1
        BY <1>6, <3>1 DEF Led
      <3>2. CASE i # 1
        BY <1>2, <1>5, <3>2 DEF Token
      <3> QED
        BY <3>1, <3>2
    <2> QED
      BY <2>1
  <1>8. Led(Upto(Q, 1), Upto(P, 1))
    <2>1. Q[1] \in Seq(Token) /\ P[1] \in Seq(Token)
      BY <1>6, PreambleType DEF Led
    <2> QED
      BY <1>6, <2>1, UptoOne
  <1>9. ASSUME NEW m, m = n - 1 PROVE m \in Nat /\ n = 1 + m /\ Continues(Q, 1, P, 1, m)
    <2>1. m \in Nat /\ n = 1 + m /\ \A i \in 1 .. m : 1 + i \in 2 .. n
      BY <1>2, <1>3, <1>9
    <2> QED
      BY <1>5, <2>1 DEF Continues
  <1>11. Led(Upto(Q, n), Upto(P, n))
    <2>1. \A i \in 1 .. n : P[i] \in Seq(Word)
      BY <1>2
    <2>2. 1 \in Nat
      OBVIOUS
    <2> QED
      BY ONLY <1>7, <1>8, <1>9, <2>1, <2>2, FlattenLed
  <1>12. Upto(Q, n) \in Seq(Token) /\ Upto(P, n) \in Seq(Token)
    BY <1>11, PreambleType DEF Led
  <1>13. FieldText(field) = Upto(P, n) /\ FieldText(new) = Upto(Q, n)
    BY <1>4, <1>12, ArrayText DEF P, Q, n
  <1> QED
    BY <1>11, <1>13

\* The prompt goes in front where the field can take it; otherwise nothing is
\* changed.
LEMMA InjectLeads ==
  ASSUME NEW field \in Field, IsField(field), NEW shape \in Shapes \ {"none"},
         NEW new, new = Inject(shape, field)
  PROVE  /\ field.tag \in Accepted[shape] => Led(FieldText(new), FieldText(field))
         /\ field.tag \notin Accepted[shape] => new = field
         /\ TagKept(field.tag, new.tag)
  <1>1. field.tag \in {"absent", "null", "string", "array", "other"} /\ field.text \in Seq(Word)
    BY DEF Field
  <1>2. new = field => TagKept(field.tag, new.tag)
    BY DEF TagKept
  <1>3. ASSUME field.tag \in {"absent", "null", "string"}, field.items = << >>,
               new = Str(Prepended(field.text))
        PROVE  Led(FieldText(new), FieldText(field)) /\ TagKept(field.tag, new.tag)
    <2>1. new.tag = "string"
      BY <1>3 DEF Str
    <2>2. Led(FieldText(new), FieldText(field))
      BY <1>3, StringLeads
    <2> QED
      BY <1>3, <2>1, <2>2 DEF TagKept
  <1>4. ASSUME NEW first, first.text = <<Preamble>>, field.text = << >>, field.tag = "array",
               new = Arr(<<first>> \o field.items)
        PROVE  Led(FieldText(new), FieldText(field)) /\ TagKept(field.tag, new.tag)
    <2>1. new.tag = "array"
      BY <1>4 DEF Arr
    <2>2. Led(FieldText(new), FieldText(field))
      BY <1>4, ElementLeads
    <2> QED
      BY <1>4, <2>1, <2>2 DEF TagKept
  <1>5. ASSUME field.text = << >>, field.tag = "array", Mergeable(field.items),
               new = Arr([field.items EXCEPT ![1].text = Prepended(@)])
        PROVE  Led(FieldText(new), FieldText(field)) /\ TagKept(field.tag, new.tag)
    <2>1. new.tag = "array"
      BY <1>5 DEF Arr
    <2>2. Led(FieldText(new), FieldText(field))
      BY <1>5, MergedLeads
    <2> QED
      BY <1>5, <2>1, <2>2 DEF TagKept
  <1>6. /\ field.tag # "array" => field.items = << >>
        /\ field.tag \in {"absent", "null", "array"} => field.text = << >>
    BY DEF IsField
  <1>7. field.text = << >> => Prepended(field.text) = <<Preamble>>
    BY DEF Prepended
  <1>8. TextBlock.text = <<Preamble>> /\ SystemMessage.text = <<Preamble>>
    BY DEF TextBlock, SystemMessage, Item
  <1>9. CASE shape = "Anthropic"
    <2>1. new = InjectAnthropic(field) /\ Accepted[shape] = {"absent", "string", "array"}
      BY <1>9 DEF Inject, Accepted
    <2>2. CASE field.tag \in {"absent", "string"}
      <3>1. new = Str(Prepended(field.text))
        BY <1>6, <1>7, <2>1, <2>2 DEF InjectAnthropic
      <3> QED
        BY <1>3, <1>6, <2>1, <2>2, <3>1
    <2>3. CASE field.tag = "array"
      <3>1. new = Arr(<<TextBlock>> \o field.items)
        BY <2>1, <2>3 DEF InjectAnthropic
      <3> QED
        BY <1>4, <1>6, <1>8, <2>1, <2>3, <3>1
    <2>4. CASE field.tag \notin {"absent", "string", "array"}
      <3>1. new = field
        BY <2>1, <2>4 DEF InjectAnthropic
      <3> QED
        BY <1>2, <2>1, <2>4, <3>1
    <2> QED
      BY <2>2, <2>3, <2>4
  <1>10. CASE shape = "OpenAiChat"
    <2>1. new = InjectOpenAi(field) /\ Accepted[shape] = {"array"}
      BY <1>10 DEF Inject, Accepted
    <2>2. CASE field.tag # "array"
      <3>1. new = field
        BY <1>6, <2>1, <2>2 DEF InjectOpenAi, Mergeable
      <3> QED
        BY <1>2, <2>1, <2>2, <3>1
    <2>3. CASE field.tag = "array" /\ Mergeable(field.items)
      <3>1. new = Arr([field.items EXCEPT ![1].text = Prepended(@)])
        BY <2>1, <2>3 DEF InjectOpenAi
      <3> QED
        BY <1>5, <1>6, <2>1, <2>3, <3>1
    <2>4. CASE field.tag = "array" /\ ~ Mergeable(field.items)
      <3>1. new = Arr(<<SystemMessage>> \o field.items)
        BY <2>1, <2>4 DEF InjectOpenAi
      <3> QED
        BY <1>4, <1>6, <1>8, <2>1, <2>4, <3>1
    <2> QED
      BY <2>2, <2>3, <2>4
  <1>11. CASE shape = "OpenAiResponses"
    <2>1. new = InjectResponses(field) /\ Accepted[shape] = {"absent", "null", "string"}
      BY <1>11 DEF Inject, Accepted
    <2>2. CASE field.tag \in {"absent", "null", "string"}
      <3>1. new = Str(Prepended(field.text))
        BY <1>6, <1>7, <2>1, <2>2 DEF InjectResponses
      <3> QED
        BY <1>3, <1>6, <2>1, <2>2, <3>1
    <2>3. CASE field.tag \notin {"absent", "null", "string"}
      <3>1. new = field
        BY <2>1, <2>3 DEF InjectResponses
      <3> QED
        BY <1>2, <2>1, <2>3, <3>1
    <2> QED
      BY <2>2, <2>3
  <1> QED
    BY <1>9, <1>10, <1>11 DEF Shapes

\* A body that can take the prompt.
Takes(shape, body) == shape # "none" /\ body.object /\ body.field.tag \in Accepted[shape]

\* The prompt comes first if the body can take it, and nothing else changes.
LEMMA InjectAfterRedactLeads ==
  ASSUME NEW body \in Body, IsField(body.field), NEW shape \in Shapes,
         NEW new, new = InjectAfterRedact(shape, body)
  PROVE  /\ new.utf8 = body.utf8
         /\ Takes(shape, body) => Led(Words(new), Words(body))
         /\ ~ Takes(shape, body) => Words(new) = Words(body)
         /\ TagKept(body.field.tag, new.field.tag)
  <1>1. CASE shape = "none" \/ ~ body.object
    BY <1>1 DEF InjectAfterRedact, Takes, TagKept
  <1>2. CASE shape # "none" /\ body.object
    <2>1. /\ new.utf8 = body.utf8 /\ new.field = Inject(shape, body.field)
          /\ new.bare = body.bare /\ new.rest = body.rest
      BY <1>2 DEF InjectAfterRedact, Body
    <2>2. body.field \in Field /\ body.bare \in Seq(Word) /\ body.rest \in Seq(Word)
      BY DEF Body
    <2>3. /\ Takes(shape, body) => Led(FieldText(new.field), FieldText(body.field))
          /\ ~ Takes(shape, body) => new.field = body.field
          /\ TagKept(body.field.tag, new.field.tag)
      BY <1>2, <2>1, <2>2, InjectLeads DEF Takes
    <2>4. CASE ~ Takes(shape, body)
      BY <2>1, <2>3, <2>4 DEF Words
    <2>5. CASE Takes(shape, body)
      <3>1. ASSUME NEW a, a = FieldText(body.field), NEW b, b = FieldText(new.field),
                   NEW ab, ab = a \o body.bare, NEW bb, bb = b \o body.bare
            PROVE  Led(bb \o body.rest, ab \o body.rest)
        <4>1. Led(bb, ab)
          BY <2>2, <2>3, <2>5, <3>1, LedJoins
        <4> QED
          BY <2>2, <4>1, LedJoins
      <3>2. Led(Words(new), Words(body))
        BY <2>1, <3>1 DEF Words
      <3> QED
        BY <2>1, <2>3, <2>5, <3>2
    <2> QED
      BY <2>3, <2>4, <2>5
  <1> QED
    BY <1>1, <1>2

-----------------------------------------------------------------------------
(***************************************************************************)
(* A request and what goes upstream for it.                                *)
(***************************************************************************)
TableOf(r) == IF r.body.utf8 THEN MintedFor(r.body) ELSE EmptyMap

SentFor(r) ==
  IF r.body.utf8
  THEN [r EXCEPT !.body = InjectAfterRedact(ShapeFor(r.path), RedactBody(@))]
  ELSE r

\* ClientWords, as a function of the words that were sent.
BehindPrompt(words) ==
  IF words # << >> /\ words[1] = Preamble THEN Tail(words) ELSE words

\* The words come from redacting `sent`, and perhaps have the prompt in front.
Rendered(map, sent, words) ==
  /\ Covers(map, sent, Len(sent))
  /\ Turned(map, sent, BehindPrompt(words))
  /\ words = BehindPrompt(words) \/ Led(words, BehindPrompt(words))

\* Whether they have it there.
HasPrompt(words) == words # << >> /\ words[1] = Preamble

\* PromptDue, as a function of the request.
Due(r) ==
  /\ InjectSystemPrompt /\ r.body.object
  /\ \A i \in 1 .. Len(r.body.bare) : r.body.bare[i] \notin Text
  /\ r.body.field.tag \in Accepted[Route[r.path]]

LEMMA RequestType ==
  ASSUME NEW e \in Exchange, NEW r \in RequestOf[e]
  PROVE  /\ r = [path |-> r.path, encodings |-> r.encodings, body |-> r.body]
         /\ r.encodings \in BOOLEAN /\ r.body \in Body /\ IsField(r.body.field) /\ r # NoRequest
  <1>1. r \in [path : STRING, encodings : BOOLEAN, body : Body]
    BY RelayAssumption DEF Body, Field, Element
  <1> QED
    BY <1>1, RelayAssumption

\* What redaction leaves is behind the prompt, word by word.
LEMMA BehindPromptIs ==
  ASSUME NEW map, IsTable(map), NEW sent, NEW got, Turned(map, sent, got),
         NEW words, words = got \/ Led(words, got)
  PROVE  /\ BehindPrompt(words) = got
         /\ words = got => ~ HasPrompt(words)
         /\ Led(words, got) => HasPrompt(words)
  <1>1. got \in Seq(Word) /\ got \in Seq(Token)
    BY PreambleType DEF Turned
  <1>2. CASE words = got
    <2>1. words # << >> => words[1] \in Word
      BY <1>1, <1>2
    <2>2. ~ HasPrompt(words)
      BY <2>1, RelayAssumption DEF HasPrompt
    <2>3. ~ Led(words, got)
      BY <2>2, <1>1, <1>2 DEF Led
    <2> QED
      BY <1>2, <2>2, <2>3 DEF BehindPrompt, HasPrompt
  <1>3. CASE Led(words, got)
    <2>1. /\ words \in Seq(Token) /\ Len(words) = Len(got) + 1 /\ words[1] = Preamble
          /\ \A i \in 1 .. Len(got) : words[i + 1] = got[i]
      BY <1>3 DEF Led
    <2>2. words # << >>
      BY <1>1, <2>1
    <2>3. ASSUME NEW t, t = Tail(words)
          PROVE  t \in Seq(Token) /\ Len(t) = Len(got) /\ \A i \in 1 .. Len(got) : t[i] = got[i]
      <3>1. /\ t \in Seq(Token) /\ Len(t) = Len(words) - 1
            /\ \A i \in 1 .. Len(t) : t[i] = words[i + 1]
        BY <2>1, <2>2, <2>3, HeadTailProperties
      <3> QED
        BY <1>1, <2>1, <3>1
    <2>4. ASSUME NEW t, t = Tail(words) PROVE t = got
      BY <1>1, <2>3, <2>4, SeqEqual
    <2>5. words # got
      BY <1>1, <2>1
    <2> QED
      BY <2>1, <2>2, <2>4, <2>5 DEF BehindPrompt, HasPrompt
  <1> QED
    BY <1>2, <1>3

LEMMA SentForRenders ==
  ASSUME NEW e \in Exchange, NEW r \in RequestOf[e], r.path \in DOMAIN Route, r.body.utf8,
         NEW o, o = SentFor(r)
  PROVE  /\ o.encodings = r.encodings
         /\ Rendered(TableOf(r), Words(r.body), Words(o.body))
         /\ TagKept(r.body.field.tag, o.body.field.tag)
         /\ HasPrompt(Words(o.body)) <=> Due(r)
  <1>1. /\ r = [path |-> r.path, encodings |-> r.encodings, body |-> r.body]
        /\ r.body \in Body /\ IsField(r.body.field)
    BY RequestType
  <1>2. ShapeFor(r.path) \in Shapes
    BY RelayAssumption DEF ShapeFor, Shapes
  <1>3. ASSUME NEW redacted, redacted = RedactBody(r.body), NEW map, map = MintedFor(r.body),
               NEW new, new = InjectAfterRedact(ShapeFor(r.path), redacted)
        PROVE  /\ Rendered(map, Words(r.body), Words(new))
               /\ TagKept(r.body.field.tag, new.field.tag)
               /\ HasPrompt(Words(new)) <=> Due(r)
    <2>1. /\ Covers(map, Words(r.body), Len(Words(r.body)))
          /\ Turned(map, Words(r.body), Words(redacted))
          /\ redacted \in Body /\ redacted.field.tag = r.body.field.tag
          /\ IsField(redacted.field)
          /\ redacted.object <=>
               r.body.object /\ \A i \in 1 .. Len(r.body.bare) : r.body.bare[i] \notin Text
      BY <1>1, <1>3, RedactBodyTurns
    <2>2. /\ Takes(ShapeFor(r.path), redacted) => Led(Words(new), Words(redacted))
          /\ ~ Takes(ShapeFor(r.path), redacted) => Words(new) = Words(redacted)
          /\ TagKept(redacted.field.tag, new.field.tag)
      BY <1>2, <1>3, <2>1, InjectAfterRedactLeads
    <2>3. IsTable(map)
      BY <2>1 DEF Covers, IsTable
    <2>4. /\ BehindPrompt(Words(new)) = Words(redacted)
          /\ HasPrompt(Words(new)) <=> Takes(ShapeFor(r.path), redacted)
      BY <2>1, <2>2, <2>3, BehindPromptIs
    <2>5. Takes(ShapeFor(r.path), redacted) <=> Due(r)
      <3>1. Route[r.path] # "none"
        BY RelayAssumption
      <3> QED
        BY <2>1, <3>1 DEF Takes, Due, ShapeFor
    <2> QED
      BY <2>1, <2>2, <2>4, <2>5 DEF Rendered
  <1>4. o.encodings = r.encodings /\ o.body = InjectAfterRedact(ShapeFor(r.path), RedactBody(r.body))
    BY <1>1 DEF SentFor
  <1>5. TableOf(r) = MintedFor(r.body)
    BY DEF TableOf
  <1> QED
    BY <1>3, <1>4, <1>5

LEMMA TableOfIsTable ==
  ASSUME NEW e \in Exchange, NEW r \in RequestOf[e]
  PROVE  IsTable(TableOf(r))
  <1>1. CASE r.body.utf8
    <2>1. Covers(MintedFor(r.body), Words(r.body), Len(Words(r.body)))
      BY RequestType, RedactBodyTurns
    <2> QED
      BY <1>1, <2>1 DEF Covers, IsTable, TableOf
  <1>2. CASE ~ r.body.utf8
    BY <1>2, EmptyMapOK DEF TableOf, IsTable
  <1> QED
    BY <1>1, <1>2

\* No word that goes upstream is a secret, and only the first is the prompt.
LEMMA RenderedHides ==
  ASSUME NEW map, NEW sent, NEW words, Rendered(map, sent, words)
  PROVE  \A i \in 1 .. Len(words) : words[i] \notin Text /\ (words[i] = Preamble => i = 1)
  <1> DEFINE got == BehindPrompt(words)
  <1>1. IsTable(map) /\ Turned(map, sent, got) /\ (words = got \/ Led(words, got))
    BY DEF Rendered, Covers, IsTable
  <1> HIDE DEF got
  <1>2. \A i \in 1 .. Len(got) : got[i] \in Plain \cup Placeholder
    BY <1>1, ReplacedType DEF Turned
  <1>3. Preamble \notin Text /\ \A w \in Plain \cup Placeholder : w \notin Text /\ w # Preamble
    BY RelayAssumption DEF Word
  <1>4. CASE words = got
    BY <1>2, <1>3, <1>4
  <1>5. CASE Led(words, got)
    <2>1. ASSUME NEW i \in 1 .. Len(words)
          PROVE  words[i] \notin Text /\ (words[i] = Preamble => i = 1)
      <3>1. CASE i = 1
        BY <1>3, <1>5, <3>1 DEF Led
      <3>2. CASE i # 1
        <4>1. /\ i - 1 \in 1 .. Len(got) /\ (i - 1) + 1 = i
          BY <1>5, <3>2 DEF Led
        <4>2. words[i] = got[i - 1]
          BY <1>5, <4>1 DEF Led
        <4> QED
          BY <1>2, <1>3, <4>1, <4>2
      <3> QED
        BY <3>1, <3>2
    <2> QED
      BY <2>1
  <1> QED
    BY <1>1, <1>4, <1>5

\* A secret's word is the placeholder the table has for it.
LEMMA PlaceholderOfWord ==
  ASSUME NEW map, NEW sent, NEW words, Rendered(map, sent, words),
         NEW i \in 1 .. Len(sent), sent[i] \in Text
  PROVE  /\ Named(sent[i]) \in DOMAIN map.forward
         /\ BehindPrompt(words)[i] = map.forward[Named(sent[i])]
  <1>1. Named(sent[i]) \in DOMAIN map.forward
    BY DEF Rendered, Covers
  <1>2. BehindPrompt(words)[i] = Replaced(map, sent[i])
    BY DEF Rendered, Turned
  <1> QED
    BY <1>1, <1>2 DEF Replaced, PlaceholderFor, Knows, Named

\* The client's words survive: other text as it was, secrets told apart.
LEMMA RenderedKeeps ==
  ASSUME NEW map, NEW sent, NEW words, Rendered(map, sent, words)
  PROVE  /\ Len(BehindPrompt(words)) = Len(sent)
         /\ \A i \in 1 .. Len(sent) : sent[i] \notin Text => BehindPrompt(words)[i] = sent[i]
         /\ \A i, j \in 1 .. Len(sent) :
              sent[i] \in Text /\ sent[j] \in Text =>
                (sent[i] = sent[j] <=> BehindPrompt(words)[i] = BehindPrompt(words)[j])
  <1>1. Len(BehindPrompt(words)) = Len(sent)
    BY DEF Rendered, Turned
  <1>2. \A i \in 1 .. Len(sent) : sent[i] \notin Text => BehindPrompt(words)[i] = sent[i]
    BY DEF Rendered, Turned, Replaced
  <1>3. ASSUME NEW i \in 1 .. Len(sent), NEW j \in 1 .. Len(sent), sent[i] \in Text, sent[j] \in Text
        PROVE  sent[i] = sent[j] <=> BehindPrompt(words)[i] = BehindPrompt(words)[j]
    <2>1. /\ Named(sent[i]) \in DOMAIN map.forward /\ Named(sent[j]) \in DOMAIN map.forward
          /\ BehindPrompt(words)[i] = map.forward[Named(sent[i])]
          /\ BehindPrompt(words)[j] = map.forward[Named(sent[j])]
      BY <1>3, PlaceholderOfWord
    <2>2. Injective(map)
      BY DEF Rendered, Covers, Consistent
    <2>3. Named(sent[i]) = Named(sent[j]) <=> sent[i] = sent[j]
      BY DEF Named
    <2> QED
      BY <2>1, <2>2, <2>3 DEF Injective
  <1> QED
    BY <1>1, <1>2, <1>3

\* `reverse`, for one token and a table.
RestoredBy(map, token) == IF token \in Minted(map) THEN map.reverse[token] ELSE token

Origins(sent, got, token) ==
  {sent[i] : i \in {i \in 1 .. Len(sent) : sent[i] \in Text /\ got[i] = token}}

\* A placeholder stands for the one secret that reversal makes of it.
LEMMA RestoredIsOrigin ==
  ASSUME NEW map, NEW sent, NEW words, Rendered(map, sent, words), NEW token
  PROVE  \/ Origins(sent, BehindPrompt(words), token) = {RestoredBy(map, token)}
         \/ /\ Origins(sent, BehindPrompt(words), token) = {}
            /\ RestoredBy(map, token) = token
  <1> DEFINE got == BehindPrompt(words)
  <1>1. /\ IsMap(map) /\ Invertible(map) /\ Injective(map) /\ NoOrphans(map)
        /\ \A s \in DOMAIN map.forward :
             \E j \in 1 .. Len(sent) : sent[j] \in Text /\ s = Named(sent[j])
    BY DEF Rendered, Covers, Consistent
  <1>2. \A i \in 1 .. Len(sent) : sent[i] \in Text =>
          Named(sent[i]) \in DOMAIN map.forward /\ got[i] = map.forward[Named(sent[i])]
    BY PlaceholderOfWord
  <1> HIDE DEF got
  <1>3. \A t : Named(t)[2] = t
    BY DEF Named
  <1>4. CASE token \in Minted(map)
    <2>1. PICK s \in DOMAIN map.forward : map.forward[s] = token
      BY <1>1, <1>4 DEF NoOrphans, Minted
    <2>2. PICK j \in 1 .. Len(sent) : sent[j] \in Text /\ s = Named(sent[j])
      BY <1>1
    <2>3. map.reverse[token] = sent[j]
      BY <1>1, <1>3, <2>1, <2>2 DEF Invertible
    <2>4. ASSUME NEW i \in 1 .. Len(sent), sent[i] \in Text, got[i] = token
          PROVE  sent[i] = sent[j]
      <3>1. map.forward[Named(sent[i])] = map.forward[s] /\ Named(sent[i]) \in DOMAIN map.forward
        BY <1>2, <2>1, <2>4
      <3>2. Named(sent[i]) = s
        BY <1>1, <3>1 DEF Injective
      <3> QED
        BY <1>3, <2>2, <3>2
    <2>5. got[j] = token
      BY <1>2, <2>1, <2>2
    <2>6. Origins(sent, got, token) = {sent[j]}
      BY <2>2, <2>4, <2>5 DEF Origins
    <2> QED
      BY <1>4, <2>3, <2>6 DEF RestoredBy, got
  <1>5. CASE token \notin Minted(map)
    <2>1. \A i \in 1 .. Len(sent) : sent[i] \in Text => got[i] # token
      BY <1>1, <1>2, <1>5 DEF Invertible, Minted
    <2>2. Origins(sent, got, token) = {}
      BY <2>1 DEF Origins
    <2> QED
      BY <1>5, <2>2 DEF RestoredBy, got
  <1> QED
    BY <1>4, <1>5

-----------------------------------------------------------------------------
(***************************************************************************)
(* The inductive invariant.                                                *)
(***************************************************************************)
Phases == {"idle", "reading", "sent", "passing", "streaming", "buffering"} \cup Over

\* The call holds its table.
Waiting == {"sent", "passing", "streaming", "buffering"}

Indexed ==
  /\ phase \in [Exchange -> Phases]
  /\ DOMAIN request = Exchange /\ request = [e \in Exchange |-> request[e]]
  /\ DOMAIN placeholder_map = Exchange
  /\ placeholder_map = [e \in Exchange |-> placeholder_map[e]]
  /\ DOMAIN outbound = Exchange /\ outbound = [e \in Exchange |-> outbound[e]]
  /\ DOMAIN head = Exchange /\ head = [e \in Exchange |-> head[e]]
  /\ DOMAIN wire = Exchange /\ wire = [e \in Exchange |-> wire[e]]
  /\ DOMAIN ending = Exchange /\ ending = [e \in Exchange |-> ending[e]]
  /\ DOMAIN status = Exchange /\ status = [e \in Exchange |-> status[e]]
  /\ DOMAIN delivered = Exchange /\ delivered = [e \in Exchange |-> delivered[e]]

Shape(e) ==
  /\ request[e] \in RequestOf[e] \cup {NoRequest}
  /\ phase[e] = "idle" <=> request[e] = NoRequest
  /\ status[e] \in {"none", "upstream", "not_found", "bad_request", "bad_gateway"}
  /\ head[e] \in ReplyHead \cup {NoHead}
  /\ wire[e] \in Seq(Token) /\ delivered[e] \in Seq(Token)
  /\ ending[e] \in {"open", "ended", "broken"}

\* Only a request on one of the routes leaves, as redaction and injection
\* made it.
RequestOut(e) ==
  /\ phase[e] = "reading" => request[e].path \in DOMAIN Route
  /\ phase[e] \in {"idle", "reading"} => outbound[e] = NoRequest
  /\ outbound[e] # NoRequest =>
       phase[e] # "idle" /\ request[e].path \in DOMAIN Route /\ outbound[e] = SentFor(request[e])

\* The table of a call is that of its own request, and decides the way back.
TableHeld(e) ==
  /\ placeholder_map[e] = IF phase[e] \in Waiting THEN TableOf(request[e]) ELSE EmptyMap
  /\ phase[e] = "passing" => IsEmpty(placeholder_map[e])
  /\ phase[e] \in {"streaming", "buffering"} => ~ IsEmpty(placeholder_map[e])

ReplyIn(e) ==
  /\ phase[e] \in {"idle", "reading", "sent"} => head[e] = NoHead /\ status[e] = "none"
  /\ head[e] = NoHead =>
       /\ phase[e] \notin {"passing", "streaming", "buffering"}
       /\ wire[e] = << >> /\ delivered[e] = << >> /\ ending[e] = "open"
       /\ status[e] # "upstream"
  /\ head[e] # NoHead =>
       /\ head[e].compressed => outbound[e].encodings
       /\ head[e].events = "none" =>
            delivered[e] = << >> \/ ending[e] = "ended" \/ IsEmpty(TableOf(request[e]))
  /\ phase[e] \in {"passing", "streaming"} => status[e] = "upstream"
  /\ phase[e] = "streaming" =>
       IsEventStream(head[e]) /\ (head[e].compressed => delivered[e] = << >>)
  /\ phase[e] = "buffering" =>
       status[e] = "none" /\ delivered[e] = << >> /\ ~ IsEventStream(head[e])

\* A reply that the relay can read.
Reversed(e) ==
  /\ ~ head[e].compressed /\ head[e].events # "other"
  /\ head[e].events = "none" => IsText(wire[e])

\* What a token of the reply becomes, also when the table is gone.
Shown(e, token) ==
  IF Reversed(e)
  THEN RestoredBy(TableOf(request[e]), token) ELSE token

ReplyOut(e) ==
  /\ Len(delivered[e]) <= Len(wire[e])
  /\ \A i \in 1 .. Len(delivered[e]) : delivered[e][i] = Shown(e, wire[e][i])

Complete(e) ==
  phase[e] = "done" /\ status[e] = "upstream" =>
    /\ head[e] # NoHead /\ ending[e] = "ended"
    /\ \/ Len(delivered[e]) = Len(wire[e])
       \/ /\ IsEventStream(head[e]) /\ ~ IsEmpty(TableOf(request[e]))
          /\ (head[e].compressed /\ delivered[e] = << >>) \/ GarbledNext(e)

Good(e) ==
  Shape(e) /\ RequestOut(e) /\ TableHeld(e) /\ ReplyIn(e) /\ ReplyOut(e) /\ Complete(e)

IInv ==
  /\ server \in {"running", "draining", "stopped"}
  /\ Indexed
  /\ \A e \in Exchange : Good(e)

LEMMA InitIInv == Init => IInv
  <1>1. SUFFICES ASSUME Init PROVE IInv
    OBVIOUS
  <1>2. Indexed /\ server = "running"
    BY <1>1 DEF Init, Indexed, Phases
  <1>3. ASSUME NEW e \in Exchange PROVE Good(e)
    <2>1. /\ phase[e] = "idle" /\ request[e] = NoRequest /\ placeholder_map[e] = EmptyMap
          /\ outbound[e] = NoRequest /\ head[e] = NoHead /\ wire[e] = << >>
          /\ ending[e] = "open" /\ status[e] = "none" /\ delivered[e] = << >>
      BY <1>1 DEF Init
    <2> QED
      BY <2>1 DEF Good, Shape, RequestOut, TableHeld, ReplyIn, ReplyOut, Complete, Waiting
  <1> QED
    BY <1>2, <1>3 DEF IInv

\* The entries of exchange f stay as they are.
Same(f) ==
  /\ phase'[f] = phase[f] /\ request'[f] = request[f]
  /\ placeholder_map'[f] = placeholder_map[f] /\ outbound'[f] = outbound[f]
  /\ head'[f] = head[f] /\ wire'[f] = wire[f] /\ ending'[f] = ending[f]
  /\ status'[f] = status[f] /\ delivered'[f] = delivered[f]

LEMMA SameStaysGood ==
  ASSUME NEW f \in Exchange, Good(f), Same(f)
  PROVE  Good(f)'
  <1> USE DEF Same
  <1>1. Shape(f)'
    BY DEF Good, Shape
  <1>2. RequestOut(f)'
    BY DEF Good, RequestOut
  <1>3. TableHeld(f)'
    BY DEF Good, TableHeld
  <1>4. ReplyIn(f)'
    BY DEF Good, ReplyIn
  <1>5. ReplyOut(f)'
    BY DEF Good, ReplyOut, Shown, Reversed
  <1>6. Complete(f)'
    BY DEF Good, Complete, GarbledNext
  <1> QED
    BY <1>1, <1>2, <1>3, <1>4, <1>5, <1>6 DEF Good

\* handler.rs: each call has its own table and its own reply.
LEMMA OthersKeep ==
  ASSUME Indexed, NEW e \in Exchange, Relay(e) \/ Environment(e)
  PROVE  Indexed' /\ \A f \in Exchange \ {e} : Same(f)
  <1> USE DEF Indexed, Same, Goto, Return, Over, Phases
  <1>1. CASE ForwardPiece(e)
    BY <1>1 DEF ForwardPiece
  <1>2. CASE ForwardEnd(e)
    BY <1>2 DEF ForwardEnd
  <1>3. CASE ReplyBuffered(e)
    BY <1>3 DEF ReplyBuffered
  <1>4. CASE BufferFails(e)
    BY <1>4 DEF BufferFails
  <1>5. CASE Accept(e)
    BY <1>5 DEF Accept
  <1>6. CASE ReadFails(e)
    BY <1>6 DEF ReadFails
  <1>7. CASE ForwardRequest(e)
    BY <1>7 DEF ForwardRequest
  <1>8. CASE SendFails(e)
    BY <1>8 DEF SendFails
  <1>9. CASE RelayReply(e)
    <2>1. PICK h \in ReplyHead :
            LET way == IF IsEmpty(placeholder_map[e]) THEN "passing"
                       ELSE IF IsEventStream(h) THEN "streaming" ELSE "buffering"
            IN  /\ head' = [head EXCEPT ![e] = h]
                /\ phase' = [phase EXCEPT ![e] = way]
                /\ status' = IF way = "buffering" THEN status
                             ELSE [status EXCEPT ![e] = "upstream"]
      BY <1>9 DEF RelayReply
    <2>2. UNCHANGED <<server, request, placeholder_map, outbound, wire, ending, delivered>>
      BY <1>9 DEF RelayReply
    <2> QED
      BY <2>1, <2>2
  <1>10. CASE UpstreamSends(e)
    BY <1>10 DEF UpstreamSends
  <1>11. CASE Abort(e)
    BY <1>11 DEF Abort
  <1> QED
    BY <1>1, <1>2, <1>3, <1>4, <1>5, <1>6, <1>7, <1>8, <1>9, <1>10, <1>11
       DEF Relay, Environment

-----------------------------------------------------------------------------
(***************************************************************************)
(* One lemma per step.                                                     *)
(***************************************************************************)

\* A call that is over keeps what it received and sent; its table is gone.
LEMMA ReturnKeeps ==
  ASSUME NEW e \in Exchange, Good(e), Indexed, NEW p \in Over, NEW s,
         phase[e] # "idle", Return(e, p, s),
         UNCHANGED <<request, outbound, head, wire, ending>>
  PROVE  /\ phase'[e] = p /\ status'[e] = s
         /\ RequestOut(e)' /\ TableHeld(e)'
         /\ s \in {"none", "upstream", "not_found", "bad_request", "bad_gateway"}
              /\ delivered'[e] \in Seq(Token) => Shape(e)'
  <1>1. /\ phase'[e] = p /\ status'[e] = s /\ placeholder_map'[e] = EmptyMap
        /\ request'[e] = request[e] /\ outbound'[e] = outbound[e] /\ head'[e] = head[e]
        /\ wire'[e] = wire[e] /\ ending'[e] = ending[e]
    BY DEF Indexed, Return, Goto
  <1>2. p \notin {"idle", "reading", "sent", "passing", "streaming", "buffering"}
    BY DEF Over
  <1>3. RequestOut(e)'
    BY <1>1, <1>2 DEF Good, RequestOut
  <1>4. TableHeld(e)'
    BY <1>1, <1>2 DEF TableHeld, Waiting
  <1>5. s \in {"none", "upstream", "not_found", "bad_request", "bad_gateway"}
          /\ delivered'[e] \in Seq(Token) => Shape(e)'
    BY <1>1, <1>2 DEF Good, Shape
  <1> QED
    BY <1>1, <1>3, <1>4, <1>5

\* Nothing more is delivered, and no reply counts as complete.
LEMMA ReturnGood ==
  ASSUME NEW e \in Exchange, Good(e), Indexed, NEW p \in Over, NEW s,
         phase[e] # "idle", Return(e, p, s),
         UNCHANGED <<request, outbound, head, wire, ending, delivered>>,
         s \in {"none", "upstream", "bad_request", "bad_gateway"},
         head[e] = NoHead => s # "upstream",
         p = "done" => s # "upstream"
  PROVE  Good(e)'
  <1>1. phase'[e] = p /\ status'[e] = s /\ RequestOut(e)' /\ TableHeld(e)'
    BY ReturnKeeps
  <1>2. /\ request'[e] = request[e] /\ outbound'[e] = outbound[e] /\ head'[e] = head[e]
        /\ wire'[e] = wire[e] /\ ending'[e] = ending[e] /\ delivered'[e] = delivered[e]
    OBVIOUS
  <1>3. Shape(e)'
    BY <1>2, ReturnKeeps DEF Good, Shape
  <1>4. p \notin {"idle", "reading", "sent", "passing", "streaming", "buffering"}
    BY DEF Over
  <1>5. ReplyIn(e)'
    BY <1>1, <1>2, <1>4 DEF Good, ReplyIn
  <1>6. ReplyOut(e)'
    BY <1>2 DEF Good, ReplyOut, Shown, Reversed
  <1>7. Complete(e)'
    BY <1>1 DEF Complete
  <1> QED
    BY <1>1, <1>3, <1>5, <1>6, <1>7 DEF Good

LEMMA AcceptGood ==
  ASSUME NEW e \in Exchange, Good(e), Indexed, Accept(e)
  PROVE  Good(e)'
  <1>1. /\ phase[e] = "idle" /\ placeholder_map'[e] = placeholder_map[e]
        /\ outbound'[e] = outbound[e] /\ head'[e] = head[e] /\ wire'[e] = wire[e]
        /\ ending'[e] = ending[e] /\ delivered'[e] = delivered[e]
    BY DEF Accept
  <1>2. PICK r \in RequestOf[e] :
          /\ request' = [request EXCEPT ![e] = r]
          /\ IF r.path \in DOMAIN Route
             THEN Goto(e, "reading") /\ UNCHANGED status
             ELSE Goto(e, "done") /\ status' = [status EXCEPT ![e] = "not_found"]
    BY DEF Accept
  <1>3. request'[e] = r
    BY <1>2 DEF Indexed
  <1>4. \/ r.path \in DOMAIN Route /\ phase'[e] = "reading" /\ status'[e] = status[e]
        \/ r.path \notin DOMAIN Route /\ phase'[e] = "done" /\ status'[e] = "not_found"
    BY <1>2 DEF Goto, Indexed
  <1>5. /\ outbound[e] = NoRequest /\ head[e] = NoHead /\ status[e] = "none"
        /\ wire[e] = << >> /\ delivered[e] = << >> /\ ending[e] = "open"
        /\ placeholder_map[e] = EmptyMap
    BY <1>1 DEF Good, RequestOut, ReplyIn, TableHeld, Waiting
  <1>6. r # NoRequest
    BY RequestType
  <1>7. Shape(e)'
    BY <1>1, <1>3, <1>4, <1>5, <1>6 DEF Good, Shape
  <1>8. RequestOut(e)'
    BY <1>1, <1>3, <1>4, <1>5 DEF RequestOut
  <1>9. TableHeld(e)' /\ ReplyIn(e)' /\ Complete(e)'
    BY <1>1, <1>4, <1>5 DEF TableHeld, Waiting, ReplyIn, Complete
  <1>10. ReplyOut(e)'
    BY <1>1, <1>5 DEF ReplyOut
  <1> QED
    BY <1>7, <1>8, <1>9, <1>10 DEF Good

LEMMA ForwardRequestGood ==
  ASSUME NEW e \in Exchange, Good(e), Indexed, ForwardRequest(e)
  PROVE  Good(e)'
  <1>1. /\ phase[e] = "reading" /\ phase'[e] = "sent"
        /\ request'[e] = request[e] /\ head'[e] = head[e] /\ wire'[e] = wire[e]
        /\ ending'[e] = ending[e] /\ status'[e] = status[e] /\ delivered'[e] = delivered[e]
    BY DEF ForwardRequest, Goto, Indexed
  <1>2. /\ request[e] \in RequestOf[e] /\ request[e].path \in DOMAIN Route
        /\ head[e] = NoHead /\ status[e] = "none" /\ placeholder_map[e] = EmptyMap
    BY <1>1 DEF Good, Shape, RequestOut, ReplyIn, TableHeld, Waiting
  <1>3. outbound'[e] = SentFor(request[e]) /\ placeholder_map'[e] = TableOf(request[e])
    <2>1. CASE request[e].body.utf8
      BY <2>1 DEF ForwardRequest, Indexed, SentFor, TableOf
    <2>2. CASE ~ request[e].body.utf8
      <3>1. outbound'[e] = request[e] /\ placeholder_map' = placeholder_map
        BY <2>2 DEF ForwardRequest, Indexed
      <3> QED
        BY <1>2, <2>2, <3>1 DEF SentFor, TableOf
    <2> QED
      BY <2>1, <2>2
  <1>4. Shape(e)'
    BY <1>1 DEF Good, Shape
  <1>5. RequestOut(e)'
    BY <1>1, <1>2, <1>3 DEF RequestOut
  <1>6. TableHeld(e)'
    BY <1>1, <1>3 DEF TableHeld, Waiting
  <1>7. ReplyIn(e)'
    BY <1>1, <1>2 DEF Good, ReplyIn
  <1>8. ReplyOut(e)'
    BY <1>1 DEF Good, ReplyOut, Shown, Reversed
  <1>9. Complete(e)'
    BY <1>1 DEF Complete
  <1> QED
    BY <1>4, <1>5, <1>6, <1>7, <1>8, <1>9 DEF Good

LEMMA RelayReplyGood ==
  ASSUME NEW e \in Exchange, Good(e), Indexed, RelayReply(e)
  PROVE  Good(e)'
  <1>1. /\ phase[e] = "sent" /\ request'[e] = request[e]
        /\ placeholder_map'[e] = placeholder_map[e] /\ outbound'[e] = outbound[e]
        /\ wire'[e] = wire[e] /\ ending'[e] = ending[e] /\ delivered'[e] = delivered[e]
    BY DEF RelayReply
  <1>2. PICK h \in ReplyHead :
          LET way == IF IsEmpty(placeholder_map[e]) THEN "passing"
                     ELSE IF IsEventStream(h) THEN "streaming" ELSE "buffering"
          IN  /\ h.compressed => outbound[e].encodings
              /\ head' = [head EXCEPT ![e] = h]
              /\ Goto(e, way)
              /\ status' = IF way = "buffering" THEN status
                           ELSE [status EXCEPT ![e] = "upstream"]
    BY DEF RelayReply
  <1>3. head'[e] = h /\ h # NoHead
    BY <1>2, RelayAssumption DEF Indexed
  <1>4. h.compressed => outbound[e].encodings
    BY <1>2
  <1>5. \/ phase'[e] = "passing" /\ IsEmpty(placeholder_map[e]) /\ status'[e] = "upstream"
        \/ /\ phase'[e] = "streaming" /\ ~ IsEmpty(placeholder_map[e]) /\ IsEventStream(h)
           /\ status'[e] = "upstream"
        \/ /\ phase'[e] = "buffering" /\ ~ IsEmpty(placeholder_map[e]) /\ ~ IsEventStream(h)
           /\ status'[e] = status[e]
    BY <1>2 DEF Indexed, Goto
  <1>6. /\ head[e] = NoHead /\ status[e] = "none" /\ delivered[e] = << >> /\ wire[e] = << >>
        /\ placeholder_map[e] = TableOf(request[e])
    BY <1>1 DEF Good, ReplyIn, TableHeld, Waiting
  <1>7. Shape(e)'
    BY <1>1, <1>3, <1>5 DEF Good, Shape
  <1>8. RequestOut(e)'
    BY <1>1, <1>5 DEF Good, RequestOut
  <1>9. TableHeld(e)'
    BY <1>1, <1>5, <1>6 DEF TableHeld, Waiting
  <1>10. ReplyIn(e)'
    BY <1>1, <1>3, <1>4, <1>5, <1>6 DEF ReplyIn, IsEventStream
  <1>11. ReplyOut(e)'
    BY <1>1, <1>6 DEF ReplyOut
  <1>12. Complete(e)'
    BY <1>5 DEF Complete
  <1> QED
    BY <1>7, <1>8, <1>9, <1>10, <1>11, <1>12 DEF Good

LEMMA EmptyRestores ==
  ASSUME NEW map, IsEmpty(map), NEW token
  PROVE  RestoredBy(map, token) = token
  BY DEF RestoredBy, IsEmpty

LEMMA UpstreamSendsGood ==
  ASSUME NEW e \in Exchange, Good(e), Indexed, UpstreamSends(e)
  PROVE  Good(e)'
  <1>1. /\ phase'[e] = phase[e] /\ request'[e] = request[e]
        /\ placeholder_map'[e] = placeholder_map[e] /\ outbound'[e] = outbound[e]
        /\ head'[e] = head[e] /\ status'[e] = status[e] /\ delivered'[e] = delivered[e]
        /\ head[e] # NoHead /\ ending[e] = "open"
    BY DEF UpstreamSends
  <1>2. wire[e] \in Seq(Token) /\ delivered[e] \in Seq(Token)
    BY DEF Good, Shape
  <1>3. /\ wire'[e] \in Seq(Token) /\ Len(wire'[e]) >= Len(wire[e])
        /\ \A i \in 1 .. Len(wire[e]) : wire'[e][i] = wire[e][i]
        /\ ending'[e] \in {"open", "ended", "broken"}
    <2>1. CASE UNCHANGED ending /\ \E token \in ReplyToken[e] :
                                     wire' = [wire EXCEPT ![e] = Append(@, token)]
      <3>1. PICK token \in ReplyToken[e] : wire' = [wire EXCEPT ![e] = Append(@, token)]
        BY <2>1
      <3>2. token \in Token
        BY RelayAssumption DEF Token, Word
      <3>3. wire'[e] = Append(wire[e], token)
        BY <3>1 DEF Indexed
      <3> QED
        BY <1>1, <1>2, <2>1, <3>2, <3>3
    <2>2. CASE UNCHANGED wire /\ \E how \in {"ended", "broken"} :
                                   ending' = [ending EXCEPT ![e] = how]
      BY <1>2, <2>2 DEF Indexed
    <2> QED
      BY <2>1, <2>2 DEF UpstreamSends
  <1>4. Shape(e)'
    BY <1>1, <1>3 DEF Good, Shape
  <1>5. RequestOut(e)' /\ TableHeld(e)' /\ ReplyIn(e)'
    BY <1>1 DEF Good, RequestOut, TableHeld, ReplyIn
  <1>6. ReplyOut(e)'
    <2>1. CASE delivered[e] = << >>
      <3>1. Len(delivered'[e]) = 0 /\ 0 <= Len(wire'[e])
        BY <1>1, <1>3, <2>1
      <3> QED
        BY <3>1 DEF ReplyOut
    <2>2. Len(delivered[e]) \in Nat /\ Len(wire[e]) \in Nat /\ Len(wire'[e]) \in Nat
      BY <1>2, <1>3
    <2>3. Len(delivered[e]) <= Len(wire[e])
      BY DEF Good, ReplyOut
    <2>4. ASSUME NEW i \in 1 .. Len(delivered[e])
          PROVE  delivered[e][i] = Shown(e, wire'[e][i])
      <3>1. wire'[e][i] = wire[e][i]
        BY <1>3, <2>2, <2>3
      <3> QED
        BY <3>1 DEF Good, ReplyOut
    <2>5. Len(delivered'[e]) <= Len(wire'[e])
      BY <1>1, <1>3, <2>2, <2>3
    <2>6. CASE head[e].events # "none"
      <3>1. Reversed(e)' = Reversed(e)
        BY <1>1, <2>6 DEF Reversed
      <3>2. ASSUME NEW i \in 1 .. Len(delivered'[e])
            PROVE  delivered'[e][i] = IF Reversed(e)'
                                      THEN RestoredBy(TableOf(request'[e]), wire'[e][i])
                                      ELSE wire'[e][i]
        BY <1>1, <2>4, <3>1 DEF Shown
      <3> QED
        BY <2>5, <3>2 DEF ReplyOut, Shown
    <2>7. CASE head[e].events = "none" /\ delivered[e] # << >>
      <3>1. \A token : RestoredBy(TableOf(request[e]), token) = token
        BY <1>1, <2>7, EmptyRestores DEF Good, ReplyIn
      <3>2. ASSUME NEW i \in 1 .. Len(delivered'[e])
            PROVE  delivered'[e][i] = IF Reversed(e)'
                                      THEN RestoredBy(TableOf(request'[e]), wire'[e][i])
                                      ELSE wire'[e][i]
        BY <1>1, <2>4, <3>1 DEF Shown
      <3> QED
        BY <2>5, <3>2 DEF ReplyOut, Shown
    <2> QED
      BY <2>1, <2>6, <2>7
  <1>7. Complete(e)'
    BY <1>1 DEF Good, Complete
  <1> QED
    BY <1>4, <1>5, <1>6, <1>7 DEF Good

LEMMA RestoredType ==
  ASSUME NEW map, IsTable(map), NEW token \in Token
  PROVE  RestoredBy(map, token) \in Token
  BY DEF RestoredBy, IsTable, IsMap, Minted, Token, Word

LEMMA RestoredIs ==
  ASSUME NEW e \in Exchange, Good(e), phase[e] \in Waiting, NEW token
  PROVE  /\ request[e] \in RequestOf[e]
         /\ Restored(e, token) = RestoredBy(TableOf(request[e]), token)
         /\ phase[e] = "passing" => RestoredBy(TableOf(request[e]), token) = token
  <1>1. placeholder_map[e] = TableOf(request[e])
    BY DEF Good, TableHeld
  <1>2. phase[e] = "passing" => IsEmpty(TableOf(request[e]))
    BY <1>1 DEF Good, TableHeld
  <1>3. request[e] \in RequestOf[e]
    BY DEF Good, Shape, Waiting
  <1> QED
    BY <1>1, <1>2, <1>3 DEF Restored, RestoredBy, IsEmpty

LEMMA ForwardPieceGood ==
  ASSUME NEW e \in Exchange, Good(e), Indexed, ForwardPiece(e)
  PROVE  Good(e)'
  <1>1. /\ phase[e] \in {"passing", "streaming"} /\ phase'[e] = phase[e]
        /\ request'[e] = request[e] /\ placeholder_map'[e] = placeholder_map[e]
        /\ outbound'[e] = outbound[e] /\ head'[e] = head[e] /\ wire'[e] = wire[e]
        /\ ending'[e] = ending[e] /\ status'[e] = status[e]
        /\ Len(delivered[e]) < Len(wire[e]) /\ ~ Undecodable(e)
    BY DEF ForwardPiece
  <1>2. /\ wire[e] \in Seq(Token) /\ delivered[e] \in Seq(Token) /\ head[e] \in ReplyHead
        /\ phase[e] \in Waiting
    BY <1>1 DEF Good, Shape, ReplyIn, Waiting
  <1> DEFINE n == Len(delivered[e])
             token == wire[e][n + 1]
  <1>3. n \in Nat /\ n + 1 \in 1 .. Len(wire[e]) /\ token \in Token
    BY <1>1, <1>2
  <1>4. delivered'[e] = Append(delivered[e], Shown(e, token))
    <2>1. delivered'[e] = Append(delivered[e],
                                 IF phase[e] = "streaming" /\ head[e].events = "text_delta"
                                 THEN Restored(e, token) ELSE token)
      BY DEF ForwardPiece, Indexed
    <2>2. /\ Restored(e, token) = RestoredBy(TableOf(request[e]), token)
          /\ phase[e] = "passing" => RestoredBy(TableOf(request[e]), token) = token
      BY <1>2, RestoredIs
    <2>3. CASE phase[e] = "passing"
      BY <2>1, <2>2, <2>3 DEF Shown
    <2>4. CASE phase[e] = "streaming"
      <3>1. /\ ~ head[e].compressed /\ head[e].events # "none"
            /\ head[e].events \in {"none", "text_delta", "other"}
        BY <1>1, <1>2, <2>4 DEF Undecodable, Good, ReplyIn, IsEventStream, ReplyHead, EventKind
      <3> QED
        BY <2>1, <2>2, <2>4, <3>1 DEF Shown, Reversed
    <2> QED
      BY <1>1, <2>3, <2>4
  <1>5. Shown(e, token) \in Token
    <2>1. IsTable(TableOf(request[e]))
      BY <1>2, RestoredIs, TableOfIsTable
    <2> QED
      BY <1>3, <2>1, RestoredType DEF Shown
  <1> HIDE DEF token
  <1>6. /\ delivered'[e] \in Seq(Token) /\ Len(delivered'[e]) = n + 1
        /\ \A i \in 1 .. n : delivered'[e][i] = delivered[e][i]
        /\ delivered'[e][n + 1] = Shown(e, token)
    BY <1>2, <1>4, <1>5
  <1>7. Shape(e)'
    BY <1>1, <1>6 DEF Good, Shape
  <1>8. RequestOut(e)' /\ TableHeld(e)' /\ Complete(e)'
    BY <1>1 DEF Good, RequestOut, TableHeld, Complete
  <1>9. ReplyIn(e)'
    <2>1. phase[e] = "streaming" => IsEventStream(head[e]) /\ ~ head[e].compressed
      BY <1>1 DEF Undecodable, Good, ReplyIn
    <2>2. phase[e] = "passing" => IsEmpty(TableOf(request[e]))
      BY <1>2 DEF Good, TableHeld
    <2> QED
      BY <1>1, <1>2, <2>1, <2>2, RelayAssumption DEF Good, ReplyIn, IsEventStream
  <1>10. ReplyOut(e)'
    <2>1. ASSUME NEW i \in 1 .. n + 1 PROVE delivered'[e][i] = Shown(e, wire[e][i])
      <3>1. CASE i = n + 1
        BY <1>6, <3>1 DEF token
      <3>2. CASE i # n + 1
        <4>1. i \in 1 .. n
          BY <1>3, <3>2
        <4> QED
          BY <1>6, <4>1 DEF Good, ReplyOut
      <3> QED
        BY <3>1, <3>2
    <2>2. Len(delivered'[e]) <= Len(wire'[e])
      BY <1>1, <1>3, <1>6
    <2>3. ASSUME NEW i \in 1 .. Len(delivered'[e])
          PROVE  delivered'[e][i] = IF Reversed(e)'
                                    THEN RestoredBy(TableOf(request'[e]), wire'[e][i])
                                    ELSE wire'[e][i]
      <3>1. Reversed(e)' = Reversed(e)
        BY <1>1 DEF Reversed
      <3> QED
        BY <1>1, <1>6, <2>1, <3>1 DEF Shown
    <2> QED
      BY <2>2, <2>3 DEF ReplyOut, Shown
  <1> QED
    BY <1>7, <1>8, <1>9, <1>10 DEF Good

LEMMA ForwardEndGood ==
  ASSUME NEW e \in Exchange, Good(e), Indexed, ForwardEnd(e)
  PROVE  Good(e)'
  <1>1. /\ phase[e] \in {"passing", "streaming"} /\ ending[e] # "open"
        /\ Undecodable(e) \/ Len(delivered[e]) = Len(wire[e])
        /\ UNCHANGED <<request, outbound, head, wire, ending, delivered>>
    BY DEF ForwardEnd
  <1>2. PICK p \in {"done", "failed"} :
          Return(e, p, status[e]) /\ (p = "done" => ending[e] = "ended")
    BY DEF ForwardEnd
  <1>3. p \in Over /\ phase[e] # "idle"
    BY <1>1 DEF Over
  <1>4. /\ status[e] = "upstream" /\ head[e] # NoHead /\ head[e] \in ReplyHead
        /\ delivered[e] \in Seq(Token)
    BY <1>1 DEF Good, ReplyIn, Shape
  <1>5. phase'[e] = p /\ status'[e] = "upstream" /\ RequestOut(e)' /\ TableHeld(e)' /\ Shape(e)'
    BY <1>1, <1>2, <1>3, <1>4, ReturnKeeps
  <1>6. ReplyIn(e)'
    BY <1>1, <1>2, <1>4, <1>5 DEF Good, ReplyIn
  <1>7. ReplyOut(e)'
    BY <1>1 DEF Good, ReplyOut, Shown, Reversed
  <1>8. Complete(e)'
    <2>1. Undecodable(e) =>
            /\ IsEventStream(head[e]) /\ ~ IsEmpty(TableOf(request[e]))
            /\ (head[e].compressed /\ delivered[e] = << >>) \/ GarbledNext(e)
      BY DEF Undecodable, Good, ReplyIn, TableHeld, Waiting
    <2>2. GarbledNext(e)' = GarbledNext(e)
      BY <1>1 DEF GarbledNext
    <2> QED
      BY <1>1, <1>2, <1>4, <1>5, <2>1, <2>2 DEF Complete
  <1> QED
    BY <1>5, <1>6, <1>7, <1>8 DEF Good

LEMMA ReplyBufferedGood ==
  ASSUME NEW e \in Exchange, Good(e), Indexed, ReplyBuffered(e)
  PROVE  Good(e)'
  <1>1. /\ phase[e] = "buffering" /\ ending[e] = "ended" /\ Return(e, "done", "upstream")
        /\ UNCHANGED <<request, outbound, head, wire, ending>>
    BY DEF ReplyBuffered
  <1>2. /\ head[e] # NoHead /\ head[e] \in ReplyHead /\ wire[e] \in Seq(Token)
        /\ head[e].events = "none" /\ phase[e] \in Waiting
    BY <1>1 DEF Good, ReplyIn, Shape, IsEventStream, Waiting
  <1>3. IsTable(TableOf(request[e]))
    BY <1>2, RestoredIs, TableOfIsTable
  <1>4. \A token \in Token : Shown(e, token) \in Token
    BY <1>3, RestoredType DEF Shown
  <1>5. \A token : Restored(e, token) = RestoredBy(TableOf(request[e]), token)
    BY <1>2, RestoredIs
  <1>6. /\ delivered'[e] \in Seq(Token) /\ Len(delivered'[e]) = Len(wire[e])
        /\ \A i \in 1 .. Len(wire[e]) : delivered'[e][i] = Shown(e, wire[e][i])
    <2>1. delivered'[e] = IF ~ head[e].compressed /\ IsText(wire[e])
                          THEN [i \in 1 .. Len(wire[e]) |-> Restored(e, wire[e][i])] ELSE wire[e]
      BY DEF ReplyBuffered, Indexed
    <2>2. CASE ~ head[e].compressed /\ IsText(wire[e])
      <3>1. delivered'[e] = [i \in 1 .. Len(wire[e]) |-> Shown(e, wire[e][i])]
        BY <1>2, <1>5, <2>1, <2>2 DEF Shown, Reversed
      <3>2. Len(wire[e]) \in Nat /\ \A i \in 1 .. Len(wire[e]) : wire[e][i] \in Token
        BY <1>2
      <3>3. [i \in 1 .. Len(wire[e]) |-> Shown(e, wire[e][i])] \in [1 .. Len(wire[e]) -> Token]
        BY <1>4, <3>2
      <3> QED
        BY <3>1, <3>2, <3>3, FunctionIsSequence
    <2>3. CASE ~ (~ head[e].compressed /\ IsText(wire[e]))
      BY <1>2, <2>1, <2>3 DEF Shown, Reversed
    <2> QED
      BY <2>2, <2>3
  <1>7. /\ phase'[e] = "done" /\ status'[e] = "upstream" /\ RequestOut(e)' /\ TableHeld(e)'
        /\ Shape(e)'
    <2>1. "done" \in Over /\ phase[e] # "idle"
      BY <1>1 DEF Over
    <2> QED
      BY <1>1, <1>6, <2>1, ReturnKeeps
  <1>8. ReplyIn(e)'
    BY <1>1, <1>2, <1>7 DEF Good, ReplyIn
  <1>9. ReplyOut(e)'
    <2>1. Len(wire[e]) \in Nat
      BY <1>2
    <2>2. /\ head'[e] = head[e] /\ request'[e] = request[e] /\ wire'[e] = wire[e]
      BY <1>1
    <2>3. ASSUME NEW i \in 1 .. Len(delivered'[e])
          PROVE  delivered'[e][i] = IF Reversed(e)'
                                    THEN RestoredBy(TableOf(request'[e]), wire'[e][i])
                                    ELSE wire'[e][i]
      <3>1. Reversed(e)' = Reversed(e)
        BY <2>2 DEF Reversed
      <3> QED
        BY <1>6, <2>2, <3>1 DEF Shown
    <2> QED
      BY <1>6, <2>1, <2>2, <2>3 DEF ReplyOut, Shown
  <1>10. Complete(e)'
    BY <1>1, <1>2, <1>6 DEF Complete
  <1> QED
    BY <1>7, <1>8, <1>9, <1>10 DEF Good

LEMMA StepGood ==
  ASSUME NEW e \in Exchange, Good(e), Indexed, Relay(e) \/ Environment(e)
  PROVE  Good(e)'
  <1>1. /\ status[e] \in {"none", "upstream", "not_found", "bad_request", "bad_gateway"}
        /\ head[e] = NoHead => status[e] # "upstream"
    BY DEF Good, Shape, ReplyIn
  <1>2. {"done", "failed", "aborted"} \subseteq Over
    BY DEF Over
  <1>3. CASE ReadFails(e)
    BY <1>2, <1>3, ReturnGood DEF ReadFails
  <1>4. CASE SendFails(e)
    BY <1>2, <1>4, ReturnGood DEF SendFails
  <1>5. CASE BufferFails(e)
    BY <1>2, <1>5, ReturnGood DEF BufferFails
  <1>6. CASE Abort(e)
    <2>1. /\ phase[e] \in {"reading", "sent", "passing", "streaming", "buffering"}
          /\ Return(e, "aborted", status[e])
          /\ UNCHANGED <<request, outbound, head, wire, ending, delivered>>
      BY <1>6 DEF Abort
    <2>2. status[e] \in {"none", "upstream"}
      BY <2>1 DEF Good, ReplyIn
    <2> QED
      BY <1>1, <1>2, <2>1, <2>2, ReturnGood
  <1> QED
    BY <1>3, <1>4, <1>5, <1>6, AcceptGood, ForwardRequestGood, RelayReplyGood, UpstreamSendsGood,
       ForwardPieceGood, ForwardEndGood, ReplyBufferedGood DEF Relay, Environment

LEMMA NextIInv == IInv /\ [Next]_vars => IInv'
  <1> SUFFICES ASSUME IInv, [Next]_vars PROVE IInv'
    OBVIOUS
  <1>2. ASSUME UNCHANGED <<phase, request, placeholder_map, outbound, head, wire, ending, status,
                           delivered>>,
               server' \in {"running", "draining", "stopped"}
        PROVE  IInv'
    <2>1. \A e \in Exchange : Same(e)
      BY <1>2 DEF Same
    <2>2. \A e \in Exchange : Good(e)'
      BY <2>1, SameStaysGood DEF IInv
    <2>3. Indexed'
      BY <1>2 DEF IInv, Indexed
    <2> QED
      BY <1>2, <2>2, <2>3 DEF IInv
  <1>3. CASE UNCHANGED vars
    BY <1>2, <1>3 DEF vars, IInv
  <1>4. CASE Shutdown \/ Stop
    BY <1>2, <1>4 DEF Shutdown, Stop
  <1>5. CASE \E e \in Exchange : Relay(e) \/ Environment(e)
    <2>1. PICK e \in Exchange : Relay(e) \/ Environment(e)
      BY <1>5
    <2>2. Indexed' /\ \A f \in Exchange \ {e} : Same(f)
      BY <2>1, OthersKeep DEF IInv
    <2>3. ASSUME NEW f \in Exchange PROVE Good(f)'
      <3>1. CASE f = e
        BY <2>1, <3>1, StepGood DEF IInv
      <3>2. CASE f # e
        BY <2>2, <3>2, SameStaysGood DEF IInv
      <3> QED
        BY <3>1, <3>2
    <2>4. server' = server
      BY <2>1 DEF Relay, Environment, ForwardPiece, ForwardEnd, ReplyBuffered, BufferFails, Accept,
                  ReadFails, ForwardRequest, SendFails, RelayReply, UpstreamSends, Abort
    <2> QED
      BY <2>2, <2>3, <2>4 DEF IInv
  <1> QED
    BY <1>3, <1>4, <1>5 DEF Next

\* Every reachable state satisfies the inductive invariant.
THEOREM Invariance == Spec => []IInv
  BY InitIInv, NextIInv, PTL DEF Spec

-----------------------------------------------------------------------------
(***************************************************************************)
(* What follows.                                                           *)
(***************************************************************************)

\* What left for a text request was rendered from it, with its table.
LEMMA RedactedIsRendered ==
  ASSUME NEW e \in Exchange, Good(e), Redacted(e)
  PROVE  /\ request[e] \in RequestOf[e] /\ outbound[e] = SentFor(request[e])
         /\ Rendered(TableOf(request[e]), Words(request[e].body), Words(outbound[e].body))
         /\ TagKept(request[e].body.field.tag, outbound[e].body.field.tag)
         /\ HasPrompt(Words(outbound[e].body)) <=> Due(request[e])
  <1>1. /\ request[e] \in RequestOf[e] /\ request[e].path \in DOMAIN Route
        /\ outbound[e] = SentFor(request[e])
    BY DEF Redacted, Good, Shape, RequestOut
  <1>2. request[e].body.utf8
    BY <1>1 DEF Redacted, SentFor
  <1> QED
    BY <1>1, <1>2, SentForRenders

\* The state of the relay has the shape the code gives it.
THEOREM TypeCorrect == Spec => []TypeOK
  <1>1. IInv => TypeOK
    <2>1. SUFFICES ASSUME IInv PROVE TypeOK
      OBVIOUS
    <2>2. ASSUME NEW e \in Exchange
          PROVE  /\ request[e] \in RequestOf[e] \cup {NoRequest}
                 /\ phase[e] = "idle" <=> request[e] = NoRequest
                 /\ IsMap(placeholder_map[e])
                 /\ phase[e] \in {"streaming", "buffering"} => ~ IsEmpty(placeholder_map[e])
                 /\ wire[e] \in Seq(Token) /\ delivered[e] \in Seq(Token)
                 /\ ending[e] \in {"open", "ended", "broken"}
                 /\ status[e] \in {"none", "upstream", "not_found", "bad_request", "bad_gateway"}
      <3>1. Good(e)
        BY <2>1 DEF IInv
      <3>2. IsMap(placeholder_map[e])
        <4>1. CASE phase[e] \in Waiting
          <5>1. request[e] \in RequestOf[e] /\ placeholder_map[e] = TableOf(request[e])
            BY <3>1, <4>1 DEF Good, Shape, TableHeld, Waiting
          <5> QED
            BY <5>1, TableOfIsTable DEF IsTable
        <4>2. CASE phase[e] \notin Waiting
          BY <3>1, <4>2, EmptyMapOK DEF Good, TableHeld
        <4> QED
          BY <4>1, <4>2
      <3> QED
        BY <3>1, <3>2 DEF Good, Shape, TableHeld
    <2>3. phase \in [Exchange -> Phases] /\ status = [e \in Exchange |-> status[e]]
      BY <2>1 DEF IInv, Indexed
    <2>4. status \in [Exchange -> {"none", "upstream", "not_found", "bad_request", "bad_gateway"}]
      BY <2>2, <2>3
    <2> QED
      BY <2>1, <2>2, <2>3, <2>4 DEF TypeOK, IInv, Phases
  <1> QED
    BY <1>1, Invariance, PTL

\* No secret of a text request leaves, in whatever field it stands, whatever
\* shape the prompt takes (handler.rs, lib.rs:redact, system_prompt.rs).
THEOREM SecretsStay == Spec => []NoSecretLeaves
  <1>1. IInv => NoSecretLeaves
    BY RedactedIsRendered, RenderedHides DEF IInv, NoSecretLeaves
  <1> QED
    BY <1>1, Invariance, PTL

\* Where the body can take it, and only there, the prompt comes first, and the
\* client's words survive behind it, in all body shapes (system_prompt.rs:57-71).
THEOREM PromptFirst == Spec => []PromptPrepended
  <1>1. IInv => PromptPrepended
    <2>1. SUFFICES ASSUME IInv, NEW e \in Exchange, Redacted(e)
                   PROVE  LET sent == Words(request[e].body)
                              words == Words(outbound[e].body)
                              got == ClientWords(e)
                              had == request[e].body.field.tag
                              has == outbound[e].body.field.tag
                          IN  /\ PromptDue(e) <=> words # << >> /\ words[1] = Preamble
                              /\ Len(got) = Len(sent)
                              /\ \A i, j \in 1 .. Len(sent) :
                                   /\ sent[i] \notin Text => got[i] = sent[i]
                                   /\ {sent[i], sent[j]} \subseteq Text =>
                                        (sent[i] = sent[j] <=> got[i] = got[j])
                              /\ had = has \/ (had \in {"absent", "null"} /\ has = "string")
                              /\ \A i \in 1 .. Len(words) : words[i] = Preamble => i = 1
      BY DEF PromptPrepended
    <2> DEFINE sent == Words(request[e].body)
               words == Words(outbound[e].body)
    <2>2. /\ Rendered(TableOf(request[e]), sent, words)
          /\ TagKept(request[e].body.field.tag, outbound[e].body.field.tag)
          /\ HasPrompt(words) <=> Due(request[e])
      BY <2>1, RedactedIsRendered DEF IInv
    <2>3. ClientWords(e) = BehindPrompt(words)
      BY DEF ClientWords, BehindPrompt
    <2> HIDE DEF sent, words
    <2>4. \A i \in 1 .. Len(words) : words[i] = Preamble => i = 1
      BY <2>2, RenderedHides
    <2>5. /\ Len(BehindPrompt(words)) = Len(sent)
          /\ \A i \in 1 .. Len(sent) : sent[i] \notin Text => BehindPrompt(words)[i] = sent[i]
          /\ \A i, j \in 1 .. Len(sent) :
               sent[i] \in Text /\ sent[j] \in Text =>
                 (sent[i] = sent[j] <=> BehindPrompt(words)[i] = BehindPrompt(words)[j])
      BY <2>2, RenderedKeeps
    <2>6. PromptDue(e) <=> words # << >> /\ words[1] = Preamble
      BY <2>2 DEF PromptDue, Due, HasPrompt
    <2> QED
      BY <2>2, <2>3, <2>4, <2>5, <2>6 DEF sent, words, TagKept
  <1> QED
    BY <1>1, Invariance, PTL

\* The client reads the reply with its own secrets put back, and all of it,
\* an event stream at least to the first byte that is not UTF-8 (handler.rs,
\* reverse.rs, sse.rs:91-98).
THEOREM RepliesRestored == Spec => []ReplyRestored
  <1>1. IInv => ReplyRestored
    <2>1. SUFFICES ASSUME IInv, NEW e \in Exchange, Redacted(e),
                          head[e] # NoHead, Reversed(e)
                   PROVE  /\ \A i \in 1 .. Len(delivered[e]) : Reads(e, wire[e][i], delivered[e][i])
                          /\ phase[e] = "done" /\ status[e] = "upstream" =>
                               Len(delivered[e]) = Len(wire[e])
                                 \/ (IsEventStream(head[e]) /\ GarbledNext(e))
      BY DEF ReplyRestored, Reversed
    <2>2. Good(e)
      BY <2>1 DEF IInv
    <2>3. ASSUME NEW i \in 1 .. Len(delivered[e]) PROVE Reads(e, wire[e][i], delivered[e][i])
      <3> DEFINE sent == Words(request[e].body)
                 words == Words(outbound[e].body)
                 map == TableOf(request[e])
                 token == wire[e][i]
      <3>1. delivered[e][i] = RestoredBy(map, token)
        BY <2>1, <2>2 DEF Good, ReplyOut, Shown
      <3>2. Rendered(map, sent, words)
        BY <2>1, <2>2, RedactedIsRendered
      <3>3. StandsFor(e, token) = Origins(sent, BehindPrompt(words), token)
        BY DEF StandsFor, Origins, ClientWords, BehindPrompt
      <3> HIDE DEF sent, words, map, token
      <3>4. \/ Origins(sent, BehindPrompt(words), token) = {RestoredBy(map, token)}
            \/ /\ Origins(sent, BehindPrompt(words), token) = {}
               /\ RestoredBy(map, token) = token
        BY <3>2, RestoredIsOrigin
      <3>5. Reads(e, token, delivered[e][i])
        BY <3>1, <3>3, <3>4 DEF Reads
      <3> QED
        BY <3>5 DEF token
    <2>4. phase[e] = "done" /\ status[e] = "upstream" =>
            Len(delivered[e]) = Len(wire[e]) \/ (IsEventStream(head[e]) /\ GarbledNext(e))
      BY <2>1, <2>2 DEF Good, Complete, Reversed
    <2> QED
      BY <2>3, <2>4
  <1> QED
    BY <1>1, Invariance, PTL

\* A table is empty unless the request had a secret.
LEMMA TableHasSecret ==
  ASSUME NEW e \in Exchange, Good(e), head[e] # NoHead, ~ IsEmpty(TableOf(request[e]))
  PROVE  HadSecret(e)
  <1>1. request[e] \in RequestOf[e]
    BY DEF Good, Shape, ReplyIn
  <1>2. request[e].body.utf8
    BY DEF TableOf, IsEmpty, Minted, EmptyMap
  <1> DEFINE map == TableOf(request[e])
             sent == Words(request[e].body)
  <1>3. Covers(map, sent, Len(sent))
    BY <1>1, <1>2, RequestType, RedactBodyTurns DEF TableOf
  <1> HIDE DEF map, sent
  <1>4. PICK token \in Minted(map) : TRUE
    BY DEF IsEmpty, map
  <1>5. PICK s \in DOMAIN map.forward : map.forward[s] = token
    BY <1>3, <1>4 DEF Covers, Consistent, NoOrphans, Minted
  <1>6. \E j \in 1 .. Len(sent) : sent[j] \in Text
    BY <1>3, <1>5 DEF Covers
  <1> QED
    BY <1>2, <1>6 DEF HadSecret, sent

\* A reply that broke off never looks complete; one that looks so is complete,
\* but for event streams that must be reversed and are compressed or have a
\* byte that is not UTF-8; and a reply in one piece that cannot be read
\* arrives as it was sent (handler.rs:177, 249-257, sse.rs:91-98, 143-150).
THEOREM CutOnlyWhereUnreadable == Spec => []CutOnlyUnreadable
  <1>1. IInv => CutOnlyUnreadable
    <2>1. SUFFICES ASSUME IInv, NEW e \in Exchange
                   PROVE  /\ phase[e] = "done" /\ status[e] = "upstream" =>
                               /\ ending[e] = "ended"
                               /\ Len(delivered[e]) = Len(wire[e]) \/ Unreadable(e)
                          /\ /\ head[e] # NoHead
                             /\ head[e].compressed
                                  \/ (head[e].events = "none" /\ ~ IsText(wire[e]))
                             => IsPrefix(delivered[e], wire[e])
      BY DEF CutOnlyUnreadable
    <2>2. Good(e)
      BY <2>1 DEF IInv
    <2>3. phase[e] = "done" /\ status[e] = "upstream" =>
            ending[e] = "ended" /\ (Len(delivered[e]) = Len(wire[e]) \/ Unreadable(e))
      <3>1. SUFFICES ASSUME phase[e] = "done", status[e] = "upstream",
                            Len(delivered[e]) # Len(wire[e])
                     PROVE  Unreadable(e)
        BY <2>2 DEF Good, Complete
      <3>2. /\ head[e] # NoHead /\ IsEventStream(head[e]) /\ ~ IsEmpty(TableOf(request[e]))
            /\ (head[e].compressed /\ delivered[e] = << >>) \/ GarbledNext(e)
        BY <2>2, <3>1 DEF Good, Complete
      <3>3. HadSecret(e) /\ (head[e].compressed => outbound[e].encodings)
        BY <2>2, <3>2, TableHasSecret DEF Good, ReplyIn
      <3> QED
        BY <3>2, <3>3 DEF Unreadable
    <2>4. ASSUME head[e] # NoHead,
                 head[e].compressed \/ (head[e].events = "none" /\ ~ IsText(wire[e]))
          PROVE  IsPrefix(delivered[e], wire[e])
      <3>1. /\ delivered[e] \in Seq(Token) /\ wire[e] \in Seq(Token)
            /\ Len(delivered[e]) <= Len(wire[e])
            /\ \A i \in 1 .. Len(delivered[e]) : delivered[e][i] = wire[e][i]
        BY <2>2, <2>4 DEF Good, Shape, ReplyOut, Shown, Reversed
      <3>2. \A s, t : s \in Seq(Token) /\ t \in Seq(Token) /\ Len(s) <= Len(t)
                      /\ (\A i \in 1 .. Len(s) : s[i] = t[i]) => IsPrefix(s, t)
        <4>1. ASSUME NEW s \in Seq(Token), NEW t \in Seq(Token), Len(s) <= Len(t),
                     \A i \in 1 .. Len(s) : s[i] = t[i]
              PROVE  IsPrefix(s, t)
          <5>1. Len(s) \in 0 .. Len(t)
            BY <4>1
          <5>2. ASSUME NEW u, u = SubSeq(t, 1, Len(s)) PROVE s = u
            <6>1. u \in Seq(Token) /\ Len(u) = Len(s) /\ StandsIn(u, t, 0)
              BY <5>1, <5>2, Cut
            <6>2. \A i \in 1 .. Len(s) : s[i] = u[i]
              BY <4>1, <6>1 DEF StandsIn
            <6> QED
              BY <6>1, <6>2, SeqEqual
          <5> QED
            BY <4>1, <5>2 DEF IsPrefix
        <4> QED
          BY <4>1
      <3> QED
        BY <3>1, <3>2
    <2> QED
      BY <2>3, <2>4
  <1> QED
    BY <1>1, Invariance, PTL

=============================================================================
