------------------------ MODULE PlaceholderEvalProofs ------------------------
(***************************************************************************)
(* Theorems about PlaceholderEval, for any directories, formats and        *)
(* numbers of runs.                                                        *)
(*                                                                         *)
(* The first half is about functions: what is read from a file that main   *)
(* lets through (ParsedIsUsable), what replacing its secret does           *)
(* (ReplacedMeasures), that file names can be put in order (SortedExists), *)
(* and how a record's place in a list leads to its cell (CellsInOrder).    *)
(* The second half is the inductive invariant, which says at each point of *)
(* an iteration how what was paid for, the records in memory and the file  *)
(* are related (Progress), and what is left of that between runs.          *)
(***************************************************************************)
EXTENDS PlaceholderEval, Integers, SequenceTheorems, FiniteSetTheorems, TLAPS

\* The lemmas on sequences, without kinds of secrets.
Shared == INSTANCE LibraryProofs WITH Kind <- {}, Text <- {}, TypeSlug <- << >>

LEMMA SharedAssumption == Shared!SlugsDistinct
  BY DEF Shared!SlugsDistinct

LEMMA FlattenIs == \A s : FlattenSeq(s) = Shared!FlattenSeq(s)
  BY DEF FlattenSeq, Shared!FlattenSeq

-----------------------------------------------------------------------------
(***************************************************************************)
(* Fixtures.                                                               *)
(***************************************************************************)

\* What a text may consist of.
Spoken == Word \cup {<<tag>> : tag \in Header}

Rendered == ToSet(Formats) \X Seq(Word) \X Nat

Fixture == [name : Nat, secret_text : Seq(Word), secret_type : Seq(Word), text : Seq(Spoken)]

\* The secret is one word of the text, or none.
Usable(f) ==
  /\ f \in Fixture
  /\ \A j \in 1 .. Len(f.secret_text) : j = 1
  /\ f.secret_text # << >> => \E j \in 1 .. Len(f.text) : f.text[j] = f.secret_text[1]

OneWord(raw) ==
  \A j \in 1 .. Len(raw) : raw[j].tag = "SECRET_TEXT=" => Len(raw[j].words) <= 1

LEMMA BodyStartType ==
  ASSUME NEW raw \in Seq(Line)
  PROVE  BodyStart(raw) \in 0 .. Len(raw)
  <1> DEFINE I == {j \in 1 .. Len(raw) : raw[j].tag \notin Header}
  <1>1. BodyStart(raw) = IF I # {} THEN Min(I) ELSE 0
    BY DEF BodyStart, SelectInSeq
  <1>2. ASSUME I # {} PROVE Min(I) \in I
    <2>1. I \subseteq Nat
      OBVIOUS
    <2>2. \E x \in I : \A y \in I : x <= y
      BY <1>2, <2>1, Shared!LeastMember, SharedAssumption
    <2>3. QED
      BY <2>2 DEF Min
  <1>3. QED
    BY <1>1, <1>2

LEMMA HeadersAre ==
  ASSUME NEW raw \in Seq(Line)
  PROVE  /\ Headers(raw) \in Seq(Line)
         /\ Len(Headers(raw)) <= Len(raw)
         /\ \A j \in 1 .. Len(Headers(raw)) : j \in 1 .. Len(raw) /\ Headers(raw)[j] = raw[j]
  <1>1. CASE BodyStart(raw) = 0
    BY <1>1 DEF Headers
  <1>2. CASE BodyStart(raw) # 0
    <2>1. BodyStart(raw) - 1 \in 0 .. Len(raw)
      BY <1>2, BodyStartType
    <2>2. ASSUME NEW n, n = BodyStart(raw) - 1
          PROVE  /\ SubSeq(raw, 1, n) \in Seq(Line) /\ Len(SubSeq(raw, 1, n)) = n
                 /\ \A j \in 1 .. n : SubSeq(raw, 1, n)[j] = raw[j]
      BY <2>1, <2>2, SubSeqProperties
    <2>3. QED
      BY <1>2, <2>1, <2>2 DEF Headers
  <1>3. QED
    BY <1>1, <1>2

\* The last header of a kind that is there is one of the file's lines.
LEMMA ValueIs ==
  ASSUME NEW raw \in Seq(Line), NEW tag, Has(raw, tag)
  PROVE  \E j \in 1 .. Len(raw) : raw[j].tag = tag /\ Value(raw, tag) = raw[j].words
  <1> DEFINE I == {j \in 1 .. Len(Headers(raw)) : Headers(raw)[j].tag = tag}
  <1>1. I # {} /\ I \subseteq 0 .. Len(raw)
    BY HeadersAre DEF Has
  <1>2. Max(I) \in I
    <2>1. \E x \in I : \A y \in I : y <= x
      <3> HIDE DEF I
      <3>1. Len(raw) \in Nat
        OBVIOUS
      <3>2. QED
        BY <1>1, <3>1, Shared!GreatestMember, SharedAssumption
    <2>2. \A x, y \in I : y <= x <=> x >= y
      BY <1>1
    <2>3. QED
      BY <2>1, <2>2 DEF Max
  <1>3. Value(raw, tag) = raw[Max(I)].words
    <2>1. SelectLastInSeq(Headers(raw), LAMBDA line : line.tag = tag)
            = IF I # {} THEN Max(I) ELSE 0
      BY DEF SelectLastInSeq
    <2>2. QED
      BY <1>1, <2>1 DEF Value
  <1>4. QED
    BY <1>2, <1>3, HeadersAre

LEMMA BodyType ==
  ASSUME NEW raw \in Seq(Line)
  PROVE  Body(raw) \in Seq(Spoken)
  <1>1. CASE BodyStart(raw) = 0
    BY <1>1 DEF Body
  <1>2. CASE BodyStart(raw) # 0
    <2>1. ASSUME NEW lines, lines = SubSeq(raw, BodyStart(raw), Len(raw))
          PROVE  FlattenSeq([j \in 1 .. Len(lines) |-> WordsOf(lines[j])]) \in Seq(Spoken)
      <3>1. lines \in Seq(Line)
        BY <1>2, <2>1, BodyStartType, SubSeqProperties
      <3>2. ASSUME NEW j \in 1 .. Len(lines) PROVE WordsOf(lines[j]) \in Seq(Spoken)
        <4>1. lines[j] \in Line
          BY <3>1
        <4>2. lines[j].words \in Seq(Spoken)
          BY <4>1, SeqMonotonic DEF Line, Spoken
        <4>3. lines[j].tag \in Header => <<<<lines[j].tag>>>> \in Seq(Spoken)
          BY DEF Spoken
        <4>4. QED
          BY <4>2, <4>3, ConcatProperties DEF WordsOf
      <3>3. [j \in 1 .. Len(lines) |-> WordsOf(lines[j])] \in Seq(Seq(Spoken))
        BY <3>1, <3>2, Shared!FunctionIsSequence, SharedAssumption
      <3>4. QED
        BY <3>3, Shared!FlattenType, SharedAssumption, FlattenIs
    <2>2. QED
      BY <1>2, <2>1 DEF Body
  <1>3. QED
    BY <1>1, <1>2

\* What main lets through can be measured with.
LEMMA ParsedIsUsable ==
  ASSUME NEW name \in Nat, NEW raw \in Seq(Line), OneWord(raw), ~ Malformed(raw)
  PROVE  Usable(ParseFixture(name, raw))
  <1>1. Has(raw, "SECRET_TEXT=") /\ Has(raw, "SECRET_TYPE=")
    BY DEF Malformed, HeaderMissing, Header
  <1>2. PICK j \in 1 .. Len(raw) :
          raw[j].tag = "SECRET_TEXT=" /\ Value(raw, "SECRET_TEXT=") = raw[j].words
    BY <1>1, ValueIs
  <1>3. Value(raw, "SECRET_TYPE=") \in Seq(Word)
    <2>1. PICK i \in 1 .. Len(raw) : Value(raw, "SECRET_TYPE=") = raw[i].words
      BY <1>1, ValueIs
    <2>2. raw[i] \in Line
      OBVIOUS
    <2>3. QED
      BY <2>1, <2>2 DEF Line
  <1>4. ASSUME NEW secret, secret = Value(raw, "SECRET_TEXT="), NEW text, text = Body(raw)
        PROVE  /\ secret \in Seq(Word) /\ text \in Seq(Spoken)
               /\ \A i \in 1 .. Len(secret) : i = 1
               /\ secret # << >> => \E i \in 1 .. Len(text) : text[i] = secret[1]
    <2>1. secret \in Seq(Word) /\ text \in Seq(Spoken) /\ Len(secret) <= 1
      <3>1. raw[j] \in Line /\ Len(raw[j].words) <= 1
        BY <1>2 DEF OneWord
      <3>2. QED
        BY <1>2, <1>4, <3>1, BodyType DEF Line
    <2>2. TextContains(text, secret)
      BY <1>4 DEF Malformed
    <2>3. DOMAIN text = 1 .. Len(text) /\ (secret # << >> => 1 \in DOMAIN secret)
      BY <2>1
    <2>4. secret # << >> => \E i \in 1 .. Len(text) : text[i] = secret[1]
      BY <2>2, <2>3 DEF TextContains, ToSet
    <2>5. \A i \in 1 .. Len(secret) : i = 1
      BY <2>1
    <2>6. QED
      BY <2>1, <2>4, <2>5
  <1>5. QED
    BY <1>3, <1>4 DEF ParseFixture, Usable, Fixture

\* evaluate does not refuse it.
LEMMA UsableContains ==
  ASSUME NEW f, Usable(f)
  PROVE  TextContains(f.text, f.secret_text)
  <1>1. DOMAIN f.text = 1 .. Len(f.text) /\ DOMAIN f.secret_text = 1 .. Len(f.secret_text)
    BY DEF Usable, Fixture
  <1>2. ASSUME NEW j \in 1 .. Len(f.secret_text)
        PROVE  \E i \in 1 .. Len(f.text) : f.text[i] = f.secret_text[j]
    <2>1. j = 1 /\ f.secret_text # << >>
      BY DEF Usable
    <2>2. QED
      BY <2>1 DEF Usable
  <1>3. QED
    BY <1>1, <1>2 DEF TextContains, ToSet

LEMMA RenderType ==
  ASSUME NEW format \in ToSet(Formats), NEW type \in Seq(Word), NEW n \in Nat
  PROVE  Render(format, type, n) \in Rendered
  <1>1. << >> \in Seq(Word) /\ 0 \in Nat
    OBVIOUS
  <1>2. ASSUME NEW t \in Seq(Word), NEW m \in Nat PROVE <<format, t, m>> \in Rendered
    BY DEF Rendered
  <1>3. ASSUME NEW t, t = (IF format \in {"mustache", "underscore_type", "guillemets"}
                           THEN type ELSE << >>),
               NEW m, m = (IF format \in {"angle_num", "underscore_type", "guillemets"}
                           THEN n ELSE 0)
        PROVE  t \in Seq(Word) /\ m \in Nat
    BY <1>1, <1>3
  <1>4. QED
    BY <1>2, <1>3 DEF Render

\* The placeholder is in the prompt, the secret is not.
LEMMA ReplacedMeasures ==
  ASSUME NEW f, Usable(f), NEW p \in Rendered
  PROVE  /\ p \in ToSet(Replaced(f.text, f.secret_text, p))
         /\ ToSet(f.secret_text) \cap ToSet(Replaced(f.text, f.secret_text, p)) = {}
  <1> DEFINE text == f.text
             secret == f.secret_text
  <1>1. text \in Seq(Spoken) /\ secret \in Seq(Word) /\ Len(text) \in Nat
    BY DEF Usable, Fixture
  <1>2. CASE secret = << >>
    <2>1. 1 \in 1 .. 2 * Len(text) + 1 /\ 1 % 2 = 1
      BY <1>1
    <2>2. Replaced(text, secret, p)[1] = p /\ 1 \in DOMAIN Replaced(text, secret, p)
      BY <1>2, <2>1 DEF Replaced
    <2>3. QED
      BY <1>2, <2>2 DEF ToSet
  <1>3. CASE secret # << >>
    <2>1. Head(secret) = secret[1] /\ secret[1] \in Word /\ DOMAIN secret = {1}
      <3>1. Len(secret) # 0 /\ DOMAIN secret = 1 .. Len(secret)
        BY <1>1, <1>3
      <3>2. \A i \in 1 .. Len(secret) : i = 1
        BY DEF Usable
      <3>3. Len(secret) = 1
        <4>1. Len(secret) \in 1 .. Len(secret)
          BY <1>1, <3>1
        <4>2. QED
          BY <3>2, <4>1
      <3>4. QED
        BY <1>1, <3>1, <3>3
    <2>2. PICK j \in 1 .. Len(text) : text[j] = secret[1]
      BY <1>3 DEF Usable
    <2>3. Replaced(text, secret, p)
            = [i \in 1 .. Len(text) |-> IF text[i] = secret[1] THEN p ELSE text[i]]
      BY <1>3, <2>1 DEF Replaced
    <2>4. p # secret[1]
      BY <2>1, WordAssumption DEF Rendered
    <2>5. QED
      BY <2>1, <2>2, <2>3, <2>4 DEF ToSet
  <1>4. QED
    BY <1>2, <1>3

-----------------------------------------------------------------------------
(***************************************************************************)
(* The order of the files.                                                 *)
(***************************************************************************)

\* Numbers that differ can be put in order: the least one, then the others.
LEMMA SortedExists ==
  ASSUME NEW n \in Nat, NEW f \in [1 .. n -> Nat], IsInjective(f)
  PROVE  \E s \in [1 .. n -> ToSet(f)] : Ascending(s)
  <1> DEFINE Sortable(m) == \A g \in [1 .. m -> Nat] :
               IsInjective(g) => \E s \in [1 .. m -> ToSet(g)] : Ascending(s)
             T == {m \in Nat : Sortable(m)}
  <1>1. 0 \in T
    <2>1. ASSUME NEW g \in [1 .. 0 -> Nat]
          PROVE  g \in [1 .. 0 -> ToSet(g)] /\ Ascending(g)
      BY DEF Ascending
    <2>2. QED
      BY <2>1
  <1>2. ASSUME NEW m \in Nat, m \in T PROVE m + 1 \in T
    <2> SUFFICES ASSUME NEW g \in [1 .. m + 1 -> Nat], IsInjective(g)
                 PROVE  \E t \in [1 .. m + 1 -> ToSet(g)] : Ascending(t)
      OBVIOUS
    <2>1. PICK i \in 1 .. m + 1 : \A j \in 1 .. m + 1 : g[i] <= g[j]
      <3>1. ToSet(g) \subseteq Nat /\ ToSet(g) # {}
        <4>1. 1 \in DOMAIN g
          OBVIOUS
        <4>2. QED
          BY <4>1 DEF ToSet
      <3>2. \E x \in ToSet(g) : \A y \in ToSet(g) : x <= y
        BY <3>1, Shared!LeastMember, SharedAssumption
      <3>3. QED
        BY <3>2 DEF ToSet
    <2>2. ASSUME NEW h, h = [j \in 1 .. m |-> IF j = i THEN g[m + 1] ELSE g[j]]
          PROVE  \E t \in [1 .. m + 1 -> ToSet(g)] : Ascending(t)
      <3>1. h \in [1 .. m -> Nat] /\ m + 1 \in 1 .. m + 1 /\ 1 .. m \subseteq 1 .. m + 1
        BY <2>2
      <3>2. \A j \in 1 .. m : h[j] \in ToSet(g) /\ g[i] < h[j]
        <4>1. \A j \in 1 .. m + 1 : j # i => g[j] # g[i]
          BY DEF IsInjective
        <4>2. \A j \in 1 .. m + 1 : g[j] \in ToSet(g) /\ (j # i => g[i] < g[j])
          BY <2>1, <4>1 DEF ToSet
        <4>3. \A j \in 1 .. m : j # m + 1
          OBVIOUS
        <4>4. QED
          BY <2>2, <3>1, <4>2, <4>3
      <3>3. IsInjective(h)
        <4>1. ASSUME NEW j \in 1 .. m, NEW k \in 1 .. m, h[j] = h[k] PROVE j = k
          <5>1. \A a, b \in 1 .. m + 1 : g[a] = g[b] => a = b
            BY DEF IsInjective
          <5>2. QED
            BY <2>2, <3>1, <4>1, <5>1
        <4>2. QED
          BY <3>1, <4>1 DEF IsInjective
      <3>4. PICK s \in [1 .. m -> ToSet(h)] : Ascending(s)
        BY <1>2, <3>1, <3>3
      <3>5. \A j \in 1 .. m : s[j] \in ToSet(g) /\ s[j] \in Nat /\ g[i] < s[j]
        BY <3>1, <3>2 DEF ToSet
      <3>6. ASSUME NEW t, t = [j \in 1 .. m + 1 |-> IF j = 1 THEN g[i] ELSE s[j - 1]]
            PROVE  t \in [1 .. m + 1 -> ToSet(g)] /\ Ascending(t)
        <4>1. \A j \in 1 .. m + 1 : j # 1 => j - 1 \in 1 .. m
          OBVIOUS
        <4>2. t \in [1 .. m + 1 -> ToSet(g)]
          BY <3>5, <3>6, <4>1 DEF ToSet
        <4>3. ASSUME NEW j \in 1 .. m + 1, NEW k \in 1 .. m + 1, j < k PROVE t[j] < t[k]
          <5>1. t[k] = s[k - 1] /\ k - 1 \in 1 .. m
            BY <3>6, <4>3
          <5>2. CASE j = 1
            BY <3>5, <3>6, <5>1, <5>2
          <5>3. CASE j # 1
            <6>1. t[j] = s[j - 1] /\ j - 1 \in 1 .. m /\ j - 1 < k - 1
              BY <3>6, <4>3, <5>3
            <6>2. QED
              BY <3>4, <5>1, <6>1 DEF Ascending
          <5>4. QED
            BY <5>2, <5>3
        <4>4. QED
          BY <4>2, <4>3 DEF Ascending
      <3>7. QED
        BY <3>6
    <2>3. QED
      BY <2>2
  <1> HIDE DEF T
  <1>3. Nat \subseteq T
    BY <1>1, <1>2, Shared!Induction, SharedAssumption
  <1>4. QED
    BY <1>3 DEF T

LEMMA ByNameSorts ==
  ASSUME NEW dir \in Directory, NEW listing \in Listings(dir)
  PROVE  /\ Cardinality(DOMAIN dir) \in Nat /\ (DOMAIN dir # {} => Cardinality(DOMAIN dir) # 0)
         /\ DOMAIN listing = 1 .. Cardinality(DOMAIN dir)
         /\ ByName(listing) \in [1 .. Cardinality(DOMAIN dir) -> DOMAIN dir]
         /\ Ascending(ByName(listing))
  <1>1. IsFiniteSet(DOMAIN dir) /\ DOMAIN dir \subseteq Nat
    BY EvalAssumption
  <1>2. Cardinality(DOMAIN dir) \in Nat /\ (DOMAIN dir # {} => Cardinality(DOMAIN dir) # 0)
    BY <1>1, FS_CardinalityType, FS_EmptySet
  <1>3. ASSUME NEW n \in Nat, n = Cardinality(DOMAIN dir)
        PROVE  /\ DOMAIN listing = 1 .. n
               /\ ByName(listing) \in [1 .. n -> DOMAIN dir] /\ Ascending(ByName(listing))
    <2>1. listing \in [1 .. n -> DOMAIN dir] /\ IsInjective(listing)
      BY <1>3 DEF Listings
    <2>2. listing \in [1 .. n -> Nat] /\ ToSet(listing) \subseteq DOMAIN dir
      BY <1>1, <2>1 DEF ToSet
    <2>3. \E s \in [DOMAIN listing -> ToSet(listing)] : Ascending(s)
      BY <2>1, <2>2, SortedExists
    <2>4. ByName(listing) \in [DOMAIN listing -> ToSet(listing)] /\ Ascending(ByName(listing))
      BY <2>3 DEF ByName
    <2>5. QED
      BY <2>1, <2>2, <2>4
  <1>4. QED
    BY <1>2, <1>3

-----------------------------------------------------------------------------
(***************************************************************************)
(* Cells.                                                                  *)
(***************************************************************************)

\* A record of every one of m fixtures in every one of n formats: the number
\* of a record determines both.
LEMMA CellNumbers ==
  ASSUME NEW m \in Nat, NEW n \in Nat, n # 0, NEW k \in 1 .. m * n
  PROVE  /\ (k - 1) \div n \in 0 .. m - 1
         /\ (k - 1) % n \in 0 .. n - 1
  <1>1. ASSUME NEW q, q = (k - 1) \div n, NEW r, r = (k - 1) % n
        PROVE  q \in 0 .. m - 1 /\ r \in 0 .. n - 1
    <2>1. k - 1 \in Nat /\ k - 1 < m * n /\ m * n \in Nat
      OBVIOUS
    <2>2. q \in Nat /\ r \in 0 .. n - 1 /\ k - 1 = n * q + r
      BY <1>1, <2>1
    <2>3. ASSUME q >= m PROVE FALSE
      <3>1. PICK d \in Nat : q = m + d
        BY <2>2, <2>3
      <3>2. n * q = m * n + n * d /\ n * d \in Nat
        BY <3>1
      <3>3. QED
        BY <2>1, <2>2, <3>2
    <2>4. QED
      BY <2>2, <2>3
  <1>2. QED
    BY <1>1

-----------------------------------------------------------------------------
(***************************************************************************)
(* The inductive invariant.                                                *)
(***************************************************************************)

Result == [run : Nat, fixture : Nat, format : ToSet(Formats), placeholder : Rendered,
           preserved : BOOLEAN]

\* What a run asks about: usable fixtures, in order, and known formats.
Asked ==
  /\ fixtures \in Seq(Fixture) /\ Len(fixtures) # 0
  /\ formats \in Seq(ToSet(Formats)) /\ Len(formats) # 0
  /\ \A j \in 1 .. Len(fixtures) : Usable(fixtures[j])
  /\ \A j, k \in 1 .. Len(fixtures) : j < k => fixtures[j].name < fixtures[k].name

\* r is the record of the cell with number k.
OfCell(k, r) ==
  /\ r.run = runs
  /\ r.fixture = fixtures[FixtureNo(k)].name
  /\ r.format = formats[FormatNo(k)]
  /\ r.placeholder = PlaceholderOf(k)

\* The records are those of the first cells.
OfCells(records) ==
  /\ records \in Seq(Result) /\ Len(records) \in 0 .. CellCount
  /\ \A k \in 1 .. Len(records) : OfCell(k, records[k])

\* What was paid for is in memory, and all of it but the last answer in the
\* file, once there is one.
Progress ==
  /\ Asked /\ OfCells(results)
  /\ paid = Len(results)
  /\ pc = "asking" => /\ Len(results) < CellCount
                      /\ paid # 0 => file = Array(results)
  /\ pc = "opening" => /\ paid # 0
                       /\ paid # 1 => file = Array(SubSeq(results, 1, Len(results) - 1))
  /\ pc = "writing" => paid # 0 /\ file = Cut

Count(records) == Cardinality({k \in 1 .. Len(records) : records[k].run = runs})

\* What a run leaves behind.
Settled ==
  /\ ~ file.whole => outcome \in {"failed", "killed"}
  /\ file.whole => paid <= 1 + Count(file.records)
  /\ outcome = "ok" => file.whole /\ Len(file.records) = paid

\* A file that is not empty has the records of one run, in the order of cells.
Orderly(records) ==
  records # << >> =>
    /\ \A j, k \in 1 .. Len(records) : records[j].run = records[k].run
    /\ InCellOrder(records)

IInv ==
  /\ runs \in Nat /\ paid \in Nat
  /\ pc \in {"idle", "asking", "opening", "writing"}
  /\ outcome \in {"none", "running", "ok", "failed", "killed"}
  /\ pc = "idle" <=> outcome # "running"
  /\ file \in [whole : BOOLEAN, records : Seq(Result)]
  /\ file.whole => Orderly(file.records)
  /\ pc = "idle" => Settled
  /\ pc # "idle" => Progress

LEMMA CellTypes ==
  ASSUME Asked
  PROVE  /\ Len(fixtures) \in Nat /\ Len(formats) \in Nat /\ CellCount \in Nat /\ CellCount # 0
         /\ \A k \in 1 .. CellCount :
              /\ FixtureNo(k) \in 1 .. Len(fixtures) /\ FormatNo(k) \in 1 .. Len(formats)
              /\ Usable(fixtures[FixtureNo(k)]) /\ formats[FormatNo(k)] \in ToSet(Formats)
              /\ PlaceholderOf(k) \in Rendered
  <1>1. Len(fixtures) \in Nat /\ Len(formats) \in Nat /\ Len(fixtures) # 0 /\ Len(formats) # 0
    BY DEF Asked
  <1>2. ASSUME NEW m \in Nat, NEW n \in Nat, m # 0, n # 0 PROVE m * n \in Nat /\ m * n # 0
    BY <1>2
  <1>3. CellCount \in Nat /\ CellCount # 0
    BY <1>1, <1>2 DEF CellCount
  <1>4. ASSUME NEW k \in 1 .. CellCount
        PROVE  /\ FixtureNo(k) \in 1 .. Len(fixtures) /\ FormatNo(k) \in 1 .. Len(formats)
               /\ Usable(fixtures[FixtureNo(k)]) /\ formats[FormatNo(k)] \in ToSet(Formats)
               /\ PlaceholderOf(k) \in Rendered
    <2>1. /\ (k - 1) \div Len(formats) \in 0 .. Len(fixtures) - 1
          /\ (k - 1) % Len(formats) \in 0 .. Len(formats) - 1
      BY <1>1, CellNumbers DEF CellCount
    <2>2. FixtureNo(k) \in 1 .. Len(fixtures) /\ FormatNo(k) \in 1 .. Len(formats)
      BY <1>1, <2>1 DEF FixtureNo, FormatNo
    <2>3. Usable(fixtures[FixtureNo(k)]) /\ formats[FormatNo(k)] \in ToSet(Formats)
      BY <2>2 DEF Asked
    <2>4. fixtures[FixtureNo(k)].secret_type \in Seq(Word) /\ FixtureNo(k) \in Nat
      BY <2>2, <2>3 DEF Usable, Fixture
    <2>5. QED
      BY <2>2, <2>3, <2>4, RenderType DEF PlaceholderOf
  <1>5. QED
    BY <1>1, <1>3, <1>4

\* The number in a placeholder is that of the fixture, if there is one.
LEMMA PlaceholderNumber ==
  ASSUME NEW k
  PROVE  PlaceholderOf(k)[3] = 0 \/ PlaceholderOf(k)[3] = FixtureNo(k)
  BY DEF PlaceholderOf, Render

\* Of numbers in the same interval of n those that agree modulo n are equal.
LEMMA SameRemainder ==
  ASSUME NEW n \in Nat, NEW j \in 1 .. n, NEW k \in 1 .. n, j % n = k % n
  PROVE  j = k
  <1>1. \A i \in 1 .. n : i % n = IF i = n THEN 0 ELSE i
    <2>1. ASSUME NEW i \in 1 .. n, i # n PROVE i % n = i
      BY <2>1
    <2>2. n # 0 => n % n = 0
      OBVIOUS
    <2>3. QED
      BY <2>1, <2>2
  <1>2. QED
    BY <1>1

\* One less, the remainders still agree.
LEMMA RemainderBefore ==
  ASSUME NEW n \in Nat, n # 0, NEW j \in Nat, NEW k \in Nat, j # 0, k # 0, j % n = k % n
  PROVE  (j - 1) % n = (k - 1) % n
  <1>1. ASSUME NEW i \in Nat, i # 0 PROVE (i - 1) % n = IF i % n = 0 THEN n - 1 ELSE (i % n) - 1
    <2>1. ASSUME NEW q, q = i \div n, NEW r, r = i % n
          PROVE  q \in Nat /\ r \in 0 .. n - 1 /\ i = n * q + r
      BY <2>1, <1>1
    <2>2. ASSUME NEW q \in Int, NEW r \in 0 .. n - 1, i - 1 = n * q + r PROVE (i - 1) % n = r
      BY <2>2, <1>1
    <2>3. ASSUME NEW q \in Nat, NEW r \in 0 .. n - 1, i = n * q + r, r = i % n
          PROVE  (i - 1) % n = IF r = 0 THEN n - 1 ELSE r - 1
      <3>1. CASE r = 0
        <4>1. i - 1 = n * (q - 1) + (n - 1)
          <5>1. \A x, y \in Int : x * (y - 1) = x * y - x
            OBVIOUS
          <5>2. n * (q - 1) = n * q - n
            BY <2>3, <5>1
          <5>3. i = n * q
            BY <2>3, <3>1
          <5>4. ASSUME NEW a \in Int, NEW b \in Int, i = a, b = a - n PROVE i - 1 = b + (n - 1)
            BY <5>4
          <5>5. n * q \in Int /\ n * (q - 1) \in Int
            BY <2>3
          <5>6. QED
            BY <5>2, <5>3, <5>4, <5>5
        <4>2. q - 1 \in Int /\ n - 1 \in 0 .. n - 1
          BY <2>3
        <4>3. (i - 1) % n = n - 1
          BY <2>2, <4>1, <4>2
        <4>4. QED
          BY <3>1, <4>3
      <3>2. CASE r # 0
        <4>1. i - 1 = n * q + (r - 1) /\ r - 1 \in 0 .. n - 1
          BY <2>3, <3>2
        <4>2. QED
          BY <2>2, <3>2, <4>1
      <3>3. QED
        BY <3>1, <3>2
    <2>4. QED
      BY <2>1, <2>3
  <1>2. QED
    BY <1>1

\* Later cells belong to later fixtures or the same.
LEMMA NamesFollowNumbers ==
  ASSUME Asked, NEW a \in 1 .. Len(fixtures), NEW b \in 1 .. Len(fixtures)
  PROVE  fixtures[a].name < fixtures[b].name <=> a < b
  <1>1. \A c \in 1 .. Len(fixtures) : fixtures[c].name \in Nat
    BY DEF Asked, Usable, Fixture
  <1>2. \A c, d \in 1 .. Len(fixtures) : c < d => fixtures[c].name < fixtures[d].name
    BY DEF Asked
  <1>3. a \in Int /\ b \in Int /\ (a < b \/ a = b \/ b < a)
    OBVIOUS
  <1>4. QED
    BY <1>1, <1>2, <1>3

\* The first records of a run, however many, are in the order of cells.
LEMMA CellsInOrder ==
  ASSUME Asked, NEW records, OfCells(records)
  PROVE  Orderly(records)
  <1>1. SUFFICES ASSUME records # << >> PROVE Orderly(records)
    BY DEF Orderly
  <1> DEFINE size == Len(records)
             L == Len(formats)
  <1>2. size \in Nat /\ size # 0 /\ L \in Nat /\ L # 0 /\ 1 .. size \subseteq 1 .. CellCount
    <2>1. records \in Seq(Result) /\ size \in 0 .. CellCount
      BY DEF OfCells
    <2>2. CellCount \in Nat /\ L \in Nat /\ L # 0
      BY CellTypes DEF Asked
    <2>3. QED
      BY <1>1, <2>1, <2>2
  <1>3. ASSUME NEW k \in 1 .. size
        PROVE  /\ records[k].run = runs /\ FixtureNo(k) \in 1 .. Len(fixtures)
               /\ records[k].fixture = fixtures[FixtureNo(k)].name
               /\ records[k].format = formats[FormatNo(k)]
               /\ records[k].placeholder[3] \in {0, FixtureNo(k)}
               /\ (k - 1) \div L \in Nat /\ FixtureNo(k) = (k - 1) \div L + 1
    <2>1. OfCell(k, records[k]) /\ FixtureNo(k) \in 1 .. Len(fixtures)
      BY <1>2, CellTypes DEF OfCells
    <2>2. (k - 1) \div L \in Nat
      BY <1>2
    <2>3. QED
      BY <2>1, <2>2, PlaceholderNumber DEF OfCell, FixtureNo
  <1>4. ASSUME NEW j \in 1 .. size, NEW k \in 1 .. size
        PROVE  /\ records[j].fixture < records[k].fixture <=> (j - 1) \div L < (k - 1) \div L
               /\ records[j].placeholder[3] # 0 /\ records[k].placeholder[3] # 0 =>
                    (records[j].fixture < records[k].fixture
                       <=> records[j].placeholder[3] < records[k].placeholder[3])
    <2>1. records[j].fixture < records[k].fixture <=> FixtureNo(j) < FixtureNo(k)
      BY <1>3, NamesFollowNumbers
    <2>2. ASSUME NEW a \in Nat, NEW b \in Nat, NEW c \in {0, a + 1}, NEW d \in {0, b + 1}
          PROVE  /\ a + 1 < b + 1 <=> a < b
                 /\ c # 0 /\ d # 0 => (a + 1 < b + 1 <=> c < d)
      BY <2>2
    <2>3. ASSUME NEW a, a = (j - 1) \div L, NEW b, b = (k - 1) \div L,
                 NEW c, c = records[j].placeholder[3], NEW d, d = records[k].placeholder[3]
          PROVE  /\ records[j].fixture < records[k].fixture <=> a < b
                 /\ c # 0 /\ d # 0 => (records[j].fixture < records[k].fixture <=> c < d)
      <3>1. /\ a \in Nat /\ FixtureNo(j) = a + 1 /\ c \in {0, a + 1}
            /\ b \in Nat /\ FixtureNo(k) = b + 1 /\ d \in {0, b + 1}
        BY <1>3, <2>3
      <3>2. QED
        BY <2>1, <2>2, <3>1
    <2>4. QED
      BY <2>3
  <1>5. ASSUME NEW n \in 1 .. size, n = L \/ (n = size /\ size < L),
               NEW j \in 1 .. size, NEW k \in 1 .. size
        PROVE  /\ (j - 1) \div n < (k - 1) \div n <=> (j - 1) \div L < (k - 1) \div L
               /\ j % n = k % n => records[j].format = records[k].format
    <2>1. CASE n = L
      <3>1. j % L = k % L => (j - 1) % L = (k - 1) % L
        <4>1. j \in Nat /\ k \in Nat /\ j # 0 /\ k # 0
          BY <1>2
        <4>2. QED
          BY <1>2, <4>1, RemainderBefore
      <3>2. QED
        BY <1>3, <2>1, <3>1 DEF FormatNo
    <2>2. CASE n = size /\ size < L
      <3>1. \A i \in 1 .. size : (i - 1) \div size = 0 /\ (i - 1) \div L = 0
        <4>1. ASSUME NEW i \in Nat, NEW d \in Nat, i < d PROVE i \div d = 0
          BY <4>1
        <4>2. ASSUME NEW i \in 1 .. size
              PROVE  i - 1 \in Nat /\ i - 1 < size /\ i - 1 < L
          BY <1>2, <2>2
        <4>3. QED
          BY <1>2, <4>1, <4>2
      <3>2. j % n = k % n => j = k
        BY <1>2, <2>2, SameRemainder
      <3>3. QED
        BY <2>2, <3>1, <3>2
    <2>3. QED
      BY <1>5, <2>1, <2>2
  <1>6. PICK n \in 1 .. size : n = L \/ (n = size /\ size < L)
    BY <1>2
  <1>7. InCellOrder(records)
    <2>1. ASSUME NEW j \in 1 .. size, NEW k \in 1 .. size
          PROVE  /\ records[j].fixture < records[k].fixture <=> (j - 1) \div n < (k - 1) \div n
                 /\ j % n = k % n => records[j].format = records[k].format
                 /\ records[j].placeholder[3] # 0 /\ records[k].placeholder[3] # 0 =>
                      (records[j].fixture < records[k].fixture
                         <=> records[j].placeholder[3] < records[k].placeholder[3])
      <3>1. (j - 1) \div n < (k - 1) \div n <=> (j - 1) \div L < (k - 1) \div L
        BY <1>5, <1>6
      <3>2. QED
        BY <1>4, <1>5, <1>6, <3>1, Zenon
    <2>2. QED
      BY <1>6, <2>1, Zenon DEF InCellOrder
  <1>8. QED
    BY <1>3, <1>7 DEF Orderly

-----------------------------------------------------------------------------
(***************************************************************************)
(* How many records of a run a file has.                                   *)
(***************************************************************************)

LEMMA CountIs ==
  ASSUME NEW records \in Seq(Result)
  PROVE  /\ Count(records) \in Nat
         /\ (\A k \in 1 .. Len(records) : records[k].run = runs) => Count(records) = Len(records)
  <1> DEFINE I == {k \in 1 .. Len(records) : records[k].run = runs}
  <1>1. IsFiniteSet(1 .. Len(records)) /\ Cardinality(1 .. Len(records)) = Len(records)
    <2>1. Len(records) \in Nat
      OBVIOUS
    <2>2. ASSUME NEW n \in Nat PROVE IsFiniteSet(1 .. n) /\ Cardinality(1 .. n) = n
      BY FS_Interval
    <2>3. QED
      BY <2>1, <2>2
  <1>2. IsFiniteSet(I)
    BY <1>1, FS_Subset
  <1>3. Cardinality(I) \in Nat
    BY <1>2, FS_CardinalityType
  <1>4. ASSUME \A k \in 1 .. Len(records) : records[k].run = runs PROVE I = 1 .. Len(records)
    BY <1>4
  <1>5. QED
    BY <1>1, <1>3, <1>4 DEF Count

\* All that was paid for is in the file, but one answer.
LEMMA FileCounts ==
  ASSUME IInv, pc # "idle", file.whole
  PROVE  /\ pc = "asking" => paid <= Count(file.records)
         /\ paid <= 1 + Count(file.records)
  <1>1. Progress /\ Asked /\ OfCells(results) /\ paid \in Nat
    BY DEF IInv, Progress
  <1>2. file.records \in Seq(Result) /\ Count(file.records) \in Nat
    BY CountIs DEF IInv
  <1>3. results \in Seq(Result) /\ \A k \in 1 .. Len(results) : results[k].run = runs
    BY <1>1 DEF OfCells, OfCell
  <1>4. CASE pc = "asking"
    <2>1. CASE paid = 0
      BY <1>2, <2>1
    <2>2. CASE paid # 0
      <3>1. file.records = results /\ paid = Len(results)
        BY <1>1, <1>4, <2>2 DEF Progress, Array
      <3>2. Count(file.records) = paid
        BY <1>3, <3>1, CountIs
      <3>3. QED
        BY <1>1, <3>2
    <2>3. QED
      BY <2>1, <2>2
  <1>5. CASE pc = "opening"
    <2>1. CASE paid = 1
      BY <1>2, <1>5, <2>1
    <2>2. CASE paid # 1
      <3>1. file = Array(SubSeq(results, 1, Len(results) - 1)) /\ paid = Len(results) /\ paid # 0
        BY <1>1, <1>5, <2>2 DEF Progress
      <3>2. Len(results) - 1 \in 0 .. Len(results) /\ Len(results) \in Nat
        BY <1>1, <1>3, <3>1
      <3>3. ASSUME NEW n \in 0 .. Len(results), NEW s, s = SubSeq(results, 1, n)
            PROVE  s \in Seq(Result) /\ Len(s) = n /\ \A k \in 1 .. Len(s) : s[k].run = runs
        <4>1. s \in Seq(Result) /\ Len(s) = n /\ \A k \in 1 .. n : s[k] = results[k]
          BY <1>3, <3>3, SubSeqProperties
        <4>2. QED
          BY <1>3, <3>2, <4>1
      <3>4. file.records = SubSeq(results, 1, Len(results) - 1)
        BY <3>1 DEF Array
      <3>5. Count(file.records) = Len(results) - 1
        BY <3>2, <3>3, <3>4, CountIs
      <3>6. QED
        BY <1>1, <1>5, <3>1, <3>2, <3>5
    <2>3. QED
      BY <2>1, <2>2
  <1>6. CASE pc = "writing"
    BY <1>1, <1>6 DEF Progress, Cut
  <1>7. QED
    BY <1>4, <1>5, <1>6 DEF IInv

-----------------------------------------------------------------------------
(***************************************************************************)
(* The steps.                                                              *)
(***************************************************************************)

LEMMA InitIInv == Init => IInv
  <1> SUFFICES ASSUME Init PROVE IInv
    OBVIOUS
  <1>1. file = Absent /\ << >> \in Seq(Result) /\ file.whole /\ file.records = << >>
    BY DEF Init, Absent
  <1>2. Count(file.records) \in Nat
    BY <1>1, CountIs
  <1>3. Settled
    BY <1>1, <1>2 DEF Init, Settled
  <1>4. QED
    BY <1>1, <1>3 DEF Init, IInv, Orderly, Absent

\* What a run that goes on asks about.
LEMMA StartAsks ==
  ASSUME NEW dir \in Directory, NEW arg \in FormatArg, NEW listing \in Listings(dir),
         KnownFormats(arg), DOMAIN dir # {},
         \A name \in DOMAIN dir : ~ Malformed(dir[name]),
         formats' = arg,
         fixtures' = [j \in DOMAIN listing |->
                        ParseFixture(ByName(listing)[j], dir[ByName(listing)[j]])]
  PROVE  Asked'
  <1> DEFINE n == Cardinality(DOMAIN dir)
             names == ByName(listing)
  <1>1. /\ n \in Nat /\ n # 0 /\ DOMAIN listing = 1 .. n
        /\ names \in [1 .. n -> DOMAIN dir] /\ Ascending(names)
    BY ByNameSorts
  <1>2. ASSUME NEW name \in DOMAIN dir
        PROVE  Usable(ParseFixture(name, dir[name])) /\ ParseFixture(name, dir[name]).name = name
    <2>1. name \in Nat /\ dir[name] \in Seq(Line) /\ OneWord(dir[name])
      BY EvalAssumption DEF OneWord
    <2>2. QED
      BY <2>1, ParsedIsUsable DEF ParseFixture
  <1>3. ASSUME NEW fs, fs = [j \in 1 .. n |-> ParseFixture(names[j], dir[names[j]])]
        PROVE  /\ fs \in Seq(Fixture) /\ Len(fs) = n
               /\ \A j \in 1 .. n : Usable(fs[j])
               /\ \A j, k \in 1 .. n : j < k => fs[j].name < fs[k].name
    <2>1. \A j \in 1 .. n : names[j] \in DOMAIN dir
      BY <1>1
    <2>2. \A j \in 1 .. n : Usable(fs[j]) /\ fs[j].name = names[j]
      BY <1>2, <1>3, <2>1
    <2>3. \A j, k \in 1 .. n : j < k => names[j] < names[k]
      BY <1>1 DEF Ascending
    <2>4. \A j \in 1 .. n : fs[j] \in Fixture
      BY <2>2 DEF Usable
    <2>5. DOMAIN fs = 1 .. n /\ fs \in [1 .. n -> Fixture]
      BY <1>3, <2>4
    <2>6. fs \in Seq(Fixture) /\ Len(fs) = n
      BY <1>1, <2>5
    <2>7. QED
      BY <2>2, <2>3, <2>6
  <1>4. fixtures' = [j \in 1 .. n |-> ParseFixture(names[j], dir[names[j]])]
    BY <1>1
  <1>5. arg \in Seq(ToSet(Formats)) /\ Len(arg) # 0
    <2>1. arg \in Seq(STRING) /\ arg # << >>
      BY EvalAssumption
    <2>2. \A j \in 1 .. Len(arg) : arg[j] \in ToSet(arg)
      BY <2>1 DEF ToSet
    <2>3. ToSet(arg) \subseteq ToSet(Formats)
      BY DEF KnownFormats
    <2>4. \A j \in 1 .. Len(arg) : arg[j] \in ToSet(Formats)
      BY <2>2, <2>3
    <2>5. QED
      BY <2>1, <2>4
  <1>6. /\ fixtures' \in Seq(Fixture) /\ Len(fixtures') = n
        /\ \A j \in 1 .. n : Usable(fixtures'[j])
        /\ \A j, k \in 1 .. n : j < k => fixtures'[j].name < fixtures'[k].name
    BY <1>3, <1>4
  <1>7. QED
    BY <1>1, <1>5, <1>6 DEF Asked

\* A run that ends, in whatever way but well, leaves behind what was there.
LEMMA EndKeeps ==
  ASSUME IInv, NEW how \in {"failed", "killed"}, End(how), UNCHANGED file,
         runs' \in Nat, paid' \in Nat,
         file.whole => paid' <= 1 + Count(file.records)'
  PROVE  IInv'
  <1>1. outcome' = how /\ pc' = "idle" /\ file' = file
    BY DEF End
  <1>2. Settled'
    BY <1>1 DEF Settled
  <1>3. /\ file' \in [whole : BOOLEAN, records : Seq(Result)]
        /\ file'.whole => Orderly(file'.records)
    BY <1>1 DEF IInv
  <1>4. QED
    BY <1>1, <1>2, <1>3 DEF IInv, Orderly

LEMMA StartKeeps == IInv /\ Start => IInv'
  <1> SUFFICES ASSUME IInv, Start PROVE IInv'
    OBVIOUS
  <1>1. runs \in Nat /\ runs' = runs + 1 /\ runs' \in Nat /\ paid' = 0 /\ file' = file
    BY DEF IInv, Start
  <1>2. file.records \in Seq(Result) /\ file'.records = file.records
    BY <1>1 DEF IInv
  <1>3. CASE End("failed")
    <2>1. Count(file.records)' \in Nat
      <3>1. ASSUME NEW r, r \in Seq(Result)
            PROVE  Cardinality({k \in 1 .. Len(r) : r[k].run = runs'}) \in Nat
        <4>1. ASSUME NEW n \in Nat PROVE IsFiniteSet(1 .. n)
          BY FS_Interval
        <4>2. IsFiniteSet(1 .. Len(r))
          BY <3>1, <4>1
        <4>3. QED
          BY <4>2, FS_Subset, FS_CardinalityType
      <3>2. QED
        BY <1>2, <3>1 DEF Count
    <2>2. QED
      BY <1>1, <1>3, <2>1, EndKeeps
  <1>4. CASE \E dir \in Directory, arg \in FormatArg :
               /\ KnownFormats(arg) /\ DOMAIN dir # {}
               /\ \A name \in DOMAIN dir : ~ Malformed(dir[name])
               /\ \E listing \in Listings(dir) :
                    /\ fixtures' = [j \in DOMAIN listing |->
                         ParseFixture(ByName(listing)[j], dir[ByName(listing)[j]])]
                    /\ formats' = arg /\ results' = << >>
                    /\ pc' = "asking" /\ outcome' = "running"
    <2>1. Asked'
      BY <1>4, StartAsks
    <2>2. results' = << >> /\ pc' = "asking" /\ outcome' = "running"
      BY <1>4
    <2>3. (CellCount \in Nat /\ CellCount # 0)'
      <3>1. Len(fixtures') \in Nat \ {0} /\ Len(formats') \in Nat \ {0}
        BY <2>1 DEF Asked
      <3>2. ASSUME NEW m \in Nat \ {0}, NEW n \in Nat \ {0} PROVE m * n \in Nat /\ m * n # 0
        OBVIOUS
      <3>3. QED
        BY <3>1, <3>2 DEF CellCount
    <2>4. Progress'
      BY <1>1, <2>1, <2>2, <2>3 DEF Progress, OfCells
    <2>5. QED
      BY <1>1, <2>2, <2>4 DEF IInv, Orderly
  <1>5. QED
    BY <1>3, <1>4, Zenon DEF Start

\* The record of an answer is that of the cell that was asked.
LEMMA RecordIs ==
  ASSUME Asked, runs \in Nat, NEW k \in 1 .. CellCount, NEW reply
  PROVE  Record(k, reply) \in Result /\ OfCell(k, Record(k, reply))
  <1>1. /\ fixtures[FixtureNo(k)].name \in Nat /\ formats[FormatNo(k)] \in ToSet(Formats)
        /\ PlaceholderOf(k) \in Rendered
    BY CellTypes DEF Usable, Fixture
  <1>2. QED
    BY <1>1 DEF Record, Result, OfCell

LEMMA EvaluateKeeps == IInv /\ Evaluate => IInv'
  <1> SUFFICES ASSUME IInv, Evaluate PROVE IInv'
    OBVIOUS
  <1>1. PICK reply : results' = Append(results, Record(Current, reply))
    BY DEF Evaluate
  <1>2. /\ pc = "asking" /\ pc' = "opening" /\ paid' = paid + 1
        /\ UNCHANGED <<runs, fixtures, formats, file, outcome>>
    BY DEF Evaluate
  <1>3. /\ Asked /\ OfCells(results) /\ paid = Len(results) /\ Len(results) < CellCount
        /\ (paid # 0 => file = Array(results)) /\ runs \in Nat
    BY <1>2 DEF IInv, Progress
  <1>4. /\ results \in Seq(Result) /\ Len(results) \in Nat /\ Current \in 1 .. CellCount
        /\ CellCount \in Nat
    BY <1>3, CellTypes DEF OfCells, Current
  <1>5. ASSUME NEW r, r = Record(Current, reply)
        PROVE  /\ OfCells(Append(results, r)) /\ Len(Append(results, r)) = Len(results) + 1
               /\ SubSeq(Append(results, r), 1, Len(results)) = results
    <2>1. r \in Result /\ OfCell(Len(results) + 1, r)
      BY <1>3, <1>4, <1>5, RecordIs DEF Current
    <2>2. Append(results, r) \in Seq(Result) /\ Len(Append(results, r)) = Len(results) + 1
      BY <1>4, <2>1, AppendProperties
    <2>3. \A k \in 1 .. Len(results) + 1 :
            Append(results, r)[k] = IF k = Len(results) + 1 THEN r ELSE results[k]
      BY <1>4, <2>1, AppendProperties
    <2>4. \A k \in 1 .. Len(results) + 1 : OfCell(k, Append(results, r)[k])
      <3>1. \A k \in 1 .. Len(results) : OfCell(k, results[k])
        BY <1>3 DEF OfCells
      <3>2. \A k \in 1 .. Len(results) + 1 : k = Len(results) + 1 \/ k \in 1 .. Len(results)
        BY <1>4
      <3>3. QED
        BY <2>1, <2>3, <3>1, <3>2
    <2>5. SubSeq(Append(results, r), 1, Len(results)) = results
      BY <1>4, <2>1, <2>2, <2>3
    <2>6. QED
      BY <1>3, <1>4, <2>2, <2>4, <2>5 DEF OfCells
  <1>6. /\ OfCells(results') /\ Len(results') = Len(results) + 1
        /\ SubSeq(results', 1, Len(results)) = results
    BY <1>1, <1>5
  <1>7. Asked' /\ OfCells(results)'
    BY <1>2, <1>3, <1>6 DEF Asked, OfCells, OfCell, CellCount, FixtureNo, FormatNo, PlaceholderOf
  <1>8. Progress'
    <2>1. (Len(results) + 1) - 1 = Len(results) /\ (paid + 1 # 1 => paid # 0) /\ paid + 1 # 0
      BY <1>3, <1>4
    <2>2. paid' # 1 => file' = Array(SubSeq(results', 1, Len(results') - 1))
      BY <1>2, <1>3, <1>6, <2>1
    <2>3. QED
      BY <1>2, <1>3, <1>6, <1>7, <2>1, <2>2 DEF Progress, Array
  <1>9. file'.whole => Orderly(file'.records)
    BY <1>2 DEF IInv
  <1>10. QED
    BY <1>2, <1>3, <1>4, <1>8, <1>9 DEF IInv, Orderly

LEMMA EvaluateFailsKeeps == IInv /\ EvaluateFails => IInv'
  <1> SUFFICES ASSUME IInv, EvaluateFails PROVE IInv'
    OBVIOUS
  <1>1. /\ pc = "asking" /\ End("failed") /\ paid' = paid + 1 /\ runs' = runs /\ file' = file
        /\ runs \in Nat /\ paid \in Nat
    BY DEF EvaluateFails, IInv
  <1>2. Count(file.records)' = Count(file.records)
    BY <1>1 DEF Count
  <1>3. file.records \in Seq(Result) /\ Count(file.records) \in Nat
    BY CountIs DEF IInv
  <1>4. file.whole => paid' <= 1 + Count(file.records)'
    BY <1>1, <1>2, <1>3, FileCounts
  <1>5. QED
    BY <1>1, <1>4, EndKeeps

\* The steps that end a run without another answer.
LEMMA StopsKeep ==
  ASSUME IInv, pc # "idle", NEW how \in {"failed", "killed"}, End(how),
         UNCHANGED <<runs, file, paid>>
  PROVE  IInv'
  <1>1. Count(file.records)' = Count(file.records)
    BY DEF Count
  <1>2. file.whole => paid' <= 1 + Count(file.records)'
    BY <1>1, FileCounts
  <1>3. runs' \in Nat /\ paid' \in Nat
    BY DEF IInv
  <1>4. QED
    BY <1>2, <1>3, EndKeeps

LEMMA OpenFileKeeps == IInv /\ OpenFile => IInv'
  <1> SUFFICES ASSUME IInv, OpenFile PROVE IInv'
    OBVIOUS
  <1>1. /\ pc = "opening" /\ pc' = "writing" /\ file' = Cut
        /\ UNCHANGED <<runs, fixtures, formats, results, outcome, paid>>
    BY DEF OpenFile
  <1>2. Asked /\ OfCells(results) /\ paid = Len(results) /\ paid # 0
    BY <1>1 DEF IInv, Progress
  <1>3. Asked' /\ OfCells(results)'
    BY <1>1, <1>2 DEF Asked, OfCells, OfCell, CellCount, FixtureNo, FormatNo, PlaceholderOf
  <1>4. Progress'
    BY <1>1, <1>2, <1>3 DEF Progress, Cut
  <1>5. file' \in [whole : BOOLEAN, records : Seq(Result)] /\ ~ file'.whole
    BY <1>1 DEF Cut
  <1>6. QED
    BY <1>1, <1>4, <1>5 DEF IInv

LEMMA WriteFileKeeps == IInv /\ WriteFile => IInv'
  <1> SUFFICES ASSUME IInv, WriteFile PROVE IInv'
    OBVIOUS
  <1>1. /\ pc = "writing" /\ file' = Array(results) /\ runs' = runs /\ paid' = paid
        /\ runs \in Nat /\ paid \in Nat
    BY DEF WriteFile, IInv
  <1>2. Asked /\ OfCells(results) /\ paid = Len(results) /\ paid # 0
    BY <1>1 DEF IInv, Progress
  <1>3. results \in Seq(Result) /\ Len(results) \in 0 .. CellCount /\ CellCount \in Nat
    BY <1>2, CellTypes DEF OfCells
  <1>4. Orderly(results)
    BY <1>2, CellsInOrder
  <1>5. /\ file' \in [whole : BOOLEAN, records : Seq(Result)]
        /\ file'.whole /\ file'.records = results
    BY <1>1, <1>3 DEF Array
  <1>6. (file.whole => Orderly(file.records))'
    BY <1>4, <1>5 DEF Orderly
  <1>7. CASE Len(results) = CellCount
    <2>1. End("ok")
      BY <1>7 DEF WriteFile
    <2>2. Count(file.records)' = Len(results)
      <3>1. \A k \in 1 .. Len(results) : results[k].run = runs
        BY <1>2 DEF OfCells, OfCell
      <3>2. Count(results) = Len(results)
        BY <1>3, <3>1, CountIs
      <3>3. Count(file.records)' = Count(results)
        BY <1>1, <1>5 DEF Count
      <3>4. QED
        BY <3>2, <3>3
    <2>3. Settled'
      BY <1>1, <1>2, <1>5, <2>1, <2>2 DEF Settled, End
    <2>4. QED
      BY <1>1, <1>5, <1>6, <2>1, <2>3 DEF IInv, End
  <1>8. CASE Len(results) # CellCount
    <2>1. pc' = "asking" /\ UNCHANGED <<fixtures, formats, results, outcome>>
      BY <1>8 DEF WriteFile
    <2>2. Asked' /\ OfCells(results)' /\ CellCount' = CellCount
      BY <1>1, <1>2, <2>1
      DEF Asked, OfCells, OfCell, CellCount, FixtureNo, FormatNo, PlaceholderOf
    <2>3. Progress'
      BY <1>1, <1>2, <1>3, <1>8, <2>1, <2>2 DEF Progress, Array
    <2>4. QED
      BY <1>1, <1>5, <1>6, <2>1, <2>3 DEF IInv
  <1>9. QED
    BY <1>7, <1>8

LEMMA StutterKeeps == IInv /\ UNCHANGED vars => IInv'
  BY DEF vars, IInv, Orderly, InCellOrder, Settled, Count, Progress, Asked, OfCells, OfCell,
         CellCount, FixtureNo, FormatNo, PlaceholderOf

\* Every step, and every step that changes nothing, keeps the invariant.
LEMMA NextKeeps == IInv /\ [Next]_vars => IInv'
  <1> SUFFICES ASSUME IInv, [Next]_vars PROVE IInv'
    OBVIOUS
  <1>1. CASE Start
    BY <1>1, StartKeeps
  <1>2. CASE Evaluate
    BY <1>2, EvaluateKeeps
  <1>3. CASE EvaluateFails
    BY <1>3, EvaluateFailsKeeps
  <1>4. CASE CompleteFails
    BY <1>4, StopsKeep DEF CompleteFails
  <1>5. CASE OpenFile
    BY <1>5, OpenFileKeeps
  <1>6. CASE WriteFile
    BY <1>6, WriteFileKeeps
  <1>7. CASE WriteFails
    BY <1>7, StopsKeep DEF WriteFails
  <1>8. CASE Kill
    BY <1>8, StopsKeep DEF Kill
  <1>9. CASE UNCHANGED vars
    BY <1>9, StutterKeeps
  <1>10. QED
    BY <1>1, <1>2, <1>3, <1>4, <1>5, <1>6, <1>7, <1>8, <1>9 DEF Next

-----------------------------------------------------------------------------
(***************************************************************************)
(* The theorems.                                                           *)
(***************************************************************************)

\* At each point of an iteration of main's loops what was paid for, the records
\* in memory and the results file belong together, and so they do when a run is
\* over, however it ended.
THEOREM Invariance == Spec => []IInv
  BY InitIInv, NextKeeps, PTL DEF Spec

LEMMA IInvMeasures == IInv => EveryCellMeasures
  <1> SUFFICES ASSUME IInv, pc = "asking"
               PROVE  /\ Substitutable(Current)
                      /\ PlaceholderOf(Current) \in ToSet(Prompt(Current))
                      /\ ToSet(fixtures[FixtureNo(Current)].secret_text)
                           \cap ToSet(Prompt(Current)) = {}
    BY DEF EveryCellMeasures
  <1>1. Asked /\ OfCells(results) /\ Len(results) < CellCount
    BY DEF IInv, Progress
  <1>2. Current \in 1 .. CellCount
    BY <1>1, CellTypes DEF OfCells, Current
  <1>3. Usable(fixtures[FixtureNo(Current)]) /\ PlaceholderOf(Current) \in Rendered
    BY <1>1, <1>2, CellTypes
  <1>4. QED
    BY <1>3, ReplacedMeasures, UsableContains DEF Prompt, Substitutable

\* lib.rs:84-90, fixtures.rs:82-87: for every directory, body and format that
\* main accepts, no cell is refused after the run has begun, and each prompt
\* has the placeholder in it and no secret.
THEOREM CellsAlwaysMeasure == Spec => []EveryCellMeasures
  BY Invariance, IInvMeasures, PTL

LEMMA IInvKept == IInv => ResultsKept
  <1> SUFFICES ASSUME IInv PROVE ResultsKept
    OBVIOUS
  <1>1. pc = "idle" => Settled
    BY DEF IInv
  <1>2. pc # "idle" => Progress /\ pc \in {"asking", "opening", "writing"}
    BY DEF IInv
  <1>3. paid \in Nat /\ (pc = "idle" <=> outcome # "running")
    BY DEF IInv
  <1>4. ~ file.whole => pc = "writing" \/ outcome \in {"failed", "killed"} \/ paid <= 1
    <2>1. CASE pc = "idle"
      BY <1>1, <2>1 DEF Settled
    <2>2. CASE pc = "asking"
      BY <1>2, <1>3, <2>2 DEF Progress, Array
    <2>3. CASE pc = "opening"
      BY <1>2, <1>3, <2>3 DEF Progress, Array
    <2>4. QED
      BY <1>2, <2>1, <2>2, <2>3
  <1>5. file.whole /\ file.records # << >> =>
          /\ \A j, k \in 1 .. Len(file.records) : file.records[j].run = file.records[k].run
          /\ InCellOrder(file.records)
    BY DEF IInv, Orderly
  <1>6. file.whole => paid <= 1 + Count(file.records)
    BY <1>1, FileCounts DEF Settled
  <1>7. outcome = "ok" => file.whole /\ Len(file.records) = paid
    BY <1>1, <1>3 DEF Settled
  <1>8. QED
    BY <1>4, <1>5, <1>6, <1>7 DEF ResultsKept, Count

\* lib.rs:119-126: for any fixtures, formats, number of runs and way of ending
\* them, the file has the records of the first cells of one run, in order, and
\* lacks at most one answer that was paid for, unless the write itself broke.
THEOREM ResultsAlwaysKept == Spec => []ResultsKept
  BY Invariance, IInvKept, PTL

=============================================================================
