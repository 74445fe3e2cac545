---------------------------- MODULE EvalFixtures ----------------------------
(***************************************************************************)
(* What the placeholder evaluation (experiments/e03-placeholder-eval) does *)
(* to a prompt before a model sees it: reading the fixture files, and      *)
(* putting a placeholder in the place of the secret.                       *)
(*                                                                         *)
(* A text is a sequence of words, and a word a tuple; a secret is one      *)
(* word, or none: a header `SECRET_TEXT=` may be empty.                    *)
(***************************************************************************)
EXTENDS Naturals, SequencesExt

CONSTANT Word

\* A line of a fixture file: a header and its value, blank, or anything else.
Tag == {"SECRET_TEXT=", "SECRET_TYPE=", "blank", "other"}
Line == [tag : Tag, words : Seq(Word)]

Header == {"SECRET_TEXT=", "SECRET_TYPE="}

\* The first line that is no header; the rest is the body, whatever is in it.
BodyStart(raw) == SelectInSeq(raw, LAMBDA line : line.tag \notin Header)

Headers(raw) == IF BodyStart(raw) = 0 THEN raw ELSE SubSeq(raw, 1, BodyStart(raw) - 1)

\* A header in the body is text.
WordsOf(line) == IF line.tag \in Header THEN <<<<line.tag>>>> \o line.words ELSE line.words

\* The words of the body; a blank line that starts it is no part of it, and
\* has none.
Body(raw) ==
  IF BodyStart(raw) = 0 THEN << >>
  ELSE LET lines == SubSeq(raw, BodyStart(raw), Len(raw))
       IN  FlattenSeq([j \in 1 .. Len(lines) |-> WordsOf(lines[j])])

Has(raw, tag) == \E j \in 1 .. Len(Headers(raw)) : raw[j].tag = tag

\* A repeated header replaces the earlier one.
Value(raw, tag) == raw[SelectLastInSeq(Headers(raw), LAMBDA line : line.tag = tag)].words

\* str::contains and str::replace; an empty pattern is found everywhere,
\* between any two words, before the first and after the last.
TextContains(text, secret) == ToSet(secret) \subseteq ToSet(text)

Replaced(text, secret, placeholder) ==
  IF secret = << >>
  THEN [j \in 1 .. 2 * Len(text) + 1 |-> IF j % 2 = 1 THEN placeholder ELSE text[j \div 2]]
  ELSE [j \in 1 .. Len(text) |-> IF text[j] = Head(secret) THEN placeholder ELSE text[j]]

HeaderMissing(raw) == \E tag \in Header : ~ Has(raw, tag)

\* parse_fixture is an error: a header is missing, or the body does not
\* contain the secret.
Malformed(raw) ==
  HeaderMissing(raw) \/ ~ TextContains(Body(raw), Value(raw, "SECRET_TEXT="))

ParseFixture(name, raw) ==
  [name |-> name, secret_text |-> Value(raw, "SECRET_TEXT="),
   secret_type |-> Value(raw, "SECRET_TYPE="), text |-> Body(raw)]

-----------------------------------------------------------------------------
Formats == <<"redacted", "asterisks", "mustache", "angle_num", "underscore_type", "guillemets">>

\* PlaceholderFormat::render, by what it takes from its arguments; a word.
\* Types are in upper case here.
Render(format, type, n) ==
  <<format,
    IF format \in {"mustache", "underscore_type", "guillemets"} THEN type ELSE << >>,
    IF format \in {"angle_num", "underscore_type", "guillemets"} THEN n ELSE 0>>

\* A secret that is its own placeholder is left out.
ASSUME WordAssumption == Word \cap (ToSet(Formats) \X Seq(Word) \X Nat) = {}

=============================================================================
