----------------------------- MODULE MCDetector -----------------------------
(* The tables of Rules.  The walker sees every text of up to four tokens    *)
(* and longer ones that nest; the resolution sees every pair of candidate   *)
(* lists of three kinds, one of them gated, on a text of four tokens, and   *)
(* envelopes with a key in them or across their edge; the pre-filter sees   *)
(* every alternative of every kind's expression.                            *)
EXTENDS Detector, Rules

NoMatches == [k \in SecretKind |-> {}]

\* A text with the words, each of which may be a keyword, that it contains.
On(text, matches, words) ==
  LET service_account == IF \E j \in 1 .. Len(text) : text[j] = "marker" THEN Alternatives[GcpKind] ELSE {}
  IN  [text |-> text, matches |-> matches,
       keyword |-> (words \cup service_account) \cap PrefilterFinds # {}]

Plain(n) == [j \in 1 .. n |-> "other"]
TwoLines == <<"other", "newline", "other", "other">>

\* The walker.
Texts == UNION {[1 .. n -> Token \ {"newline"}] : n \in 0 .. 4}
Braced(body) == <<"open">> \o body \o <<"close">>
Nesting == {
  Braced(<<"newline", "marker">> \o Braced(<<"marker">>)),
  Braced(Braced(<<"marker">>) \o Braced(<<"other">>)),
  Braced(<<"quote", "backslash", "marker", "marker">>),
  Braced(<<"marker", "quote", "close", "quote">>),
  Braced(<<"marker">>) \o Braced(Braced(Braced(<<"marker">>))),
  Braced(<<"marker">>) \o <<"close">> \o Braced(<<"marker">>)}

\* The resolution.
Span(n) == {s \in [start : 0 .. n, end : 0 .. n] : s.start < s.end}
SpanSets(n) ==
  {{}} \cup {S \in {{s, t} : s, t \in Span(n)} : \A s, t \in S : s # t => Separate(s, t)}
Matched(S, random) == {[start |-> s.start, end |-> s.end, random |-> random] : s \in S}
Pair(j, k, n, random) ==
  {[[NoMatches EXCEPT ![j] = Matched(S, FALSE)] EXCEPT ![k] = Matched(T, r)] :
     S \in SpanSets(n), T \in SpanSets(n), r \in random}

\* The spelling that .env files use.
Words(matches) == UNION {Alternatives[k] : k \in {k \in SecretKind : matches[k] # {}}}

\* The pre-filter: one match, of one alternative.
One(k) == [NoMatches EXCEPT ![k] = Matched({[start |-> 2, end |-> 4]}, TRUE)]
Spellings == UNION {Alternatives[k] \cup MixedCase[k] : k \in SecretKind}
Spelled == {kw \in (SecretKind \ {GcpKind}) \X Spellings :
              kw[2] \in Alternatives[kw[1]] \cup MixedCase[kw[1]]}

MCInput == UNION {
  {On(text, NoMatches, {}) : text \in Texts \cup Nesting},
  {On(Plain(4), m, Words(m)) : m \in Pair("AwsAccessKey", "GithubPat", 4, {FALSE})},
  {On(TwoLines, m, Words(m)) : m \in Pair("GithubPat", "AwsSecretAccessKey", 4, BOOLEAN)},
  {On(Braced(<<"marker", "other">>), m, Words(m)) : m \in Pair("AwsAccessKey", "GithubPat", 4, {FALSE})},
  {On(TwoLines, One(kw[1]), {kw[2]}) : kw \in Spelled}}

=============================================================================
