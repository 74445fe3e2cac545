-------------------------- MODULE MitmHandlerProofs --------------------------
(***************************************************************************)
(* Theorems about MitmHandler, for any number of concurrent exchanges, any *)
(* requests, replies, secrets, allow-list and configuration.               *)
(*                                                                         *)
(* The argument: a step of one exchange leaves the entries of all others   *)
(* alone (OthersKeep), and the inductive invariant Good(e) speaks of one   *)
(* exchange only.  Its core is Linked: the table that `redact` filled      *)
(* knows exactly the secrets of the request, and the request that left     *)
(* has their placeholders in their places.  It travels with the table,     *)
(* from the handler clone to the response.                                 *)
(***************************************************************************)
EXTENDS MitmHandler, LibraryProofs, FiniteSetTheorems

(***************************************************************************)
(* The inductive invariant.                                                *)
(***************************************************************************)

BeforeRequest == {"idle", "collecting", "redacting"}

\* What a token of the redacted request is, given the token it came from.
Image(m, token) == IF token \in Text THEN m.forward[<<KindOf[token], token>>] ELSE token

\* The table m knows exactly the secrets among the first n tokens of text.
KnowsSecrets(m, text, n) ==
  /\ \A i \in 1 .. n : text[i] \in Text => <<KindOf[text[i]], text[i]>> \in DOMAIN m.forward
  /\ \A s \in DOMAIN m.forward :
       s[1] = KindOf[s[2]] /\ \E i \in 1 .. n : text[i] = s[2]

Table(m) == IsMap(m) /\ Consistent(m)

\* r is a text prompt: its body is redacted.
Prompt(r) == r # NoRequest /\ r.path \in PromptPath /\ r.utf8

\* The request o that left for r, with placeholders of m for its secrets and
\* perhaps the preserve-tokens prompt in front.
Linked(r, o, m) ==
  /\ Table(m) /\ ~ o.encodings
  /\ Len(o.text) >= Len(r.text)
  /\ \A i \in 1 .. Len(r.text) :
       o.text[i + (Len(o.text) - Len(r.text))] = Image(m, r.text[i])
  /\ KnowsSecrets(m, r.text, Len(r.text))

\* No token of o took the place of a secret of r.
Clean(r, o) ==
  Prompt(r) => \A i \in 1 .. Len(r.text) :
                 r.text[i] \in Text => i + (Len(o.text) - Len(r.text)) <= 0

\* The secrets of r in whose places o has the token (StandsFor, as a function
\* of the two messages).
Origins(r, o, token) ==
  {r.text[i] : i \in
     {i \in 1 .. Len(r.text) :
        /\ r.text[i] \in Text
        /\ i + (Len(o.text) - Len(r.text)) > 0
        /\ o.text[i + (Len(o.text) - Len(r.text))] = token}}

\* The token d of the client's reply is right for the token w of the
\* upstream's; asSent: of a reply that passes as it is.
Faithful(r, o, asSent, w, d) ==
  \/ Origins(r, o, w) = {d}
  \/ /\ Origins(r, o, w) = {} \/ asSent
     /\ d = w

\* The replies that the reverser does not read.
AsSent(e) == head[e].events = "other" \/ (head[e].events = "none" /\ ~ IsText(wire[e]))

\* The token is no secret, or one of the request.
IsOwn(r, d) == d \in Text => \E j \in 1 .. Len(r.text) : r.text[j] = d

Reply == Plain \cup Placeholder

Shape(e) ==
  /\ phase[e] \in Phases
  /\ phase[e] = "idle" => request[e] = NoRequest
  /\ phase[e] # "idle" => request[e] \in AnyRequest /\ request[e] \in world.request[e]
  /\ Table(map[e])
  /\ current_map[e] # NoMap =>
       current_map[e] = Some(current_map[e][1]) /\ ~ IsEmpty(current_map[e][1])
         /\ IsMap(current_map[e][1])
  /\ redacted[e] \in Seq(Token)
  /\ outbound[e] # NoRequest => outbound[e] \in AnyRequest
  /\ wire[e] \in Seq(Reply)
  /\ ending[e] \in {"open", "ended", "broken"}
  /\ delivered[e] \in Seq(Token)
  /\ lengthKept[e] \in BOOLEAN

\* What has not happened yet in each phase.
NotYet(e) ==
  /\ phase[e] \in BeforeRequest => outbound[e] = NoRequest /\ current_map[e] = NoMap
  /\ phase[e] \in BeforeRequest \cup {"sent"} =>
       head[e] = NoHead /\ wire[e] = << >> /\ ending[e] = "open"
  /\ phase[e] \in BeforeRequest \cup {"sent", "answered", "buffering"} => delivered[e] = << >>
  /\ phase[e] \in {"sent", "answered", "passing", "streaming", "buffering"} =>
       outbound[e] # NoRequest
  /\ lengthKept[e] => phase[e] \in {"passing"} \cup Over
  /\ phase[e] = "done" => ending[e] # "open"

\* `redact` is half way.
HalfRedacted(e) ==
  /\ phase[e] = "collecting" => IsPromptEndpoint(request[e].path)
  /\ phase[e] = "redacting" =>
       /\ Prompt(request[e])
       /\ Len(redacted[e]) <= Len(request[e].text)
       /\ \A i \in 1 .. Len(redacted[e]) : redacted[e][i] = Image(map[e], request[e].text[i])
       /\ KnowsSecrets(map[e], request[e].text, Len(redacted[e]))

\* What is true of the request that left, from then on.
RequestOut(e) ==
  outbound[e] # NoRequest =>
    /\ Prompt(request[e]) => \A i \in 1 .. Len(outbound[e].text) : outbound[e].text[i] \notin Text
    /\ outbound[e].declared /\ outbound[e].text # << >> => outbound[e].text = request[e].text

\* Who holds the table that fits the request, and what follows if nobody does.
TableHeld(e) ==
  /\ phase[e] \in {"sent", "answered"} =>
       IF current_map[e] = NoMap THEN Clean(request[e], outbound[e])
       ELSE Linked(request[e], outbound[e], current_map[e][1])
  /\ phase[e] = "passing" => Clean(request[e], outbound[e])
  /\ phase[e] \in {"streaming", "buffering"} => Linked(request[e], outbound[e], map[e])

\* The upstream's headers: it compresses only what the client may decode.
HeadFits(e) ==
  phase[e] \in {"answered", "passing", "streaming", "buffering"} =>
    /\ head[e].declared \in BOOLEAN
    /\ head[e].events \in EventKind /\ head[e].compressed \in BOOLEAN
    /\ head[e].compressed => outbound[e].encodings
    /\ phase[e] = "streaming" => head[e].events # "none"
    /\ phase[e] = "buffering" => head[e].events = "none"

\* What the client has read.
ReplyOut(e) ==
  /\ Len(delivered[e]) <= Len(wire[e])
  /\ \A i \in 1 .. Len(delivered[e]) : IsOwn(request[e], delivered[e][i])
  /\ Prompt(request[e]) =>
       \A i \in 1 .. Len(delivered[e]) :
         Faithful(request[e], outbound[e], AsSent(e), wire[e][i], delivered[e][i])
  /\ phase[e] = "passing" \/ lengthKept[e] =>
       \A i \in 1 .. Len(delivered[e]) : delivered[e][i] = wire[e][i]
  /\ phase[e] = "done" /\ lengthKept[e] /\ delivered[e] # << >> =>
       Len(delivered[e]) = Len(wire[e])
  /\ phase[e] = "done" /\ ending[e] = "ended" /\ Prompt(request[e]) =>
       Len(delivered[e]) = Len(wire[e]) \/ (IsEventStream(e) /\ GarbledNext(e))

Good(e) ==
  /\ Shape(e)
  /\ NotYet(e)
  /\ HalfRedacted(e)
  /\ RequestOut(e)
  /\ TableHeld(e)
  /\ HeadFits(e)
  /\ ReplyOut(e)

\* One entry per exchange.
Indexed ==
  /\ DOMAIN phase = Exchange /\ DOMAIN request = Exchange /\ DOMAIN map = Exchange
  /\ DOMAIN current_map = Exchange /\ DOMAIN redacted = Exchange
  /\ DOMAIN outbound = Exchange /\ DOMAIN head = Exchange /\ DOMAIN wire = Exchange
  /\ DOMAIN ending = Exchange /\ DOMAIN delivered = Exchange /\ DOMAIN lengthKept = Exchange

Started == {e \in Exchange : phase[e] # "idle"}

\* The shared counter.
Counted == IsFiniteSet(Started) /\ request_count = Cardinality(Started)

IInv ==
  /\ world \in World /\ Indexed /\ phase \in [Exchange -> Phases]
  /\ \A e \in Exchange : Good(e)
  /\ Counted

(***************************************************************************)
(* The table and the two messages.                                         *)
(***************************************************************************)

\* The table a request starts with.
LEMMA EmptyTable == Table(EmptyMap) /\ IsEmpty(EmptyMap)
  BY EmptyMapOK DEF Table, EmptyMap, IsEmpty, Minted

\* Some(m) is not None, and holds m.
LEMMA OptionSome == \A m : Some(m) # NoMap /\ Some(m)[1] = m
  BY DEF Some, NoMap

\* Places of the request are places of what left for it.
LEMMA LaterPlace ==
  ASSUME NEW a \in Nat, NEW b \in Nat, b >= a, NEW i \in 1 .. a
  PROVE  i + (b - a) > 0 /\ i + (b - a) \in 1 .. b
  OBVIOUS

\* One more token.
LEMMA OneMore ==
  ASSUME NEW S, NEW s \in Seq(S), NEW x \in S, NEW t, t = Append(s, x)
  PROVE  /\ t \in Seq(S) /\ Len(s) \in Nat /\ Len(t) = Len(s) + 1 /\ t[Len(s) + 1] = x
         /\ \A i \in 1 .. Len(s) : t[i] = s[i]
  BY AppendProperties

\* A function on the places 1 .. n is a sequence of length n.
LEMMA PiecesAreText ==
  ASSUME NEW S, NEW n \in Nat, NEW t, t = [i \in 1 .. n |-> t[i]], \A i \in 1 .. n : t[i] \in S
  PROVE  t \in Seq(S) /\ Len(t) = n
  OBVIOUS

\* A token that was minted stands for the secret it leads back to.
LEMMA MintedStandsFor ==
  ASSUME NEW r \in AnyRequest, NEW o \in AnyRequest, NEW m, Linked(r, o, m),
         NEW token \in Minted(m)
  PROVE  Origins(r, o, token) = {m.reverse[token]}
  <1> DEFINE shift == Len(o.text) - Len(r.text)
  <1>1. Len(r.text) \in Nat /\ Len(o.text) \in Nat /\ Len(o.text) >= Len(r.text)
    BY DEF Linked, AnyRequest
  <1>2. ASSUME NEW i \in 1 .. Len(r.text), r.text[i] \in Text, o.text[i + shift] = token
        PROVE  r.text[i] = m.reverse[token]
    <2>1. <<KindOf[r.text[i]], r.text[i]>> \in DOMAIN m.forward
      BY <1>2 DEF Linked, KnowsSecrets
    <2>2. token = m.forward[<<KindOf[r.text[i]], r.text[i]>>]
      BY <1>2 DEF Linked, Image
    <2>3. QED
      BY <2>1, <2>2 DEF Linked, Table, Consistent, Invertible
  <1>3. \E i \in 1 .. Len(r.text) :
          r.text[i] \in Text /\ o.text[i + shift] = token /\ r.text[i] = m.reverse[token]
    <2>1. PICK s \in DOMAIN m.forward : m.forward[s] = token
      BY DEF Linked, Table, Consistent, NoOrphans, Minted
    <2>2. /\ s \in Kind \X Text /\ m.reverse[token] = s[2] /\ s[1] = KindOf[s[2]]
          /\ \E i \in 1 .. Len(r.text) : r.text[i] = s[2]
      BY <2>1 DEF Linked, Table, Consistent, Invertible, IsMap, KnowsSecrets
    <2>3. PICK i \in 1 .. Len(r.text) : r.text[i] = s[2]
      BY <2>2
    <2>4. s[2] \in Text /\ s = <<KindOf[r.text[i]], r.text[i]>>
      BY <2>2, <2>3
    <2>5. o.text[i + shift] = token
      BY <2>1, <2>3, <2>4 DEF Linked, Image
    <2>6. QED
      BY <2>2, <2>3, <2>4, <2>5
  <1>4. \A i \in 1 .. Len(r.text) : i + shift > 0
    BY <1>1, LaterPlace
  <1>5. \A t \in Origins(r, o, token) : t = m.reverse[token]
    <2>1. TAKE t \in Origins(r, o, token)
    <2>2. PICK i \in 1 .. Len(r.text) :
            r.text[i] \in Text /\ o.text[i + shift] = token /\ t = r.text[i]
      BY <2>1 DEF Origins
    <2>3. QED
      BY <1>2, <2>2
  <1>6. m.reverse[token] \in Origins(r, o, token)
    BY <1>3, <1>4 DEF Origins
  <1>7. QED
    BY <1>5, <1>6

\* A token that was not minted stands for no secret.
LEMMA OtherStandsForNothing ==
  ASSUME NEW r \in AnyRequest, NEW o \in AnyRequest, NEW m, Linked(r, o, m),
         NEW token, token \notin Minted(m)
  PROVE  Origins(r, o, token) = {}
  <1> DEFINE shift == Len(o.text) - Len(r.text)
  <1>1. ASSUME NEW i \in 1 .. Len(r.text), r.text[i] \in Text, o.text[i + shift] = token
        PROVE  FALSE
    <2>1. <<KindOf[r.text[i]], r.text[i]>> \in DOMAIN m.forward
      BY <1>1 DEF Linked, KnowsSecrets
    <2>2. token = m.forward[<<KindOf[r.text[i]], r.text[i]>>]
      BY <1>1 DEF Linked, Image
    <2>3. QED
      BY <2>1, <2>2 DEF Linked, Table, Consistent, Invertible, Minted
  <1>2. QED
    BY <1>1 DEF Origins

\* Nothing stands for a secret of a clean request.
LEMMA CleanStandsForNothing ==
  ASSUME NEW r \in AnyRequest, NEW o \in AnyRequest, Clean(r, o), Prompt(r), NEW token
  PROVE  Origins(r, o, token) = {}
  BY DEF Clean, Origins, AnyRequest

\* What a minted token is reversed to is a secret of the request.
LEMMA ReversedIsOwn ==
  ASSUME NEW r \in AnyRequest, NEW o \in AnyRequest, NEW m, Linked(r, o, m),
         NEW token \in Minted(m)
  PROVE  m.reverse[token] \in Text /\ \E j \in 1 .. Len(r.text) : r.text[j] = m.reverse[token]
  <1>1. PICK s \in DOMAIN m.forward : m.forward[s] = token
    BY DEF Linked, Table, Consistent, NoOrphans, Minted
  <1>2. m.reverse[token] = s[2] /\ s \in Kind \X Text
    BY <1>1 DEF Linked, Table, Consistent, Invertible, IsMap
  <1>3. QED
    BY <1>2 DEF Linked, KnowsSecrets

\* Tokens of a reply are neither secrets nor the prompt.
LEMMA ReplyTokens == Reply \subseteq Token /\ \A token \in Reply : token \notin Text
  BY ConfigurationAssumption DEF Reply, Token

\* What the client gets for a token of the reply is faithful, and a secret
\* only if it is one of the request's own.
LEMMA RestoredIsRight ==
  ASSUME NEW e \in Exchange, request[e] \in AnyRequest, outbound[e] \in AnyRequest,
         Linked(request[e], outbound[e], map[e]), NEW token \in Reply, NEW asSent,
         NEW d, d = Restored(e, token)
  PROVE  /\ d \in Token
         /\ Faithful(request[e], outbound[e], asSent, token, d)
         /\ IsOwn(request[e], d)
  <1>1. CASE token \in Minted(map[e])
    BY <1>1, MintedStandsFor, ReversedIsOwn DEF Restored, Faithful, IsOwn, Token
  <1>2. CASE token \notin Minted(map[e])
    BY <1>2, OtherStandsForNothing, ReplyTokens DEF Restored, Faithful, IsOwn
  <1>3. QED
    BY <1>1, <1>2

(***************************************************************************)
(* One exchange at a time.                                                 *)
(***************************************************************************)

\* The entries of exchange f stay as they are.
Same(f) ==
  /\ phase'[f] = phase[f] /\ request'[f] = request[f] /\ map'[f] = map[f]
  /\ current_map'[f] = current_map[f] /\ redacted'[f] = redacted[f]
  /\ outbound'[f] = outbound[f] /\ head'[f] = head[f] /\ wire'[f] = wire[f]
  /\ ending'[f] = ending[f] /\ delivered'[f] = delivered[f]
  /\ lengthKept'[f] = lengthKept[f]

\* handler.rs:24-34: each exchange has its own clone and its own task.
LEMMA OthersKeep ==
  ASSUME Indexed, NEW e \in Exchange, Proxy(e) \/ Environment(e)
  PROVE  Indexed' /\ \A f \in Exchange \ {e} : Same(f)
  <1> USE DEF Indexed, Same, local, Goto, Drop, CloneOf
  <1>1. CASE RedactToken(e)
    BY <1>1 DEF RedactToken
  <1>2. CASE ForwardRedacted(e)
    BY <1>2 DEF ForwardRedacted
  <1>3. CASE HandleResponse(e)
    BY <1>3 DEF HandleResponse
  <1>4. CASE ForwardPiece(e)
    BY <1>4 DEF ForwardPiece
  <1>5. CASE ForwardEnd(e)
    BY <1>5 DEF ForwardEnd
  <1>6. CASE ReplyBuffered(e)
    BY <1>6 DEF ReplyBuffered
  <1>7. CASE BufferFails(e)
    BY <1>7 DEF BufferFails
  <1>8. CASE HandleRequest(e)
    BY <1>8 DEF HandleRequest
  <1>9. CASE CollectFails(e)
    BY <1>9 DEF CollectFails
  <1>10. CASE CollectBinary(e)
    BY <1>10 DEF CollectBinary
  <1>11. CASE CollectText(e)
    BY <1>11 DEF CollectText
  <1>12. CASE UpstreamAnswers(e)
    BY <1>12 DEF UpstreamAnswers
  <1>13. CASE UpstreamUnreachable(e)
    BY <1>13 DEF UpstreamUnreachable
  <1>14. CASE UpstreamSends(e)
    BY <1>14 DEF UpstreamSends
  <1>15. CASE Abort(e)
    BY <1>15 DEF Abort
  <1>16. QED
    BY <1>1, <1>2, <1>3, <1>4, <1>5, <1>6, <1>7, <1>8, <1>9, <1>10, <1>11, <1>12, <1>13,
       <1>14, <1>15 DEF Proxy, Environment

\* An exchange whose entries stay the same stays good.
LEMMA SameStaysGood ==
  ASSUME NEW f \in Exchange, Good(f), Same(f), world' = world
  PROVE  Good(f)'
  <1> USE DEF Same
  <1>1. Shape(f)'
    BY DEF Good, Shape
  <1>2. NotYet(f)'
    BY DEF Good, NotYet
  <1>3. HalfRedacted(f)'
    BY DEF Good, HalfRedacted
  <1>4. RequestOut(f)'
    BY DEF Good, RequestOut
  <1>5. TableHeld(f)' /\ HeadFits(f)'
    BY DEF Good, TableHeld, HeadFits
  <1>6. ReplyOut(f)'
    BY DEF Good, ReplyOut, AsSent, IsEventStream, GarbledNext
  <1>7. QED
    BY <1>1, <1>2, <1>3, <1>4, <1>5, <1>6 DEF Good

(***************************************************************************)
(* Redaction.                                                              *)
(***************************************************************************)

\* One more token is redacted: the table knows its secret, too, and the
\* images of the earlier tokens stay.
LEMMA SecretRedacted ==
  ASSUME NEW m, Table(m), NEW text \in Seq(Token), NEW n \in Nat, n < Len(text),
         KnowsSecrets(m, text, n), text[n + 1] \in Text
  PROVE  LET t == text[n + 1]
             after == AfterPlaceholderFor(m, KindOf[t], t)
         IN  /\ Table(after)
             /\ KnowsSecrets(after, text, n + 1)
             /\ PlaceholderFor(m, KindOf[t], t) = Image(after, t)
             /\ PlaceholderFor(m, KindOf[t], t) \in Token
             /\ \A i \in 1 .. n : Image(after, text[i]) = Image(m, text[i])
  <1> DEFINE t == text[n + 1]
             k == KindOf[t]
             after == AfterPlaceholderFor(m, k, t)
  <1>1. k \in Kind
    BY KindOfAssumption
  <1>2. Table(after) /\ PlaceholderFor(m, k, t) \in Token
    BY <1>1, AfterPlaceholderForIsMap, AfterPlaceholderForConsistent, PlaceholderForReturns
    DEF Table, Token
  <1>3. /\ DOMAIN after.forward = DOMAIN m.forward \cup {<<k, t>>}
        /\ after.forward[<<k, t>>] = PlaceholderFor(m, k, t)
        /\ \A s \in DOMAIN m.forward : after.forward[s] = m.forward[s]
    BY AfterPlaceholderForForward
  <1>4. KnowsSecrets(after, text, n + 1)
    BY <1>3 DEF KnowsSecrets
  <1>5. \A i \in 1 .. n : Image(after, text[i]) = Image(m, text[i])
    BY <1>3 DEF KnowsSecrets, Image
  <1>6. PlaceholderFor(m, k, t) = Image(after, t)
    BY <1>3 DEF Image
  <1>7. QED
    BY <1>2, <1>4, <1>5, <1>6

\* A token that is no secret stays, and the table fits as before.
LEMMA OtherRedacted ==
  ASSUME NEW m, NEW text \in Seq(Token), NEW n \in Nat, n < Len(text),
         KnowsSecrets(m, text, n), text[n + 1] \notin Text
  PROVE  KnowsSecrets(m, text, n + 1) /\ text[n + 1] = Image(m, text[n + 1])
  BY DEF KnowsSecrets, Image

\* The image of a token is never a secret.
LEMMA ImageIsNoSecret ==
  ASSUME NEW m, Table(m), NEW text, NEW n \in Nat, KnowsSecrets(m, text, n),
         NEW i \in 1 .. n
  PROVE  Image(m, text[i]) \notin Text
  <1>1. CASE text[i] \in Text
    <2>1. m.forward[<<KindOf[text[i]], text[i]>>] \in Placeholder
      BY <1>1 DEF KnowsSecrets, Table, IsMap
    <2>2. QED
      BY <1>1, <2>1, ConfigurationAssumption DEF Image
  <1>2. CASE text[i] \notin Text
    BY <1>2 DEF Image
  <1>3. QED
    BY <1>1, <1>2

\* out ends with the text.
EndsWith(out, text) ==
  /\ Len(out) >= Len(text)
  /\ \A i \in 1 .. Len(text) : out[i + (Len(out) - Len(text))] = text[i]

OnlyPromptAdded(out, text) ==
  \A i \in 1 .. Len(out) : out[i] = Preamble \/ \E j \in 1 .. Len(text) : out[i] = text[j]

\* The preserve-tokens prompt comes in front of the text, which stays.
LEMMA InjectedText ==
  ASSUME NEW r, NEW text \in Seq(Token)
  PROVE  /\ Injected(r, text) \in Seq(Token)
         /\ EndsWith(Injected(r, text), text)
         /\ OnlyPromptAdded(Injected(r, text), text)
  <1>1. CASE InjectSystemPrompt /\ r.json
    <2>1. Preamble \in Token /\ Injected(r, text) = <<Preamble>> \o text
      BY <1>1 DEF Token, Injected
    <2>2. QED
      BY <2>1 DEF EndsWith, OnlyPromptAdded
  <1>2. CASE ~ (InjectSystemPrompt /\ r.json)
    BY <1>2 DEF Injected, EndsWith, OnlyPromptAdded
  <1>3. QED
    BY <1>1, <1>2

\* A request with another text is a request.
LEMMA TextReplaced ==
  ASSUME NEW r \in AnyRequest, NEW text \in Seq(Token)
  PROVE  LET o == [r EXCEPT !.text = text]
         IN  /\ o \in AnyRequest /\ o.text = text
             /\ o.declared = r.declared /\ o.encodings = r.encodings
  <1>1. [r EXCEPT !.text = text] =
          [path |-> r.path, text |-> text, utf8 |-> r.utf8, json |-> r.json,
           declared |-> r.declared, encodings |-> r.encodings]
    BY DEF AnyRequest
  <1>2. QED
    BY <1>1 DEF AnyRequest

\* A request with an empty body is a request.
LEMMA TextEmptied ==
  ASSUME NEW r \in AnyRequest
  PROVE  LET o == [r EXCEPT !.text = << >>] IN o \in AnyRequest /\ o.text = << >>
  <1>1. ASSUME NEW text, text = << >>
        PROVE  LET o == [r EXCEPT !.text = text] IN o \in AnyRequest /\ o.text = text
    <2>1. text \in Seq(Token)
      BY <1>1
    <2>2. QED
      BY <2>1, TextReplaced
  <1>2. QED
    BY <1>1

\* Removing the headers changes nothing else.
LEMMA HeadersStripped ==
  ASSUME NEW r \in AnyRequest
  PROVE  LET o == StripHeaders(r)
         IN  o \in AnyRequest /\ o.text = r.text /\ ~ o.declared /\ ~ o.encodings
  <1>1. StripHeaders(r) \in AnyRequest
    BY DEF StripHeaders, AnyRequest
  <1>2. LET o == StripHeaders(r) IN o.text = r.text /\ ~ o.declared /\ ~ o.encodings
    BY DEF StripHeaders, AnyRequest
  <1>3. QED
    BY <1>1, <1>2

\* A table that is empty has seen no secret.
LEMMA EmptyKnowsNone ==
  ASSUME NEW m, Table(m), IsEmpty(m), NEW text, NEW n \in Nat, KnowsSecrets(m, text, n)
  PROVE  \A i \in 1 .. n : text[i] \notin Text
  BY DEF KnowsSecrets, Table, Consistent, Invertible, IsEmpty, Minted

\* The request that leaves fits the table, and has no secret.
LEMMA RedactedIsLinked ==
  ASSUME NEW r \in AnyRequest, NEW o \in AnyRequest, NEW m, Table(m), NEW d \in Seq(Token),
         Len(d) = Len(r.text), \A i \in 1 .. Len(d) : d[i] = Image(m, r.text[i]),
         KnowsSecrets(m, r.text, Len(d)), o.text = Injected(r, d), ~ o.encodings
  PROVE  Linked(r, o, m) /\ \A i \in 1 .. Len(o.text) : o.text[i] \notin Text
  <1>1. EndsWith(o.text, d) /\ OnlyPromptAdded(o.text, d)
    BY InjectedText
  <1>2. Linked(r, o, m)
    BY <1>1 DEF Linked, EndsWith
  <1>3. Len(d) \in Nat
    OBVIOUS
  <1>4. \A i \in 1 .. Len(o.text) : o.text[i] \notin Text
    BY <1>1, <1>3, ImageIsNoSecret, ConfigurationAssumption DEF OnlyPromptAdded
  <1>5. QED
    BY <1>2, <1>4

(***************************************************************************)
(* Each action keeps the invariant of its exchange.                        *)
(***************************************************************************)

\* A request arrives: it is forwarded at once, or its body is collected.
LEMMA StepHandleRequest ==
  ASSUME Indexed, world \in World, NEW e \in Exchange, Good(e), HandleRequest(e), world' = world
  PROVE  Good(e)'
  <1>1. /\ map'[e] = map[e] /\ current_map'[e] = current_map[e]
        /\ redacted'[e] = redacted[e] /\ head'[e] = head[e] /\ wire'[e] = wire[e]
        /\ ending'[e] = ending[e] /\ delivered'[e] = delivered[e]
        /\ lengthKept'[e] = lengthKept[e]
    BY DEF Indexed, HandleRequest, local
  <1>2. phase[e] = "idle"
    BY DEF HandleRequest
  <1>3. PICK r \in world.request[e] :
          /\ request'[e] = r
          /\ IF IsPromptEndpoint(r.path)
             THEN phase'[e] = "collecting" /\ outbound'[e] = outbound[e]
             ELSE phase'[e] = "sent" /\ outbound'[e] = r
    BY DEF HandleRequest, Indexed, Goto
  <1>4. r \in AnyRequest /\ r # NoRequest
    BY WorldAssumption, NoRequestAssumption
  <1>5. ~ IsPromptEndpoint(r.path) => ~ Prompt(r)
    BY DEF IsPromptEndpoint, Prompt
  <1>6. Shape(e)'
    BY <1>1, <1>2, <1>3, <1>4 DEF Good, Shape, Phases
  <1>7. NotYet(e)'
    BY <1>1, <1>2, <1>3, <1>4 DEF Good, NotYet, BeforeRequest, Over
  <1>8. HalfRedacted(e)'
    BY <1>1, <1>2, <1>3 DEF Good, HalfRedacted
  <1>9. RequestOut(e)'
    BY <1>1, <1>2, <1>3, <1>4, <1>5 DEF Good, RequestOut, NotYet, BeforeRequest
  <1>10. TableHeld(e)'
    BY <1>1, <1>2, <1>3, <1>4, <1>5 DEF Good, TableHeld, NotYet, BeforeRequest, Clean
  <1>11. HeadFits(e)'
    BY <1>1, <1>2, <1>3 DEF Good, HeadFits
  <1>12. ReplyOut(e)'
    BY <1>1, <1>2, <1>3 DEF Good, ReplyOut, NotYet, BeforeRequest, Over
  <1>13. QED
    BY <1>6, <1>7, <1>8, <1>9, <1>10, <1>11, <1>12 DEF Good

\* The client breaks off: an empty body has no place for a secret.
LEMMA StepCollectFails ==
  ASSUME Indexed, world \in World, NEW e \in Exchange, Good(e), CollectFails(e), world' = world
  PROVE  Good(e)'
  <1>1. /\ phase'[e] = "sent" /\ request'[e] = request[e] /\ map'[e] = map[e]
        /\ current_map'[e] = current_map[e] /\ redacted'[e] = redacted[e]
        /\ outbound'[e] = [request[e] EXCEPT !.text = << >>] /\ head'[e] = head[e]
        /\ wire'[e] = wire[e] /\ ending'[e] = ending[e] /\ delivered'[e] = delivered[e]
        /\ lengthKept'[e] = lengthKept[e]
    BY DEF Indexed, CollectFails, local, Goto
  <1>2. phase[e] = "collecting" /\ request[e] \in AnyRequest
    BY DEF CollectFails, Good, Shape
  <1>3. /\ outbound'[e] \in AnyRequest /\ outbound'[e].text = << >>
        /\ outbound'[e] # NoRequest
    BY <1>1, <1>2, NoRequestAssumption, TextEmptied
  <1>4. Clean(request[e], outbound'[e])
    <2>1. Len(request[e].text) \in Nat /\ Len(outbound'[e].text) = 0
      BY <1>2, <1>3 DEF AnyRequest
    <2>2. QED
      BY <2>1 DEF Clean
  <1>5. Shape(e)'
    BY <1>1, <1>2, <1>3 DEF Good, Shape, Phases
  <1>6. NotYet(e)'
    BY <1>1, <1>2, <1>3 DEF Good, NotYet, BeforeRequest, Over
  <1>7. HalfRedacted(e)'
    BY <1>1, <1>2 DEF Good, HalfRedacted
  <1>8. RequestOut(e)'
    BY <1>1, <1>2, <1>3 DEF Good, RequestOut
  <1>9. TableHeld(e)'
    BY <1>1, <1>2, <1>4 DEF Good, TableHeld, NotYet, BeforeRequest
  <1>10. HeadFits(e)'
    BY <1>1, <1>2 DEF Good, HeadFits
  <1>11. ReplyOut(e)'
    BY <1>1, <1>2 DEF Good, ReplyOut, NotYet, BeforeRequest, Over
  <1>12. QED
    BY <1>5, <1>6, <1>7, <1>8, <1>9, <1>10, <1>11 DEF Good

\* A body that is not UTF-8 is not a text prompt.
LEMMA StepCollectBinary ==
  ASSUME Indexed, world \in World, NEW e \in Exchange, Good(e), CollectBinary(e), world' = world
  PROVE  Good(e)'
  <1>1. /\ phase'[e] = "sent" /\ request'[e] = request[e] /\ map'[e] = map[e]
        /\ current_map'[e] = current_map[e] /\ redacted'[e] = redacted[e]
        /\ outbound'[e] = StripHeaders(request[e]) /\ head'[e] = head[e]
        /\ wire'[e] = wire[e] /\ ending'[e] = ending[e] /\ delivered'[e] = delivered[e]
        /\ lengthKept'[e] = lengthKept[e]
    BY DEF Indexed, CollectBinary, local, Goto
  <1>2. phase[e] = "collecting" /\ request[e] \in AnyRequest /\ ~ Prompt(request[e])
    BY DEF CollectBinary, Good, Shape, Prompt
  <1>3. /\ outbound'[e] \in AnyRequest /\ ~ outbound'[e].declared
        /\ outbound'[e] # NoRequest
    BY <1>1, <1>2, NoRequestAssumption, HeadersStripped
  <1>4. Clean(request[e], outbound'[e])
    BY <1>2 DEF Clean
  <1>5. Shape(e)'
    BY <1>1, <1>2, <1>3 DEF Good, Shape, Phases
  <1>6. NotYet(e)'
    BY <1>1, <1>2, <1>3 DEF Good, NotYet, BeforeRequest, Over
  <1>7. HalfRedacted(e)'
    BY <1>1, <1>2 DEF Good, HalfRedacted
  <1>8. RequestOut(e)'
    BY <1>1, <1>2, <1>3 DEF Good, RequestOut
  <1>9. TableHeld(e)'
    BY <1>1, <1>2, <1>4 DEF Good, TableHeld, NotYet, BeforeRequest
  <1>10. HeadFits(e)'
    BY <1>1, <1>2 DEF Good, HeadFits
  <1>11. ReplyOut(e)'
    BY <1>1, <1>2 DEF Good, ReplyOut, NotYet, BeforeRequest, Over
  <1>12. QED
    BY <1>5, <1>6, <1>7, <1>8, <1>9, <1>10, <1>11 DEF Good

\* Redaction starts with an empty table, which knows no secrets.
LEMMA StepCollectText ==
  ASSUME Indexed, world \in World, NEW e \in Exchange, Good(e), CollectText(e), world' = world
  PROVE  Good(e)'
  <1>1. /\ phase'[e] = "redacting" /\ request'[e] = request[e] /\ map'[e] = EmptyMap
        /\ current_map'[e] = current_map[e] /\ redacted'[e] = << >>
        /\ outbound'[e] = outbound[e] /\ head'[e] = head[e] /\ wire'[e] = wire[e]
        /\ ending'[e] = ending[e] /\ delivered'[e] = delivered[e]
        /\ lengthKept'[e] = lengthKept[e]
    BY DEF Indexed, CollectText, local, Goto
  <1>2. /\ phase[e] = "collecting" /\ request[e] \in AnyRequest /\ Prompt(request[e])
    BY NoRequestAssumption DEF CollectText, Good, Shape, HalfRedacted, Prompt, IsPromptEndpoint
  <1>3. KnowsSecrets(EmptyMap, request[e].text, 0)
    BY DEF KnowsSecrets, EmptyMap
  <1>4. Shape(e)'
    BY <1>1, <1>2, EmptyTable DEF Good, Shape, Phases
  <1>5. NotYet(e)'
    BY <1>1, <1>2 DEF Good, NotYet, BeforeRequest, Over
  <1>6. HalfRedacted(e)'
    BY <1>1, <1>2, <1>3 DEF Good, HalfRedacted, AnyRequest
  <1>7. RequestOut(e)'
    BY <1>1, <1>2 DEF Good, RequestOut
  <1>8. TableHeld(e)'
    BY <1>1, <1>2 DEF Good, TableHeld
  <1>9. HeadFits(e)'
    BY <1>1, <1>2 DEF Good, HeadFits
  <1>10. ReplyOut(e)'
    BY <1>1, <1>2 DEF Good, ReplyOut, NotYet, BeforeRequest, Over
  <1>11. QED
    BY <1>4, <1>5, <1>6, <1>7, <1>8, <1>9, <1>10 DEF Good

\* One token is redacted.
LEMMA StepRedactToken ==
  ASSUME Indexed, world \in World, NEW e \in Exchange, Good(e), RedactToken(e), world' = world
  PROVE  Good(e)'
  <1>1. /\ phase'[e] = phase[e] /\ request'[e] = request[e]
        /\ current_map'[e] = current_map[e] /\ outbound'[e] = outbound[e]
        /\ head'[e] = head[e] /\ wire'[e] = wire[e] /\ ending'[e] = ending[e]
        /\ delivered'[e] = delivered[e] /\ lengthKept'[e] = lengthKept[e]
    BY DEF Indexed, RedactToken, local
  <1> DEFINE text == request[e].text
             n == Len(redacted[e])
             token == text[n + 1]
  <1>2. /\ phase[e] = "redacting" /\ n < Len(text) /\ n \in Nat
        /\ text \in Seq(Token) /\ redacted[e] \in Seq(Token) /\ Table(map[e])
        /\ KnowsSecrets(map[e], text, n)
        /\ \A i \in 1 .. n : redacted[e][i] = Image(map[e], text[i])
    <2>1. phase[e] = "redacting" /\ request[e] \in AnyRequest /\ n < Len(text)
      BY DEF RedactToken, Good, Shape
    <2>2. text \in Seq(Token) /\ redacted[e] \in Seq(Token) /\ n \in Nat
      BY <2>1 DEF AnyRequest, Good, Shape
    <2>3. QED
      BY <2>1, <2>2 DEF Good, Shape, HalfRedacted
  <1>3. /\ Table(map'[e]) /\ redacted'[e] \in Seq(Token) /\ Len(redacted'[e]) = n + 1
        /\ KnowsSecrets(map'[e], text, n + 1)
        /\ \A i \in 1 .. n + 1 : redacted'[e][i] = Image(map'[e], text[i])
    <2>1. CASE token \in Text
      <3> DEFINE p == PlaceholderFor(map[e], KindOf[token], token)
      <3>1. /\ redacted'[e] = Append(redacted[e], p)
            /\ map'[e] = AfterPlaceholderFor(map[e], KindOf[token], token)
        BY <2>1 DEF RedactToken, Indexed
      <3>2. /\ Table(map'[e]) /\ KnowsSecrets(map'[e], text, n + 1)
            /\ p = Image(map'[e], token) /\ p \in Token
            /\ \A i \in 1 .. n : Image(map'[e], text[i]) = Image(map[e], text[i])
        <4>1. n \in Nat /\ n < Len(text) /\ text \in Seq(Token) /\ Table(map[e])
              /\ KnowsSecrets(map[e], text, n) /\ text[n + 1] \in Text
          BY <1>2, <2>1
        <4> HIDE DEF n, text
        <4>2. QED
          BY <3>1, <4>1, SecretRedacted
      <3> HIDE DEF p
      <3>3. QED
        <4>1. /\ redacted'[e] \in Seq(Token) /\ Len(redacted'[e]) = n + 1
              /\ redacted'[e][n + 1] = p
              /\ \A i \in 1 .. n : redacted'[e][i] = redacted[e][i]
          <5>1. redacted[e] \in Seq(Token) /\ p \in Token /\ redacted'[e] = Append(redacted[e], p)
            BY <1>2, <3>1, <3>2
          <5>2. QED
            BY <5>1, OneMore
        <4> HIDE DEF token
        <4>2. \A i \in 1 .. n + 1 : redacted'[e][i] = Image(map'[e], text[i])
          <5>1. ASSUME NEW i \in 1 .. n PROVE redacted'[e][i] = Image(map'[e], text[i])
            BY <1>2, <3>2, <4>1
          <5>2. redacted'[e][n + 1] = Image(map'[e], text[n + 1])
            BY <3>2, <4>1 DEF token
          <5>3. n \in Nat
            BY <1>2
          <5> HIDE DEF n, text
          <5>4. QED
            BY <5>1, <5>2, <5>3
        <4>3. QED
          BY <3>2, <4>1, <4>2
    <2>2. CASE token \notin Text
      <3>1. redacted'[e] = Append(redacted[e], token) /\ map'[e] = map[e]
        BY <2>2 DEF RedactToken, Indexed
      <3>2. KnowsSecrets(map[e], text, n + 1) /\ token = Image(map[e], token)
        BY <1>2, <2>2, OtherRedacted
      <3>3. token \in Token
        BY <1>2
      <3> HIDE DEF token
      <3>4. QED
        BY <1>2, <3>1, <3>2, <3>3 DEF token
    <2>3. QED
      BY <2>1, <2>2
  <1> HIDE DEF n
  <1>4. Shape(e)'
    BY <1>1, <1>2, <1>3 DEF Good, Shape
  <1>5. NotYet(e)'
    BY <1>1, <1>2 DEF Good, NotYet
  <1>6. HalfRedacted(e)'
    BY <1>1, <1>2, <1>3 DEF Good, HalfRedacted
  <1>7. RequestOut(e)'
    BY <1>1, <1>2 DEF Good, RequestOut
  <1>8. TableHeld(e)'
    BY <1>1, <1>2 DEF Good, TableHeld
  <1>9. HeadFits(e)'
    BY <1>1, <1>2 DEF Good, HeadFits
  <1>10. ReplyOut(e)'
    BY <1>1, <1>2 DEF Good, ReplyOut, NotYet, BeforeRequest, Over
  <1>11. QED
    BY <1>4, <1>5, <1>6, <1>7, <1>8, <1>9, <1>10 DEF Good

\* The redacted request leaves; the clone keeps the table unless it is empty.
LEMMA StepForwardRedacted ==
  ASSUME Indexed, world \in World, NEW e \in Exchange, Good(e), ForwardRedacted(e), world' = world
  PROVE  Good(e)'
  <1>1. /\ phase'[e] = "sent" /\ request'[e] = request[e] /\ map'[e] = EmptyMap
        /\ redacted'[e] = << >>
        /\ outbound'[e] = [StripHeaders(request[e]) EXCEPT !.text = Injected(request[e], redacted[e])]
        /\ head'[e] = head[e] /\ wire'[e] = wire[e] /\ ending'[e] = ending[e]
        /\ delivered'[e] = delivered[e] /\ lengthKept'[e] = lengthKept[e]
    BY DEF Indexed, ForwardRedacted, local, Goto
  <1> DEFINE r == request[e]
             m == map[e]
             n == Len(r.text)
             o == outbound'[e]
  <1>2. /\ phase[e] = "redacting" /\ r \in AnyRequest /\ r.text \in Seq(Token) /\ n \in Nat
        /\ redacted[e] \in Seq(Token) /\ Len(redacted[e]) = n /\ Table(m) /\ Prompt(r)
        /\ KnowsSecrets(m, r.text, n)
        /\ \A i \in 1 .. n : redacted[e][i] = Image(m, r.text[i])
    BY DEF ForwardRedacted, Good, Shape, HalfRedacted, AnyRequest
  <1>3. IF IsEmpty(m) THEN current_map'[e] = NoMap ELSE current_map'[e] = Some(m)
    BY <1>2 DEF ForwardRedacted, Indexed, CloneOf, Good, NotYet, BeforeRequest
  <1>4. /\ o \in AnyRequest /\ o.text = Injected(r, redacted[e])
        /\ ~ o.declared /\ ~ o.encodings /\ o # NoRequest
    <2>1. Injected(r, redacted[e]) \in Seq(Token)
      BY <1>2, InjectedText
    <2>2. /\ StripHeaders(r) \in AnyRequest
          /\ ~ StripHeaders(r).declared /\ ~ StripHeaders(r).encodings
      BY <1>2, HeadersStripped
    <2>3. QED
      BY <1>1, <2>1, <2>2, TextReplaced, NoRequestAssumption
  <1>5. Linked(r, o, m) /\ \A i \in 1 .. Len(o.text) : o.text[i] \notin Text
    BY <1>2, <1>4, RedactedIsLinked
  <1>6. IsEmpty(m) => Clean(r, o)
    BY <1>2, EmptyKnowsNone DEF Clean
  <1>7. Shape(e)'
    BY <1>1, <1>2, <1>3, <1>4, EmptyTable, OptionSome DEF Good, Shape, Phases, Table
  <1>8. NotYet(e)'
    BY <1>1, <1>2, <1>4 DEF Good, NotYet, BeforeRequest, Over
  <1>9. HalfRedacted(e)'
    BY <1>1, <1>2 DEF Good, HalfRedacted
  <1>10. RequestOut(e)'
    BY <1>1, <1>2, <1>4, <1>5 DEF Good, RequestOut
  <1>11. TableHeld(e)'
    BY <1>1, <1>2, <1>3, <1>5, <1>6, OptionSome DEF Good, TableHeld
  <1>12. HeadFits(e)'
    BY <1>1, <1>2 DEF Good, HeadFits
  <1>13. ReplyOut(e)'
    BY <1>1, <1>2 DEF Good, ReplyOut, NotYet, BeforeRequest, Over
  <1>14. QED
    BY <1>7, <1>8, <1>9, <1>10, <1>11, <1>12, <1>13 DEF Good

\* The headers of the reply arrive.
LEMMA StepUpstreamAnswers ==
  ASSUME Indexed, world \in World, NEW e \in Exchange, Good(e), UpstreamAnswers(e), world' = world
  PROVE  Good(e)'
  <1>1. /\ phase'[e] = "answered" /\ request'[e] = request[e] /\ map'[e] = map[e]
        /\ current_map'[e] = current_map[e] /\ redacted'[e] = redacted[e]
        /\ outbound'[e] = outbound[e] /\ wire'[e] = wire[e] /\ ending'[e] = ending[e]
        /\ delivered'[e] = delivered[e] /\ lengthKept'[e] = lengthKept[e]
    BY DEF Indexed, UpstreamAnswers, local, Goto
  <1>2. /\ phase[e] = "sent"
        /\ head'[e].declared \in BOOLEAN
        /\ head'[e].events \in EventKind /\ head'[e].compressed \in BOOLEAN
        /\ head'[e].compressed => outbound[e].encodings
    BY DEF UpstreamAnswers, Indexed
  <1>3. Shape(e)'
    BY <1>1, <1>2 DEF Good, Shape, Phases
  <1>4. NotYet(e)'
    BY <1>1, <1>2 DEF Good, NotYet, BeforeRequest, Over
  <1>5. HalfRedacted(e)'
    BY <1>1, <1>2 DEF Good, HalfRedacted
  <1>6. RequestOut(e)'
    BY <1>1, <1>2 DEF Good, RequestOut
  <1>7. TableHeld(e)'
    BY <1>1, <1>2 DEF Good, TableHeld
  <1>8. HeadFits(e)'
    BY <1>1, <1>2 DEF Good, HeadFits
  <1>9. ReplyOut(e)'
    BY <1>1, <1>2 DEF Good, ReplyOut, NotYet, BeforeRequest, Over
  <1>10. QED
    BY <1>3, <1>4, <1>5, <1>6, <1>7, <1>8, <1>9 DEF Good

\* No reply: the exchange ends, and the tables go.
LEMMA StepUpstreamUnreachable ==
  ASSUME Indexed, world \in World, NEW e \in Exchange, Good(e), UpstreamUnreachable(e), world' = world
  PROVE  Good(e)'
  <1>1. /\ phase'[e] = "failed" /\ request'[e] = request[e] /\ map'[e] = EmptyMap
        /\ current_map'[e] = NoMap /\ redacted'[e] = redacted[e]
        /\ outbound'[e] = outbound[e] /\ head'[e] = head[e] /\ wire'[e] = wire[e]
        /\ ending'[e] = ending[e] /\ delivered'[e] = delivered[e]
        /\ lengthKept'[e] = lengthKept[e]
    BY DEF Indexed, UpstreamUnreachable, local, Goto, Drop, CloneOf
  <1>2. phase[e] = "sent"
    BY DEF UpstreamUnreachable
  <1>3. Shape(e)'
    BY <1>1, <1>2, EmptyTable DEF Good, Shape, Phases
  <1>4. NotYet(e)'
    BY <1>1, <1>2 DEF Good, NotYet, BeforeRequest, Over
  <1>5. HalfRedacted(e)'
    BY <1>1, <1>2 DEF Good, HalfRedacted
  <1>6. RequestOut(e)'
    BY <1>1, <1>2 DEF Good, RequestOut
  <1>7. TableHeld(e)'
    BY <1>1, <1>2 DEF Good, TableHeld
  <1>8. HeadFits(e)'
    BY <1>1, <1>2 DEF Good, HeadFits
  <1>9. ReplyOut(e)'
    BY <1>1, <1>2 DEF Good, ReplyOut, NotYet, BeforeRequest, Over
  <1>10. QED
    BY <1>3, <1>4, <1>5, <1>6, <1>7, <1>8, <1>9 DEF Good

\* The client leaves: the exchange ends, and the tables go.
LEMMA StepAbort ==
  ASSUME Indexed, world \in World, NEW e \in Exchange, Good(e), Abort(e), world' = world
  PROVE  Good(e)'
  <1>1. /\ phase'[e] = "aborted" /\ request'[e] = request[e] /\ map'[e] = EmptyMap
        /\ current_map'[e] = NoMap /\ redacted'[e] = redacted[e]
        /\ outbound'[e] = outbound[e] /\ head'[e] = head[e] /\ wire'[e] = wire[e]
        /\ ending'[e] = ending[e] /\ delivered'[e] = delivered[e]
        /\ lengthKept'[e] = lengthKept[e]
    BY DEF Indexed, Abort, local, Goto, Drop, CloneOf
  <1>2. phase[e] \in {"collecting", "sent", "answered", "passing", "streaming", "buffering"}
    BY DEF Abort
  <1>3. Shape(e)'
    BY <1>1, <1>2, EmptyTable DEF Good, Shape, Phases
  <1>4. NotYet(e)'
    BY <1>1, <1>2 DEF Good, NotYet, BeforeRequest, Over
  <1>5. HalfRedacted(e)'
    BY <1>1, <1>2 DEF Good, HalfRedacted
  <1>6. RequestOut(e)'
    BY <1>1, <1>2 DEF Good, RequestOut
  <1>7. TableHeld(e)'
    BY <1>1, <1>2 DEF Good, TableHeld
  <1>8. HeadFits(e)'
    BY <1>1, <1>2 DEF Good, HeadFits
  <1>9. ReplyOut(e)'
    BY <1>1, <1>2 DEF Good, ReplyOut, NotYet, BeforeRequest, Over, AsSent
  <1>10. QED
    BY <1>3, <1>4, <1>5, <1>6, <1>7, <1>8, <1>9 DEF Good

\* A piece of the reply arrives, or its end: what the client has read keeps its
\* places.
LEMMA StepUpstreamSends ==
  ASSUME Indexed, world \in World, NEW e \in Exchange, Good(e), UpstreamSends(e), world' = world
  PROVE  Good(e)'
  <1>1. /\ phase'[e] = phase[e] /\ request'[e] = request[e] /\ map'[e] = map[e]
        /\ current_map'[e] = current_map[e] /\ redacted'[e] = redacted[e]
        /\ outbound'[e] = outbound[e] /\ head'[e] = head[e] /\ delivered'[e] = delivered[e]
        /\ lengthKept'[e] = lengthKept[e]
    BY DEF Indexed, UpstreamSends, local
  <1>2. wire[e] \in Seq(Reply) /\ delivered[e] \in Seq(Token)
    BY DEF Good, Shape
  <1>3. head[e] # NoHead /\ ending[e] = "open"
    BY DEF UpstreamSends
  <1>4. \/ wire'[e] = wire[e] /\ ending'[e] \in {"ended", "broken"}
        \/ /\ \E token \in Reply : wire'[e] = Append(wire[e], token)
           /\ ending'[e] = ending[e]
    BY WorldAssumption DEF UpstreamSends, Indexed, Reply
  <1>5. /\ wire'[e] \in Seq(Reply) /\ Len(wire[e]) \in Nat /\ Len(wire'[e]) >= Len(wire[e])
        /\ \A i \in 1 .. Len(wire[e]) : wire'[e][i] = wire[e][i]
    BY <1>2, <1>4, OneMore
  <1>6. /\ Len(delivered[e]) \in Nat /\ Len(delivered[e]) <= Len(wire'[e])
        /\ \A i \in 1 .. Len(delivered[e]) : wire'[e][i] = wire[e][i]
    BY <1>2, <1>5 DEF Good, ReplyOut
  <1>7. phase[e] # "done" /\ phase[e] \notin BeforeRequest \cup {"sent"}
    BY <1>3 DEF Good, NotYet
  <1>8. Shape(e)'
    BY <1>1, <1>3, <1>4, <1>5 DEF Good, Shape
  <1>9. NotYet(e)'
    BY <1>1, <1>7 DEF Good, NotYet
  <1>10. HalfRedacted(e)'
    BY <1>1 DEF Good, HalfRedacted
  <1>11. RequestOut(e)'
    BY <1>1 DEF Good, RequestOut
  <1>12. TableHeld(e)'
    BY <1>1 DEF Good, TableHeld
  <1>13. HeadFits(e)'
    BY <1>1 DEF Good, HeadFits
  <1>14. ReplyOut(e)'
    <2>1. AsSent(e) => AsSent(e)'
      BY <1>1, <1>5 DEF AsSent, IsText
    <2>2. ASSUME Prompt(request[e]), NEW i \in 1 .. Len(delivered[e])
          PROVE  Faithful(request'[e], outbound'[e], AsSent(e)', wire'[e][i], delivered'[e][i])
      BY <1>1, <1>6, <2>1, <2>2 DEF Good, ReplyOut, Faithful
    <2>3. QED
      BY <1>1, <1>6, <1>7, <2>2 DEF Good, ReplyOut
  <1>15. QED
    BY <1>8, <1>9, <1>10, <1>11, <1>12, <1>13, <1>14 DEF Good

\* The response is reversed exactly if the clone has a table.
LEMMA StepHandleResponse ==
  ASSUME Indexed, world \in World, NEW e \in Exchange, Good(e), HandleResponse(e), world' = world
  PROVE  Good(e)'
  <1>1. /\ request'[e] = request[e] /\ redacted'[e] = redacted[e]
        /\ outbound'[e] = outbound[e] /\ head'[e] = head[e] /\ wire'[e] = wire[e]
        /\ ending'[e] = ending[e] /\ delivered'[e] = delivered[e]
    BY DEF Indexed, HandleResponse, local
  <1>2. phase[e] = "answered" /\ delivered[e] = << >> /\ wire[e] \in Seq(Reply)
    BY DEF HandleResponse, Good, Shape, NotYet
  <1>3. \/ /\ current_map[e] = NoMap /\ phase'[e] = "passing" /\ map'[e] = map[e]
           /\ current_map'[e] = current_map[e] /\ lengthKept'[e] = head[e].declared
           /\ Clean(request[e], outbound[e])
        \/ /\ phase'[e] = (IF head[e].events # "none" THEN "streaming" ELSE "buffering")
           /\ current_map'[e] = NoMap /\ lengthKept'[e] = lengthKept[e]
           /\ Linked(request[e], outbound[e], map'[e])
    BY <1>2 DEF HandleResponse, Indexed, Goto, CloneOf, IsEventStream, Good, TableHeld
  <1>4. Table(map'[e])
    BY <1>3 DEF Linked, Good, Shape
  <1>5. Shape(e)'
    BY <1>1, <1>2, <1>3, <1>4 DEF Good, Shape, Phases, HeadFits
  <1>6. NotYet(e)'
    BY <1>1, <1>2, <1>3 DEF Good, NotYet, BeforeRequest, Over
  <1>7. HalfRedacted(e)'
    BY <1>1, <1>2, <1>3 DEF Good, HalfRedacted
  <1>8. RequestOut(e)'
    BY <1>1 DEF Good, RequestOut
  <1>9. TableHeld(e)'
    BY <1>1, <1>2, <1>3 DEF Good, TableHeld
  <1>10. HeadFits(e)'
    BY <1>1, <1>2, <1>3 DEF Good, HeadFits
  <1>11. ReplyOut(e)'
    BY <1>1, <1>2, <1>3 DEF Good, ReplyOut
  <1>12. QED
    BY <1>5, <1>6, <1>7, <1>8, <1>9, <1>10, <1>11 DEF Good

\* The client reads one more token.
LEMMA StepForwardPiece ==
  ASSUME Indexed, world \in World, NEW e \in Exchange, Good(e), ForwardPiece(e), world' = world
  PROVE  Good(e)'
  <1>1. /\ phase'[e] = phase[e] /\ request'[e] = request[e] /\ map'[e] = map[e]
        /\ current_map'[e] = current_map[e] /\ redacted'[e] = redacted[e]
        /\ outbound'[e] = outbound[e] /\ head'[e] = head[e] /\ wire'[e] = wire[e]
        /\ ending'[e] = ending[e] /\ lengthKept'[e] = lengthKept[e]
    BY DEF Indexed, ForwardPiece, local
  <1> DEFINE n == Len(delivered[e])
             w == wire[e][n + 1]
             d == IF phase[e] = "streaming" /\ head[e].events = "text_delta"
                  THEN Restored(e, w) ELSE w
  <1>2. /\ phase[e] \in {"passing", "streaming"} /\ n < Len(wire[e])
        /\ delivered'[e] = Append(delivered[e], d)
    BY DEF ForwardPiece, Indexed
  <1>3. /\ wire[e] \in Seq(Reply) /\ delivered[e] \in Seq(Token) /\ n \in Nat
        /\ request[e] \in AnyRequest /\ outbound[e] \in AnyRequest /\ w \in Reply
    BY <1>2 DEF Good, Shape, NotYet
  <1>4. /\ d \in Token
        /\ Prompt(request[e]) => Faithful(request[e], outbound[e], AsSent(e), w, d)
        /\ IsOwn(request[e], d)
        /\ phase[e] = "passing" => d = w
    <2>1. CASE phase[e] = "passing"
      <3>1. d = w /\ Clean(request[e], outbound[e])
        BY <2>1 DEF Good, TableHeld
      <3>2. QED
        BY <1>3, <3>1, ReplyTokens, CleanStandsForNothing DEF Faithful, IsOwn
    <2>2. CASE phase[e] = "streaming" /\ head[e].events = "text_delta"
      <3>1. Linked(request[e], outbound[e], map[e]) /\ d = Restored(e, w)
        BY <2>2 DEF Good, TableHeld
      <3>2. QED
        BY <1>3, <2>2, <3>1, RestoredIsRight
    <2>3. CASE phase[e] = "streaming" /\ head[e].events # "text_delta"
      <3>1. d = w /\ head[e].events = "other"
        BY <2>3 DEF Good, HeadFits, EventKind
      <3>2. QED
        BY <1>3, <2>3, <3>1, ReplyTokens DEF Faithful, AsSent, IsOwn
    <2>4. QED
      BY <1>2, <2>1, <2>2, <2>3
  <1> HIDE DEF d
  <1>5. /\ delivered'[e] \in Seq(Token) /\ Len(delivered'[e]) = n + 1
        /\ delivered'[e][n + 1] = d
        /\ \A i \in 1 .. n : delivered'[e][i] = delivered[e][i]
    BY <1>2, <1>3, <1>4, OneMore
  <1>6. Shape(e)'
    BY <1>1, <1>5 DEF Good, Shape
  <1>7. NotYet(e)'
    BY <1>1, <1>2 DEF Good, NotYet
  <1>8. HalfRedacted(e)'
    BY <1>1 DEF Good, HalfRedacted
  <1>9. RequestOut(e)'
    BY <1>1 DEF Good, RequestOut
  <1>10. TableHeld(e)'
    BY <1>1 DEF Good, TableHeld
  <1>11. HeadFits(e)'
    BY <1>1 DEF Good, HeadFits
  <1>12. ReplyOut(e)'
    <2> HIDE DEF w
    <2>1. Len(delivered'[e]) <= Len(wire'[e])
      BY <1>1, <1>2, <1>3, <1>5
    <2>2. \A i \in 1 .. Len(delivered'[e]) : i \in 1 .. n \/ i = n + 1
      BY <1>3, <1>5
    <2>3. \A i \in 1 .. Len(delivered'[e]) : IsOwn(request'[e], delivered'[e][i])
      BY <1>1, <1>4, <1>5, <2>2 DEF Good, ReplyOut
    <2>4. Prompt(request'[e]) =>
            \A i \in 1 .. Len(delivered'[e]) :
              Faithful(request'[e], outbound'[e], AsSent(e)', wire'[e][i], delivered'[e][i])
      <3>1. AsSent(e)' = AsSent(e)
        BY <1>1 DEF AsSent
      <3>2. QED
        BY <1>1, <1>4, <1>5, <2>2, <3>1 DEF Good, ReplyOut, w
    <2>5. phase'[e] = "passing" \/ lengthKept'[e] =>
            \A i \in 1 .. Len(delivered'[e]) : delivered'[e][i] = wire'[e][i]
      BY <1>1, <1>2, <1>4, <1>5, <2>2 DEF Good, ReplyOut, NotYet, Over, w
    <2>6. QED
      BY <1>1, <1>2, <2>1, <2>3, <2>4, <2>5 DEF ReplyOut
  <1>13. QED
    BY <1>6, <1>7, <1>8, <1>9, <1>10, <1>11, <1>12 DEF Good

\* The reply is over: all of it has been read, unless it could not be decoded.
LEMMA StepForwardEnd ==
  ASSUME Indexed, world \in World, NEW e \in Exchange, Good(e), ForwardEnd(e), world' = world
  PROVE  Good(e)'
  <1>1. /\ request'[e] = request[e] /\ map'[e] = EmptyMap /\ current_map'[e] = NoMap
        /\ redacted'[e] = redacted[e] /\ outbound'[e] = outbound[e] /\ head'[e] = head[e]
        /\ wire'[e] = wire[e] /\ ending'[e] = ending[e] /\ delivered'[e] = delivered[e]
        /\ lengthKept'[e] = lengthKept[e]
    BY DEF Indexed, ForwardEnd, local, Drop, CloneOf
  <1>2. /\ phase[e] \in {"passing", "streaming"} /\ ending[e] # "open"
        /\ phase'[e] \in {"done", "failed"}
        /\ Undecodable(e) \/ Len(delivered[e]) = Len(wire[e])
    BY DEF ForwardEnd, Indexed, Goto
  <1>3. Undecodable(e) => ~ lengthKept[e] /\ IsEventStream(e) /\ GarbledNext(e)
    <2>1. phase[e] = "streaming" =>
            ~ lengthKept[e] /\ ~ head[e].compressed /\ head[e].events # "none"
      BY DEF Good, NotYet, Over, TableHeld, HeadFits, Linked
    <2>2. QED
      BY <2>1 DEF Undecodable, IsEventStream
  <1>4. Shape(e)'
    BY <1>1, <1>2, EmptyTable DEF Good, Shape, Phases
  <1>5. NotYet(e)'
    BY <1>1, <1>2 DEF Good, NotYet, BeforeRequest, Over
  <1>6. HalfRedacted(e)'
    BY <1>1, <1>2 DEF Good, HalfRedacted
  <1>7. RequestOut(e)'
    BY <1>1 DEF Good, RequestOut
  <1>8. TableHeld(e)'
    BY <1>1, <1>2 DEF Good, TableHeld
  <1>9. HeadFits(e)'
    BY <1>1, <1>2 DEF Good, HeadFits
  <1>10. ReplyOut(e)'
    BY <1>1, <1>2, <1>3 DEF Good, ReplyOut, AsSent, IsEventStream, GarbledNext
  <1>11. QED
    BY <1>4, <1>5, <1>6, <1>7, <1>8, <1>9, <1>10 DEF Good

\* The whole reply is reversed.
LEMMA StepReplyBuffered ==
  ASSUME Indexed, world \in World, NEW e \in Exchange, Good(e), ReplyBuffered(e), world' = world
  PROVE  Good(e)'
  <1>1. /\ phase'[e] = "done" /\ request'[e] = request[e] /\ map'[e] = EmptyMap
        /\ current_map'[e] = NoMap /\ redacted'[e] = redacted[e]
        /\ outbound'[e] = outbound[e] /\ head'[e] = head[e] /\ wire'[e] = wire[e]
        /\ ending'[e] = ending[e] /\ lengthKept'[e] = lengthKept[e]
    BY DEF Indexed, ReplyBuffered, local, Goto, Drop, CloneOf
  <1>2. /\ phase[e] = "buffering" /\ ending[e] = "ended"
        /\ delivered'[e] = IF ~ head[e].compressed /\ IsText(wire[e])
                           THEN [i \in 1 .. Len(wire[e]) |-> Restored(e, wire[e][i])]
                           ELSE wire[e]
    BY DEF ReplyBuffered, Indexed
  <1>3. /\ wire[e] \in Seq(Reply) /\ request[e] \in AnyRequest /\ outbound[e] \in AnyRequest
        /\ Linked(request[e], outbound[e], map[e]) /\ ~ lengthKept[e]
        /\ ~ head[e].compressed /\ head[e].events = "none"
    BY <1>2 DEF Good, Shape, NotYet, Over, TableHeld, HeadFits, Linked
  <1>4. \A i \in 1 .. Len(wire[e]) : wire[e][i] \in Reply
    BY <1>3
  <1>5. ASSUME NEW i \in 1 .. Len(wire[e])
        PROVE  /\ delivered'[e][i] \in Token /\ IsOwn(request[e], delivered'[e][i])
               /\ Faithful(request[e], outbound[e], AsSent(e), wire[e][i], delivered'[e][i])
    <2> DEFINE d == delivered'[e][i]
    <2>1. CASE IsText(wire[e])
      <3>1. d = Restored(e, wire[e][i]) /\ wire[e][i] \in Reply
        BY <1>2, <1>3, <1>4, <2>1
      <3> HIDE DEF d
      <3>2. QED
        BY <1>3, <3>1, RestoredIsRight DEF d
    <2>2. CASE ~ IsText(wire[e])
      <3>1. d = wire[e][i] /\ wire[e][i] \in Reply
        BY <1>2, <1>4, <2>2
      <3>2. QED
        BY <1>3, <2>2, <3>1, ReplyTokens DEF IsOwn, Faithful, AsSent
    <2>3. QED
      BY <2>1, <2>2
  <1>6. delivered'[e] \in Seq(Token) /\ Len(delivered'[e]) = Len(wire[e])
    <2>1. Len(wire[e]) \in Nat
      BY <1>3
    <2>2. CASE IsText(wire[e])
      <3>1. delivered'[e] = [i \in 1 .. Len(wire[e]) |-> delivered'[e][i]]
        BY <1>2, <1>3, <2>2
      <3>2. QED
        BY <1>5, <2>1, <3>1, PiecesAreText
    <2>3. CASE ~ IsText(wire[e])
      BY <1>2, <1>3, <2>3, ReplyTokens
    <2>4. QED
      BY <2>2, <2>3
  <1>7. Shape(e)'
    BY <1>1, <1>2, <1>6, EmptyTable DEF Good, Shape, Phases
  <1>8. NotYet(e)'
    BY <1>1, <1>2, <1>3 DEF Good, NotYet, BeforeRequest, Over
  <1>9. HalfRedacted(e)'
    BY <1>1, <1>2 DEF Good, HalfRedacted
  <1>10. RequestOut(e)'
    BY <1>1 DEF Good, RequestOut
  <1>11. TableHeld(e)'
    BY <1>1, <1>2 DEF Good, TableHeld
  <1>12. HeadFits(e)'
    BY <1>1, <1>2 DEF Good, HeadFits
  <1>13. ReplyOut(e)'
    <2>1. Len(wire[e]) \in Nat
      BY <1>3
    <2>2. Prompt(request'[e]) =>
            \A i \in 1 .. Len(delivered'[e]) :
              Faithful(request'[e], outbound'[e], AsSent(e)', wire'[e][i], delivered'[e][i])
      <3>1. AsSent(e)' = AsSent(e)
        BY <1>1 DEF AsSent
      <3>2. QED
        BY <1>1, <1>5, <1>6, <3>1
    <2>3. \A i \in 1 .. Len(delivered'[e]) : IsOwn(request'[e], delivered'[e][i])
      BY <1>1, <1>5, <1>6
    <2>4. QED
      BY <1>1, <1>3, <1>6, <2>1, <2>2, <2>3 DEF ReplyOut
  <1>14. QED
    BY <1>7, <1>8, <1>9, <1>10, <1>11, <1>12, <1>13 DEF Good

\* The reply broke off: an empty one is delivered.
LEMMA StepBufferFails ==
  ASSUME Indexed, world \in World, NEW e \in Exchange, Good(e), BufferFails(e), world' = world
  PROVE  Good(e)'
  <1>1. /\ phase'[e] = "done" /\ request'[e] = request[e] /\ map'[e] = EmptyMap
        /\ current_map'[e] = NoMap /\ redacted'[e] = redacted[e]
        /\ outbound'[e] = outbound[e] /\ head'[e] = head[e] /\ wire'[e] = wire[e]
        /\ ending'[e] = ending[e] /\ delivered'[e] = delivered[e]
        /\ lengthKept'[e] = head[e].declared
    BY DEF Indexed, BufferFails, local, Goto, Drop, CloneOf
  <1>2. phase[e] = "buffering" /\ ending[e] = "broken" /\ delivered[e] = << >>
    BY DEF BufferFails, Good, NotYet
  <1>3. Shape(e)'
    BY <1>1, <1>2, EmptyTable DEF Good, Shape, Phases, HeadFits
  <1>4. NotYet(e)'
    BY <1>1, <1>2 DEF Good, NotYet, BeforeRequest, Over
  <1>5. HalfRedacted(e)'
    BY <1>1, <1>2 DEF Good, HalfRedacted
  <1>6. RequestOut(e)'
    BY <1>1 DEF Good, RequestOut
  <1>7. TableHeld(e)'
    BY <1>1, <1>2 DEF Good, TableHeld
  <1>8. HeadFits(e)'
    BY <1>1, <1>2 DEF Good, HeadFits
  <1>9. ReplyOut(e)'
    BY <1>1, <1>2 DEF Good, ReplyOut
  <1>10. QED
    BY <1>3, <1>4, <1>5, <1>6, <1>7, <1>8, <1>9 DEF Good

(***************************************************************************)
(* The invariant of all exchanges together.                                *)
(***************************************************************************)

\* Every step of an exchange keeps its part of the invariant.
LEMMA StepGood ==
  ASSUME Indexed, world \in World, NEW e \in Exchange, Good(e), Proxy(e) \/ Environment(e),
         world' = world
  PROVE  Good(e)'
  <1>1. CASE Proxy(e)
    BY <1>1, StepRedactToken, StepForwardRedacted, StepHandleResponse, StepForwardPiece,
       StepForwardEnd, StepReplyBuffered, StepBufferFails DEF Proxy
  <1>2. CASE Environment(e)
    BY <1>2, StepHandleRequest, StepCollectFails, StepCollectBinary, StepCollectText,
       StepUpstreamAnswers, StepUpstreamUnreachable, StepUpstreamSends, StepAbort DEF Environment
  <1>3. QED
    BY <1>1, <1>2

\* An exchange that has started stays started; only HandleRequest starts one.
LEMMA StepStarted ==
  ASSUME Indexed, phase \in [Exchange -> Phases], NEW e \in Exchange,
         Proxy(e) \/ Environment(e)
  PROVE  /\ phase' \in [Exchange -> Phases]
         /\ \/ /\ phase[e] = "idle" /\ Started' = Started \cup {e}
               /\ request_count' = request_count + 1
            \/ Started' = Started /\ request_count' = request_count
  <1> USE DEF Indexed, Started, Phases, Goto
  <1>1. CASE HandleRequest(e)
    <2>1. /\ phase[e] = "idle" /\ request_count' = request_count + 1
          /\ \/ phase' = [phase EXCEPT ![e] = "collecting"]
             \/ phase' = [phase EXCEPT ![e] = "sent"]
      BY <1>1 DEF HandleRequest
    <2>2. QED
      BY <2>1
  <1>2. ASSUME phase[e] # "idle", request_count' = request_count,
               NEW p \in Phases \ {"idle"}, phase' = [phase EXCEPT ![e] = p]
        PROVE  phase' \in [Exchange -> Phases] /\ Started' = Started /\ request_count' = request_count
    BY <1>2
  <1>3. ASSUME phase' = phase, request_count' = request_count
        PROVE  phase' \in [Exchange -> Phases] /\ Started' = Started /\ request_count' = request_count
    BY <1>3
  <1>4. CASE RedactToken(e) \/ ForwardPiece(e) \/ UpstreamSends(e)
    BY <1>3, <1>4 DEF RedactToken, ForwardPiece, UpstreamSends
  <1>5. CASE ForwardRedacted(e) \/ HandleResponse(e) \/ ForwardEnd(e)
    BY <1>2, <1>5 DEF ForwardRedacted, HandleResponse, ForwardEnd
  <1>6. CASE ReplyBuffered(e) \/ BufferFails(e) \/ CollectFails(e) \/ CollectBinary(e)
    BY <1>2, <1>6 DEF ReplyBuffered, BufferFails, CollectFails, CollectBinary
  <1>7. CASE CollectText(e) \/ UpstreamAnswers(e) \/ UpstreamUnreachable(e) \/ Abort(e)
    BY <1>2, <1>7 DEF CollectText, UpstreamAnswers, UpstreamUnreachable, Abort
  <1>8. QED
    BY <1>1, <1>4, <1>5, <1>6, <1>7 DEF Proxy, Environment

\* The inductive invariant holds initially ...
LEMMA InitIInv == Init => IInv
  <1> SUFFICES ASSUME Init PROVE IInv
    OBVIOUS
  <1>1. ASSUME NEW e \in Exchange PROVE Good(e)
    <2> USE DEF Init
    <2>1. Shape(e)
      BY EmptyTable DEF Shape, Phases
    <2>2. NotYet(e)
      BY DEF NotYet, BeforeRequest, Over
    <2>3. HalfRedacted(e) /\ RequestOut(e) /\ TableHeld(e) /\ HeadFits(e)
      BY DEF HalfRedacted, RequestOut, TableHeld, HeadFits
    <2>4. ReplyOut(e)
      BY DEF ReplyOut
    <2>5. QED
      BY <2>1, <2>2, <2>3, <2>4 DEF Good
  <1>2. Counted
    <2>1. Started = {}
      BY DEF Init, Started
    <2>2. QED
      BY <2>1, FS_EmptySet DEF Init, Counted
  <1>3. QED
    BY <1>1, <1>2 DEF Init, IInv, Indexed, Phases

\* ... and every step of any exchange keeps it.
LEMMA NextIInv == IInv /\ [Next]_vars => IInv'
  <1> SUFFICES ASSUME IInv, [Next]_vars PROVE IInv'
    OBVIOUS
  <1>1. CASE UNCHANGED vars
    <2>1. ASSUME NEW f \in Exchange PROVE Good(f)'
      BY <1>1, SameStaysGood DEF IInv, vars, Same
    <2>2. (world \in World /\ Indexed /\ phase \in [Exchange -> Phases] /\ Counted)'
      BY <1>1 DEF IInv, vars, Indexed, Counted, Started
    <2>3. QED
      BY <2>1, <2>2 DEF IInv
  <1>2. CASE Next
    <2>1. PICK e \in Exchange : (Proxy(e) \/ Environment(e)) /\ world' = world
      BY <1>2 DEF Next
    <2>2. Indexed' /\ \A f \in Exchange \ {e} : Same(f)
      BY <2>1, OthersKeep DEF IInv
    <2>3. ASSUME NEW f \in Exchange PROVE Good(f)'
      <3>1. CASE f = e
        BY <2>1, <3>1, StepGood DEF IInv
      <3>2. CASE f # e
        BY <2>1, <2>2, <3>2, SameStaysGood DEF IInv
      <3>3. QED
        BY <3>1, <3>2
    <2>4. phase' \in [Exchange -> Phases] /\ Counted'
      <3>1. /\ phase' \in [Exchange -> Phases]
            /\ \/ /\ phase[e] = "idle" /\ Started' = Started \cup {e}
                  /\ request_count' = request_count + 1
               \/ Started' = Started /\ request_count' = request_count
        BY <2>1, StepStarted DEF IInv
      <3>2. CASE /\ phase[e] = "idle" /\ Started' = Started \cup {e}
                 /\ request_count' = request_count + 1
        <4>1. e \notin Started
          BY <3>2 DEF Started
        <4>2. QED
          BY <3>1, <3>2, <4>1, FS_AddElement DEF IInv, Counted
      <3>3. CASE Started' = Started /\ request_count' = request_count
        BY <3>1, <3>3 DEF IInv, Counted
      <3>4. QED
        BY <3>1, <3>2, <3>3
    <2>5. QED
      BY <2>1, <2>2, <2>3, <2>4 DEF IInv
  <1>3. QED
    BY <1>1, <1>2

\* Every reachable state satisfies the inductive invariant.
THEOREM Invariance == Spec => []IInv
  BY InitIInv, NextIInv, PTL DEF Spec

(***************************************************************************)
(* What follows.                                                           *)
(***************************************************************************)

\* The state of the proxy has the shape the code gives it, and the shared
\* counter is the number of requests that arrived.
THEOREM TypeCorrect == Spec => []TypeOK
  <1>1. IInv => TypeOK
    <2> SUFFICES ASSUME IInv PROVE TypeOK
      OBVIOUS
    <2>1. ASSUME NEW e \in Exchange
          PROVE  /\ request[e] \in world.request[e] \cup {NoRequest}
                 /\ phase[e] = "idle" <=> request[e] = NoRequest
                 /\ IsMap(map[e])
                 /\ current_map[e] # NoMap =>
                      LET kept == current_map[e][1]
                      IN  current_map[e] = Some(kept) /\ IsMap(kept) /\ ~ IsEmpty(kept)
                 /\ redacted[e] \in Seq(Token) /\ wire[e] \in Seq(Token)
                 /\ delivered[e] \in Seq(Token)
                 /\ ending[e] \in {"open", "ended", "broken"} /\ lengthKept[e] \in BOOLEAN
      <3>1. Shape(e)
        BY DEF IInv, Good
      <3>2. wire[e] \in Seq(Token)
        BY <3>1, ReplyTokens DEF Shape
      <3>3. QED
        BY <3>1, <3>2, NoRequestAssumption DEF Shape, Table
    <2>2. QED
      BY <2>1 DEF IInv, TypeOK, Counted, Started
  <1>2. QED
    BY <1>1, Invariance, PTL

\* No secret of a text prompt ever reaches the upstream, whatever the other
\* exchanges of the connection do meanwhile.
THEOREM SecretsStay == Spec => []NoSecretLeaves
  <1>1. IInv => NoSecretLeaves
    BY DEF IInv, Good, RequestOut, NoSecretLeaves, Redactable, Prompt
  <1>2. QED
    BY <1>1, Invariance, PTL

\* Overlapping exchanges never leak each other's secrets: a secret a client
\* reads was in its own request.
THEOREM SecretsAreOwn == Spec => []OnlyOwnSecrets
  <1>1. IInv => OnlyOwnSecrets
    BY DEF IInv, Good, ReplyOut, IsOwn, OnlyOwnSecrets
  <1>2. QED
    BY <1>1, Invariance, PTL

\* The proxy is transparent: exactly the tokens that took the place of a
\* secret are put back, but for replies that pass as they are, and a finished
\* reply is complete, an event stream up to the first byte that is not UTF-8.
THEOREM RepliesRestored == Spec => []ReplyRestored
  <1>1. IInv => ReplyRestored
    <2> SUFFICES ASSUME IInv, NEW e \in Exchange, Redactable(e), head[e] # NoHead
                 PROVE  /\ \A i \in 1 .. Len(delivered[e]) :
                             \/ StandsFor(e, wire[e][i]) = {delivered[e][i]}
                             \/ /\ StandsFor(e, wire[e][i]) = {} \/ AsSent(e)
                                /\ delivered[e][i] = wire[e][i]
                        /\ phase[e] = "done" /\ ending[e] = "ended" =>
                             \/ Len(delivered[e]) = Len(wire[e])
                             \/ IsEventStream(e) /\ GarbledNext(e)
      BY DEF ReplyRestored, AsSent
    <2>1. ReplyOut(e) /\ Prompt(request[e])
      BY DEF IInv, Good, Redactable, Prompt
    <2>2. \A token : StandsFor(e, token) = Origins(request[e], outbound[e], token)
      BY DEF StandsFor, Origins
    <2>3. QED
      BY <2>1, <2>2 DEF ReplyOut, Faithful
  <1>2. QED
    BY <1>1, Invariance, PTL

\* A body that was rewritten is not sent with the length of the old one, in
\* either direction, unless it is empty.
THEOREM RewrittenUndeclared == Spec => []RewrittenIsUndeclared
  <1>1. IInv => RewrittenIsUndeclared
    <2> SUFFICES ASSUME IInv, NEW e \in Exchange
                 PROVE  /\ outbound[e] # NoRequest /\ outbound[e].declared
                             /\ outbound[e].text # << >> => outbound[e].text = request[e].text
                        /\ phase[e] = "done" /\ lengthKept[e] /\ delivered[e] # << >> =>
                             delivered[e] = wire[e]
      BY DEF RewrittenIsUndeclared
    <2>1. RequestOut(e) /\ ReplyOut(e) /\ Shape(e)
      BY DEF IInv, Good
    <2>2. ASSUME phase[e] = "done", lengthKept[e], delivered[e] # << >>
          PROVE  delivered[e] = wire[e]
      <3>1. /\ Len(delivered[e]) = Len(wire[e])
            /\ \A i \in 1 .. Len(delivered[e]) : delivered[e][i] = wire[e][i]
        BY <2>1, <2>2 DEF ReplyOut
      <3>2. delivered[e] \in Seq(Token) /\ wire[e] \in Seq(Reply)
        BY <2>1 DEF Shape
      <3>3. QED
        BY <3>1, <3>2
    <2>3. QED
      BY <2>1, <2>2 DEF RequestOut
  <1>2. QED
    BY <1>1, Invariance, PTL

=============================================================================
