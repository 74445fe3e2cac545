---------------------------- MODULE RelayForward ----------------------------
(***************************************************************************)
(* The base-URL relay (crates/proxy-server/src/handler.rs and lib.rs): a   *)
(* local server whose handler, `forward`, serves each exchange in a task   *)
(* of its own.  It reads the request, redacts it, adds the preserve-tokens *)
(* prompt, sends it on, and reverses the reply.  The placeholder table is  *)
(* a local variable of that call.  Unlike MitmHandler the relay sends the  *)
(* client's Accept-Encoding on, answers failures with a status of its own, *)
(* and shuts down when told to.                                            *)
(***************************************************************************)
EXTENDS PlaceholderMap, PromptInjection, SequencesExt

CONSTANTS
  Exchange,     \* requests to the relay and their replies
  RequestOf,    \* the requests the client of each exchange may send
  Route,        \* the routes of the router, and the shape each one gets
  KindOf,       \* the kind the detector reports for each secret of Text
  Plain,        \* tokens that are neither secrets nor placeholders
  Garbled,      \* of these, a piece of a reply with bytes that are not UTF-8
  ReplyToken,   \* the tokens the upstream's reply to each exchange is made of
  MaxReply,     \* bound: tokens of each reply
  InjectSystemPrompt,  \* configuration (RelayConfig::inject_system_prompt)
  NoRequest, NoHead

\* What clients and upstreams write; the prompt is only what the relay adds.
Word == Text \cup Plain \cup Placeholder
Token == Word \cup {Preamble}

ASSUME KindOfAssumption == KindOf \in [Text -> Kind]

\* A value of the field: elements only in arrays, text only elsewhere.
IsField(field) ==
  /\ field.tag # "array" => field.items = << >>
  /\ field.tag \in {"absent", "null", "array"} => field.text = << >>

\* Replies.  Bodies are an event stream with its text in text_delta events
\* (/v1/messages) or in events of another form (the OpenAI endpoints), or none.
\* They may be compressed, and pieces of any of them need not be UTF-8.
EventKind == {"none", "text_delta", "other"}
ReplyHead == [events : EventKind, compressed : BOOLEAN]
EventsOf(path) == IF Route[path] = "Anthropic" THEN "text_delta" ELSE "other"

\* `encodings`: the client accepts compressed replies.  `utf8`: the body is
\* text; `object`: it is a JSON object; `field`: of that, the system prompt's
\* field; `bare`: a service account that stands unquoted, as a JSON object of
\* its own (a tool's input, say); `rest`: all other text.
ASSUME RelayAssumption ==
  /\ RequestOf \in [Exchange -> SUBSET
       [path : STRING, encodings : BOOLEAN,
        body : [utf8 : BOOLEAN, object : BOOLEAN,
                field : [tag : {"absent", "null", "string", "array", "other"},
                         text : Seq(Word),
                         items : Seq([role : STRING, plain : BOOLEAN, text : Seq(Word)])],
                bare : Seq(Word), rest : Seq(Word)]]]
  /\ \A e \in Exchange : \A r \in RequestOf[e] : r # NoRequest /\ IsField(r.body.field)
  /\ Route \in [DOMAIN Route -> Shapes \ {"none"}]
  /\ ReplyToken \in [Exchange -> SUBSET (Plain \cup Placeholder)]
  /\ Text \cap (Plain \cup Placeholder) = {} /\ Preamble \notin Word
  /\ Garbled \in Plain \ Placeholder
  /\ NoHead \notin ReplyHead
  /\ InjectSystemPrompt \in BOOLEAN /\ MaxReply \in [Exchange -> Nat]

VARIABLES
  server,      \* "running", "draining" (told to shut down), "stopped"
  phase,       \* where each exchange is
  request,     \* what the client sent
  placeholder_map,  \* the table of each call
  outbound,    \* the request the upstream receives
  head,        \* headers of the upstream's reply
  wire,        \* its body, as far as it has arrived
  ending,      \* "open", "ended" or "broken": the upstream's body
  status,      \* the status the client receives
  delivered    \* the body the client receives, error messages left out

vars == <<server, phase, request, placeholder_map, outbound, head, wire, ending,
          status, delivered>>

Init ==
  /\ server = "running"
  /\ phase = [e \in Exchange |-> "idle"]
  /\ request = [e \in Exchange |-> NoRequest]
  /\ placeholder_map = [e \in Exchange |-> EmptyMap]
  /\ outbound = [e \in Exchange |-> NoRequest]
  /\ head = [e \in Exchange |-> NoHead]
  /\ wire = [e \in Exchange |-> << >>]
  /\ ending = [e \in Exchange |-> "open"]
  /\ status = [e \in Exchange |-> "none"]
  /\ delivered = [e \in Exchange |-> << >>]

Over == {"done", "failed", "aborted"}

Goto(e, p) == phase' = [phase EXCEPT ![e] = p]

\* The call is over, and its table is gone.
Return(e, p, s) ==
  /\ Goto(e, p)
  /\ status' = [status EXCEPT ![e] = s]
  /\ placeholder_map' = [placeholder_map EXCEPT ![e] = EmptyMap]

-----------------------------------------------------------------------------
\* The texts of a body, in the order in which they are read.
FieldText(field) ==
  field.text \o FlattenSeq([i \in 1 .. Len(field.items) |-> field.items[i].text])

Words(body) == FieldText(body.field) \o body.bare \o body.rest

\* The table after redaction: placeholders are minted in reading order.
Mint(map, token) ==
  IF token \in Text THEN AfterPlaceholderFor(map, KindOf[token], token) ELSE map

MintedFor(body) ==
  LET map[n \in 0 .. Len(Words(body))] ==
        IF n = 0 THEN EmptyMap ELSE Mint(map[n - 1], Words(body)[n])
  IN  map[Len(Words(body))]

\* Each secret becomes the placeholder the table has for it.
Substituted(map, text) ==
  [i \in 1 .. Len(text) |->
     IF text[i] \in Text THEN PlaceholderFor(map, KindOf[text[i]], text[i]) ELSE text[i]]

\* Mutation: only the text of messages is redacted.
RedactRest(body) == [body EXCEPT !.rest = Substituted(MintedFor(body), @)]

\* `redact` on the bytes of a body.  Where a service account stands bare, its
\* placeholder does too, and the body is no longer JSON.
RedactBody(body) ==
  LET map == MintedFor(body)
      item(i) == [body.field.items[i] EXCEPT !.text = Substituted(map, @)]
      field == [body.field EXCEPT !.text = Substituted(map, @),
                                  !.items = [i \in 1 .. Len(@) |-> item(i)]]
  IN  [body EXCEPT !.field = field,
                   !.bare = Substituted(map, @), !.rest = Substituted(map, @),
                   !.object = @ /\ \A i \in 1 .. Len(body.bare) : body.bare[i] \notin Text]

ShapeFor(path) == IF InjectSystemPrompt THEN Route[path] ELSE "none"

-----------------------------------------------------------------------------
\* A request on one of the routes reaches its handler; others get a 404.
Accept(e) ==
  /\ server = "running" /\ phase[e] = "idle"
  /\ \E r \in RequestOf[e] :
       /\ request' = [request EXCEPT ![e] = r]
       /\ IF r.path \in DOMAIN Route
          THEN Goto(e, "reading") /\ UNCHANGED status
          ELSE Goto(e, "done") /\ status' = [status EXCEPT ![e] = "not_found"]
  /\ UNCHANGED <<server, placeholder_map, outbound, head, wire, ending, delivered>>

\* The body of the request cannot be read to its end.
ReadFails(e) ==
  /\ phase[e] = "reading"
  /\ Return(e, "done", "bad_request")
  /\ UNCHANGED <<server, request, outbound, head, wire, ending, delivered>>

\* The body is complete.  A text is redacted, then gets the prompt; other
\* bytes are sent as they are.
ForwardRequest(e) ==
  /\ phase[e] = "reading"
  /\ LET r == request[e]
     IN  IF r.body.utf8
         THEN /\ placeholder_map' = [placeholder_map EXCEPT ![e] = MintedFor(r.body)]
              /\ outbound' = [outbound EXCEPT ![e] =
                   [r EXCEPT !.body = InjectAfterRedact(ShapeFor(r.path), RedactBody(@))]]
         ELSE /\ outbound' = [outbound EXCEPT ![e] = r]
              /\ UNCHANGED placeholder_map
  /\ Goto(e, "sent")
  /\ UNCHANGED <<server, request, head, wire, ending, status, delivered>>

\* The upstream cannot be reached.
SendFails(e) ==
  /\ phase[e] = "sent"
  /\ Return(e, "done", "bad_gateway")
  /\ UNCHANGED <<server, request, outbound, head, wire, ending, delivered>>

\* Mutation: every reply that must be reversed is buffered.
AlwaysBuffered(h) == FALSE

IsEventStream(h) == h.events # "none"

\* The headers of the reply are there: without placeholders it is passed on,
\* an event stream is reversed as it comes, anything else is buffered.
RelayReply(e) ==
  /\ phase[e] = "sent"
  /\ \E h \in ReplyHead :
       LET way == IF IsEmpty(placeholder_map[e]) THEN "passing"
                  ELSE IF IsEventStream(h) THEN "streaming" ELSE "buffering"
       IN  /\ h.events \in {"none", EventsOf(outbound[e].path)}
           /\ h.compressed => outbound[e].encodings
           /\ head' = [head EXCEPT ![e] = h]
           /\ Goto(e, way)
           /\ status' = IF way = "buffering" THEN status
                        ELSE [status EXCEPT ![e] = "upstream"]
  /\ UNCHANGED <<server, request, placeholder_map, outbound, wire, ending, delivered>>

\* The upstream's body arrives, piece by piece, and ends or breaks off.
UpstreamSends(e) ==
  /\ head[e] # NoHead /\ ending[e] = "open"
  /\ \/ /\ Len(wire[e]) < MaxReply[e]
        /\ \E token \in ReplyToken[e] : wire' = [wire EXCEPT ![e] = Append(@, token)]
        /\ UNCHANGED ending
     \/ /\ \E how \in {"ended", "broken"} : ending' = [ending EXCEPT ![e] = how]
        /\ UNCHANGED wire
  /\ UNCHANGED <<server, phase, request, placeholder_map, outbound, head, status, delivered>>

-----------------------------------------------------------------------------
\* Mutation: all calls look placeholders up in the table of one of them.
SharedTable(e, token) ==
  LET m == placeholder_map[CHOOSE d \in Exchange : ~ IsEmpty(placeholder_map[d])]
  IN  IF token \in Minted(m) THEN m.reverse[token] ELSE token

\* `reverse`, for one token.
Restored(e, token) ==
  IF token \in Minted(placeholder_map[e]) THEN placeholder_map[e].reverse[token] ELSE token

\* All of these bytes are UTF-8.
IsText(bytes) == \A i \in 1 .. Len(bytes) : bytes[i] # Garbled

\* The next piece of the reply is not UTF-8.
GarbledNext(e) ==
  Len(delivered[e]) < Len(wire[e]) /\ wire[e][Len(delivered[e]) + 1] = Garbled

\* Bytes that are not UTF-8 stay in the reverser's byte buffer, with all that
\* comes behind them, until they are dropped at the end.  Compressed bodies
\* begin with such bytes.
Undecodable(e) == phase[e] = "streaming" /\ (head[e].compressed \/ GarbledNext(e))

\* One piece of a stream.  The reverser reverses the text of text_delta
\* events; other events pass through it.
ForwardPiece(e) ==
  /\ phase[e] \in {"passing", "streaming"} /\ ~ Undecodable(e)
  /\ Len(delivered[e]) < Len(wire[e])
  /\ LET token == wire[e][Len(delivered[e]) + 1]
     IN  delivered' = [delivered EXCEPT ![e] =
           Append(@, IF phase[e] = "streaming" /\ head[e].events = "text_delta"
                     THEN Restored(e, token) ELSE token)]
  /\ UNCHANGED <<server, phase, request, placeholder_map, outbound, head, wire, ending, status>>

\* The stream ends, or fails, as the upstream's body did.
ForwardEnd(e) ==
  /\ phase[e] \in {"passing", "streaming"} /\ ending[e] # "open"
  /\ Undecodable(e) \/ Len(delivered[e]) = Len(wire[e])
  /\ Return(e, IF ending[e] = "ended" THEN "done" ELSE "failed", status[e])
  /\ UNCHANGED <<server, request, outbound, head, wire, ending, delivered>>

\* The whole body is there: it is reversed in one piece if it is all text.
ReplyBuffered(e) ==
  /\ phase[e] = "buffering" /\ ending[e] = "ended"
  /\ delivered' = [delivered EXCEPT ![e] =
       IF ~ head[e].compressed /\ IsText(wire[e])
       THEN [i \in 1 .. Len(wire[e]) |-> Restored(e, wire[e][i])] ELSE wire[e]]
  /\ Return(e, "done", "upstream")
  /\ UNCHANGED <<server, request, outbound, head, wire, ending>>

\* Mutations: a body that broke off is passed on as if it were empty, as in
\* MitmHandler; its error is not handled.
BufferEmptied(e) ==
  /\ phase[e] = "buffering" /\ ending[e] = "broken"
  /\ Return(e, "done", "upstream")
  /\ UNCHANGED <<server, request, outbound, head, wire, ending, delivered>>
BufferHangs(e) == FALSE

\* The body broke off.
BufferFails(e) ==
  /\ phase[e] = "buffering" /\ ending[e] = "broken"
  /\ Return(e, "done", "bad_gateway")
  /\ UNCHANGED <<server, request, outbound, head, wire, ending, delivered>>

\* The client hangs up: the task is dropped wherever it waits.
Abort(e) ==
  /\ phase[e] \in {"reading", "sent", "passing", "streaming", "buffering"}
  /\ Return(e, "aborted", status[e])
  /\ UNCHANGED <<server, request, outbound, head, wire, ending, delivered>>

\* The future `shutdown` resolves: nothing is accepted any more ...
Shutdown ==
  /\ server = "running"
  /\ server' = "draining"
  /\ UNCHANGED <<phase, request, placeholder_map, outbound, head, wire, ending, status,
                 delivered>>

\* ... and run_relay returns when the exchanges in flight are over.
Stop ==
  /\ server = "draining"
  /\ \A e \in Exchange : phase[e] \in Over \cup {"idle"}
  /\ server' = "stopped"
  /\ UNCHANGED <<phase, request, placeholder_map, outbound, head, wire, ending, status,
                 delivered>>

\* What the relay does on its own, once the awaited data is there.
Relay(e) ==
  \/ ForwardPiece(e)
  \/ ForwardEnd(e)
  \/ ReplyBuffered(e)
  \/ BufferFails(e)

\* What client, upstream and network decide.
Environment(e) ==
  \/ Accept(e)
  \/ ReadFails(e)
  \/ ForwardRequest(e)
  \/ SendFails(e)
  \/ RelayReply(e)
  \/ UpstreamSends(e)
  \/ Abort(e)

Next == (\E e \in Exchange : Relay(e) \/ Environment(e)) \/ Shutdown \/ Stop

\* The runtime keeps polling a task that can go on.
Spec == Init /\ [][Next]_vars /\ (\A e \in Exchange : WF_vars(Relay(e))) /\ WF_vars(Stop)

-----------------------------------------------------------------------------
\* The state has the shape the code gives it.
TypeOK ==
  /\ server \in {"running", "draining", "stopped"}
  /\ phase \in [Exchange -> {"idle", "reading", "sent", "passing", "streaming", "buffering"}
                              \cup Over]
  /\ status \in [Exchange -> {"none", "upstream", "not_found", "bad_request", "bad_gateway"}]
  /\ \A e \in Exchange :
       /\ request[e] \in RequestOf[e] \cup {NoRequest}
       /\ phase[e] = "idle" <=> request[e] = NoRequest
       /\ IsMap(placeholder_map[e])
       /\ phase[e] \in {"streaming", "buffering"} => ~ IsEmpty(placeholder_map[e])
       /\ wire[e] \in Seq(Token) /\ delivered[e] \in Seq(Token)
       /\ ending[e] \in {"open", "ended", "broken"}

Redacted(e) == outbound[e] # NoRequest /\ outbound[e].body.utf8

\* The purpose of the relay: no secret of a text request reaches the
\* upstream, in whatever part of the body it stands and whatever is added.
NoSecretLeaves ==
  \A e \in Exchange : Redacted(e) =>
    LET words == Words(outbound[e].body)
    IN  \A i \in 1 .. Len(words) : words[i] \notin Text

\* The client's words as the upstream reads them, behind the prompt.
ClientWords(e) ==
  LET words == Words(outbound[e].body)
  IN  IF words # << >> /\ words[1] = Preamble THEN Tail(words) ELSE words

\* The types of the field that take the prompt.
Accepted == [Anthropic |-> {"absent", "string", "array"}, OpenAiChat |-> {"array"},
             OpenAiResponses |-> {"absent", "null", "string"}]

\* The request leaves as a JSON object whose field can take the prompt.
PromptDue(e) ==
  LET body == request[e].body
  IN  /\ InjectSystemPrompt /\ body.object
      /\ \A i \in 1 .. Len(body.bare) : body.bare[i] \notin Text
      /\ body.field.tag \in Accepted[Route[request[e].path]]

\* system_prompt.rs:57-60, 66-71: the prompt is there whenever the body can
\* take it and only then, it comes first, and the client's own text survives
\* behind it, word by word, in a field of the type it had; a field of an
\* unexpected type is left alone.
PromptPrepended ==
  \A e \in Exchange : Redacted(e) =>
    LET sent == Words(request[e].body)
        words == Words(outbound[e].body)
        got == ClientWords(e)
        had == request[e].body.field.tag
        has == outbound[e].body.field.tag
    IN  /\ PromptDue(e) <=> words # << >> /\ words[1] = Preamble
        /\ Len(got) = Len(sent)
        /\ \A i, j \in 1 .. Len(sent) :
             /\ sent[i] \notin Text => got[i] = sent[i]
             /\ {sent[i], sent[j]} \subseteq Text => (sent[i] = sent[j] <=> got[i] = got[j])
        /\ had = has \/ (had \in {"absent", "null"} /\ has = "string")
        /\ \A i \in 1 .. Len(words) : words[i] = Preamble => i = 1

\* The secrets whose place in the request a token took.
StandsFor(e, token) ==
  LET sent == Words(request[e].body)
      got == ClientWords(e)
  IN  {sent[i] : i \in {i \in 1 .. Len(sent) : sent[i] \in Text /\ got[i] = token}}

\* What the client should read for a token of the reply.
Reads(e, token, got) ==
  \/ StandsFor(e, token) = {got}
  \/ StandsFor(e, token) = {} /\ got = token

\* Whatever other exchanges do meanwhile, the client reads the upstream's
\* reply with its own secrets put back.  If it got the upstream's status and
\* no error, it reads the reply to its end, an event stream at least to the
\* first byte that is not UTF-8.  CutOnlyUnreadable is about the replies that
\* the relay cannot read, EveryStreamRestored about events of another form.
ReplyRestored ==
  \A e \in Exchange :
    /\ Redacted(e) /\ head[e] # NoHead
    /\ ~ head[e].compressed /\ head[e].events # "other"
    /\ head[e].events = "none" => IsText(wire[e])
    =>
    /\ \A i \in 1 .. Len(delivered[e]) : Reads(e, wire[e][i], delivered[e][i])
    /\ phase[e] = "done" /\ status[e] = "upstream" =>
         Len(delivered[e]) = Len(wire[e]) \/ (IsEventStream(head[e]) /\ GarbledNext(e))

HadSecret(e) ==
  LET sent == Words(request[e].body)
  IN  request[e].body.utf8 /\ \E i \in 1 .. Len(sent) : sent[i] \in Text

\* Why an event stream may end early, under the upstream's own status: the
\* request had a secret, so that the stream must be reversed, and
\* - it is compressed, as the client's Accept-Encoding goes upstream: nothing
\*   of it arrives; or
\* - it has a byte that is not UTF-8: nothing behind this byte arrives.
Unreadable(e) ==
  /\ IsEventStream(head[e]) /\ HadSecret(e)
  /\ \/ head[e].compressed /\ outbound[e].encodings /\ delivered[e] = << >>
     \/ GarbledNext(e)

\* A reply that broke off never looks like a complete one: the client gets an
\* error status, or the connection fails under it.  What looks complete is,
\* but for the two kinds of event streams named in Unreadable.  And a reply in
\* one piece that the relay could not read arrives as the upstream sent it.
CutOnlyUnreadable ==
  \A e \in Exchange :
    /\ phase[e] = "done" /\ status[e] = "upstream" =>
         ending[e] = "ended" /\ (Len(delivered[e]) = Len(wire[e]) \/ Unreadable(e))
    /\ head[e] # NoHead
         /\ (head[e].compressed \/ (head[e].events = "none" /\ ~ IsText(wire[e])))
       => IsPrefix(delivered[e], wire[e])

\* docs/build-plan.md:245: the streams of the Anthropic and of the OpenAI
\* endpoints are reversed before they reach the client.
EveryStreamRestored ==
  \A e \in Exchange :
    Redacted(e) /\ head[e] # NoHead /\ head[e].events # "none" =>
      \A i \in 1 .. Len(delivered[e]) : Reads(e, wire[e][i], delivered[e][i])

\* handler.rs:11-26: an event stream stays one, also when it is reversed, up
\* to the first byte that is not UTF-8.
StreamingPreserved ==
  \A e \in Exchange : \A n \in 1 .. MaxReply[e] :
    (/\ head[e] # NoHead /\ head[e].events # "none" /\ ~ head[e].compressed
     /\ Len(wire[e]) >= n /\ \A i \in 1 .. n : wire[e][i] # Garbled)
      ~> (Len(delivered[e]) >= n \/ phase[e] = "aborted")

\* A relay that was told to shut down does so when the upstreams are through:
\* no exchange keeps it, in whatever phase the signal found it.
ShutdownCompletes ==
  (server = "draining"
     /\ \A e \in Exchange : phase[e] \in Over \cup {"idle"} \/ ending[e] # "open")
    ~> (server = "stopped")

=============================================================================
