----------------------------- MODULE MitmHandler -----------------------------
(***************************************************************************)
(* The TLS-intercepting proxy (crates/proxy-mitm/src/handler.rs): several  *)
(* exchanges in flight on one connection, each an async task of its own    *)
(* that runs handle_request, waits for the upstream, and runs              *)
(* handle_response.  The proxy library (hudsucker) clones the handler once *)
(* per request; the clone's field current_map carries the placeholder      *)
(* table from one call to the other.                                       *)
(*                                                                         *)
(* A text is a sequence of tokens: a secret, a placeholder or any other    *)
(* character.  How secrets are found and substituted in detail is the      *)
(* subject of Redaction, how a stream is reversed that of SseReverser.     *)
(***************************************************************************)
EXTENDS PlaceholderMap, Sequences, FiniteSets, FiniteSetsExt

CONSTANTS
  Exchange,    \* request/response pairs on the connection
  PromptPath,  \* the paths of the allow-list (is_prompt_endpoint)
  KindOf,      \* the kind the detector reports for each secret of Text
  Plain,       \* tokens that are neither secrets nor placeholders
  Garbled,     \* of these, a piece of a reply with bytes that are not UTF-8
  Preamble,    \* the preserve-tokens prompt, as one token
  World,       \* bounds: what clients and upstreams may send, see below
  InjectSystemPrompt,  \* configuration (AichuHandler::inject_system_prompt)
  NoRequest, NoHead

Token == Text \cup Plain \cup {Preamble} \cup Placeholder

ASSUME KindOfAssumption == KindOf \in [Text -> Kind]

\* `declared`: there is a Content-Length; `encodings`: an Accept-Encoding;
\* `utf8`, `json`: what the body is.
AnyRequest == [path : STRING, text : Seq(Token), utf8 : BOOLEAN, json : BOOLEAN,
               declared : BOOLEAN, encodings : BOOLEAN]

ASSUME NoRequestAssumption == NoRequest \notin AnyRequest

\* The requests the client of each exchange may send, the tokens replies are
\* made of, and the most tokens of a reply.
ASSUME WorldAssumption ==
  \A w \in World :
    /\ w = [request |-> w.request, token |-> w.token, MaxReply |-> w.MaxReply]
    /\ w.request \in [Exchange -> SUBSET AnyRequest]
    /\ w.token \subseteq Plain \cup Placeholder /\ w.MaxReply \in Nat

ASSUME ConfigurationAssumption ==
  /\ Text \cap (Plain \cup {Preamble} \cup Placeholder) = {}
  /\ Garbled \in Plain \ Placeholder
  /\ InjectSystemPrompt \in BOOLEAN

VARIABLES
  world,          \* the member of World that holds throughout
  phase,          \* where each exchange is
  request,        \* what the client sent
  map,            \* the table a running handler call or a response stream owns
  current_map,    \* the field of each handler clone
  redacted,       \* the output of `redact` so far
  outbound,       \* the request the upstream receives
  head,           \* headers of the upstream's response
  wire,           \* its body, as far as it has arrived
  ending,         \* "open", "ended" or "broken": the upstream's body
  delivered,      \* the body the client receives
  lengthKept,     \* the client receives the upstream's Content-Length
  request_count   \* shared by all clones

\* The field current_map: an Option, None or Some(table).
NoMap == << >>
Some(m) == <<m>>

local == <<map, redacted>>
vars == <<world, phase, request, map, current_map, redacted, outbound, head, wire, ending,
          delivered, lengthKept, request_count>>

Phases == {"idle", "collecting", "redacting", "sent", "answered",
           "passing", "streaming", "buffering", "done", "failed", "aborted"}

Init ==
  /\ world \in World
  /\ phase = [e \in Exchange |-> "idle"]
  /\ request = [e \in Exchange |-> NoRequest]
  /\ map = [e \in Exchange |-> EmptyMap]
  /\ current_map = [e \in Exchange |-> NoMap]
  /\ redacted = [e \in Exchange |-> << >>]
  /\ outbound = [e \in Exchange |-> NoRequest]
  /\ head = [e \in Exchange |-> NoHead]
  /\ wire = [e \in Exchange |-> << >>]
  /\ ending = [e \in Exchange |-> "open"]
  /\ delivered = [e \in Exchange |-> << >>]
  /\ lengthKept = [e \in Exchange |-> FALSE]
  /\ request_count = 0

\* Mutation: one field for the connection, as in an earlier revision of the code.
ConnectionSlot(e) == CHOOSE c \in Exchange : TRUE

\* The handler clone that serves an exchange.
CloneOf(e) == e

Goto(e, p) == phase' = [phase EXCEPT ![e] = p]

\* Mutation: the paths of OpenCode are forgotten.
ShortAllowList(path) == path \in PromptPath /\ path # "/zen/v1/responses"

IsPromptEndpoint(path) == path \in PromptPath

-----------------------------------------------------------------------------
\* handle_request, up to the point where it waits for the body: other paths
\* are forwarded as they are.
HandleRequest(e) ==
  /\ phase[e] = "idle"
  /\ \E r \in world.request[e] :
       /\ request' = [request EXCEPT ![e] = r]
       /\ IF IsPromptEndpoint(r.path)
          THEN Goto(e, "collecting") /\ UNCHANGED outbound
          ELSE Goto(e, "sent") /\ outbound' = [outbound EXCEPT ![e] = r]
  /\ request_count' = request_count + 1
  /\ UNCHANGED <<local, current_map, head, wire, ending, delivered, lengthKept>>

\* The client breaks off: an empty body is forwarded, with all headers.
CollectFails(e) ==
  /\ phase[e] = "collecting"
  /\ outbound' = [outbound EXCEPT ![e] = [request[e] EXCEPT !.text = << >>]]
  /\ Goto(e, "sent")
  /\ UNCHANGED <<request, local, current_map, head, wire, ending, delivered, lengthKept,
                 request_count>>

\* Mutations: a header is forwarded that no longer fits.
LengthForwarded(r) == r
EncodingsForwarded(r) == [r EXCEPT !.declared = FALSE]

\* Content-Length and Accept-Encoding are removed from a rewritten request.
StripHeaders(r) == [r EXCEPT !.declared = FALSE, !.encodings = FALSE]

\* The body is complete but not UTF-8: it is forwarded unchanged.
CollectBinary(e) ==
  /\ phase[e] = "collecting" /\ ~ request[e].utf8
  /\ outbound' = [outbound EXCEPT ![e] = StripHeaders(request[e])]
  /\ Goto(e, "sent")
  /\ UNCHANGED <<request, local, current_map, head, wire, ending, delivered, lengthKept,
                 request_count>>

\* The body is complete: redaction starts with a fresh table.
CollectText(e) ==
  /\ phase[e] = "collecting" /\ request[e].utf8
  /\ map' = [map EXCEPT ![e] = EmptyMap]
  /\ redacted' = [redacted EXCEPT ![e] = << >>]
  /\ Goto(e, "redacting")
  /\ UNCHANGED <<request, current_map, outbound, head, wire, ending, delivered, lengthKept,
                 request_count>>

\* `redact`, one token at a time: a secret becomes its placeholder.
RedactToken(e) ==
  /\ phase[e] = "redacting" /\ Len(redacted[e]) < Len(request[e].text)
  /\ LET token == request[e].text[Len(redacted[e]) + 1]
     IN  IF token \in Text
         THEN /\ redacted' =
                   [redacted EXCEPT ![e] = Append(@, PlaceholderFor(map[e], KindOf[token], token))]
              /\ map' = [map EXCEPT ![e] = AfterPlaceholderFor(@, KindOf[token], token)]
         ELSE /\ redacted' = [redacted EXCEPT ![e] = Append(@, token)]
              /\ UNCHANGED map
  /\ UNCHANGED <<phase, request, current_map, outbound, head, wire, ending, delivered,
                 lengthKept, request_count>>

\* inject_after_redact: a JSON body gets the preserve-tokens prompt in front.
Injected(r, text) == IF InjectSystemPrompt /\ r.json THEN <<Preamble>> \o text ELSE text

\* The end of handle_request: a table that is not empty is kept for the
\* response, and the request goes out.
ForwardRedacted(e) ==
  /\ phase[e] = "redacting" /\ Len(redacted[e]) = Len(request[e].text)
  /\ current_map' = IF IsEmpty(map[e]) THEN current_map
                    ELSE [current_map EXCEPT ![CloneOf(e)] = Some(map[e])]
  /\ outbound' = [outbound EXCEPT
       ![e] = [StripHeaders(request[e]) EXCEPT !.text = Injected(request[e], redacted[e])]]
  /\ map' = [map EXCEPT ![e] = EmptyMap]
  /\ redacted' = [redacted EXCEPT ![e] = << >>]
  /\ Goto(e, "sent")
  /\ UNCHANGED <<request, head, wire, ending, delivered, lengthKept, request_count>>

-----------------------------------------------------------------------------
\* The upstream answers: first the headers ...  The body is an event stream
\* whose text is in text_delta events (/v1/messages), or in events of another
\* form (the OpenAI endpoints), or it is none; the handler tells streams from
\* other bodies only.  It may be compressed if the request allows for it.
EventKind == {"none", "text_delta", "other"}

UpstreamAnswers(e) ==
  /\ phase[e] = "sent"
  /\ \E events \in EventKind, declared \in BOOLEAN, compressed \in BOOLEAN :
       /\ events # "none" => ~ declared
       /\ compressed => outbound[e].encodings
       /\ head' = [head EXCEPT ![e] = [events |-> events, declared |-> declared,
                                       compressed |-> compressed]]
  /\ Goto(e, "answered")
  /\ UNCHANGED <<request, local, current_map, outbound, wire, ending, delivered, lengthKept,
                 request_count>>

\* The exchange is over: its task and its handler clone are dropped, and the
\* tables they own with them.
Drop(e) ==
  /\ map' = [map EXCEPT ![e] = EmptyMap]
  /\ current_map' = [current_map EXCEPT ![CloneOf(e)] = NoMap]

\* ... or not at all: the client gets an error from the proxy library.
UpstreamUnreachable(e) ==
  /\ phase[e] = "sent"
  /\ Drop(e)
  /\ Goto(e, "failed")
  /\ UNCHANGED <<request, redacted, outbound, head, wire, ending, delivered, lengthKept,
                 request_count>>

\* The body arrives, piece by piece, and ends or breaks off.
UpstreamSends(e) ==
  /\ head[e] # NoHead /\ ending[e] = "open"
  /\ \/ /\ Len(wire[e]) < world.MaxReply
        /\ \E token \in world.token : wire' = [wire EXCEPT ![e] = Append(@, token)]
        /\ UNCHANGED ending
     \/ /\ ending' = [ending EXCEPT ![e] = "ended"]
        /\ UNCHANGED wire
     \/ /\ ending' = [ending EXCEPT ![e] = "broken"]
        /\ UNCHANGED wire
  /\ UNCHANGED <<phase, request, local, current_map, outbound, head, delivered, lengthKept,
                 request_count>>

-----------------------------------------------------------------------------
\* Mutation: every reversed response is buffered.
AlwaysBuffered(e) == FALSE

IsEventStream(e) == head[e].events # "none"

\* handle_response takes the table out of the clone.  Without one the
\* response passes; with one it is reversed, as a stream or in one piece.
HandleResponse(e) ==
  /\ phase[e] = "answered"
  /\ IF current_map[CloneOf(e)] = NoMap
     THEN /\ Goto(e, "passing")
          /\ lengthKept' = [lengthKept EXCEPT ![e] = head[e].declared]
          /\ UNCHANGED <<map, current_map>>
     ELSE /\ Goto(e, IF IsEventStream(e) THEN "streaming" ELSE "buffering")
          /\ map' = [map EXCEPT ![e] = current_map[CloneOf(e)][1]]
          /\ current_map' = [current_map EXCEPT ![CloneOf(e)] = NoMap]
          /\ UNCHANGED lengthKept
  /\ UNCHANGED <<request, redacted, outbound, head, wire, ending, delivered, request_count>>

\* What the client gets for a token of the upstream's body.
Restored(e, token) ==
  IF token \in Minted(map[e]) THEN map[e].reverse[token] ELSE token

\* All of these bytes are UTF-8.
IsText(bytes) == \A i \in 1 .. Len(bytes) : bytes[i] # Garbled

\* The next piece of the reply is not UTF-8.
GarbledNext(e) ==
  Len(delivered[e]) < Len(wire[e]) /\ wire[e][Len(delivered[e]) + 1] = Garbled

\* Bytes that are not UTF-8 stay in the reverser's byte buffer, with all that
\* comes behind them, until they are dropped at the end.  Compressed bodies
\* begin with such bytes.
Undecodable(e) == phase[e] = "streaming" /\ (head[e].compressed \/ GarbledNext(e))

\* One piece of a passing or reversed stream.  SseReverser reverses the text
\* of text_delta events; other events pass through it.
ForwardPiece(e) ==
  /\ phase[e] \in {"passing", "streaming"} /\ ~ Undecodable(e)
  /\ Len(delivered[e]) < Len(wire[e])
  /\ LET token == wire[e][Len(delivered[e]) + 1]
     IN  delivered' = [delivered EXCEPT ![e] =
           Append(@, IF phase[e] = "streaming" /\ head[e].events = "text_delta"
                     THEN Restored(e, token) ELSE token)]
  /\ UNCHANGED <<phase, request, local, current_map, outbound, head, wire, ending, lengthKept,
                 request_count>>

\* The stream ends as the upstream's body did.
ForwardEnd(e) ==
  /\ phase[e] \in {"passing", "streaming"} /\ ending[e] # "open"
  /\ Undecodable(e) \/ Len(delivered[e]) = Len(wire[e])
  /\ Goto(e, IF ending[e] = "ended" THEN "done" ELSE "failed")
  /\ Drop(e)
  /\ UNCHANGED <<request, redacted, outbound, head, wire, ending, delivered,
                 lengthKept, request_count>>

\* The whole body is there: it is reversed in one piece if all of it is UTF-8.
ReplyBuffered(e) ==
  /\ phase[e] = "buffering" /\ ending[e] = "ended"
  /\ delivered' = [delivered EXCEPT ![e] =
       IF ~ head[e].compressed /\ IsText(wire[e])
       THEN [i \in 1 .. Len(wire[e]) |-> Restored(e, wire[e][i])] ELSE wire[e]]
  /\ Goto(e, "done")
  /\ Drop(e)
  /\ UNCHANGED <<request, redacted, outbound, head, wire, ending, lengthKept,
                 request_count>>

\* Mutation: the error of a broken body is not handled.
BufferHangs(e) == FALSE

\* The body broke off: the client gets an empty one, with all headers.
BufferFails(e) ==
  /\ phase[e] = "buffering" /\ ending[e] = "broken"
  /\ lengthKept' = [lengthKept EXCEPT ![e] = head[e].declared]
  /\ Goto(e, "done")
  /\ Drop(e)
  /\ UNCHANGED <<request, redacted, outbound, head, wire, ending, delivered,
                 request_count>>

\* The client resets its stream while the task waits: the task is dropped,
\* and the handler clone with it.
Abort(e) ==
  /\ phase[e] \in {"collecting", "sent", "answered", "passing", "streaming", "buffering"}
  /\ Drop(e)
  /\ Goto(e, "aborted")
  /\ UNCHANGED <<request, redacted, outbound, head, wire, ending, delivered, lengthKept,
                 request_count>>

\* What the proxy does on its own, once the awaited data is there.
Proxy(e) ==
  \/ RedactToken(e)
  \/ ForwardRedacted(e)
  \/ HandleResponse(e)
  \/ ForwardPiece(e)
  \/ ForwardEnd(e)
  \/ ReplyBuffered(e)
  \/ BufferFails(e)

\* What client and upstream decide.
Environment(e) ==
  \/ HandleRequest(e)
  \/ CollectFails(e)
  \/ CollectBinary(e)
  \/ CollectText(e)
  \/ UpstreamAnswers(e)
  \/ UpstreamUnreachable(e)
  \/ UpstreamSends(e)
  \/ Abort(e)

Next == \E e \in Exchange : (Proxy(e) \/ Environment(e)) /\ UNCHANGED world

\* The runtime keeps polling a task that can go on; neither clients nor the
\* upstream owe the proxy anything.
Spec == Init /\ [][Next]_vars /\ \A e \in Exchange : WF_vars(Proxy(e) /\ UNCHANGED world)

-----------------------------------------------------------------------------
Over == {"done", "failed", "aborted"}

\* The state has the shape the code gives it.
TypeOK ==
  /\ world \in World
  /\ phase \in [Exchange -> Phases]
  /\ \A e \in Exchange :
       /\ request[e] \in world.request[e] \cup {NoRequest}
       /\ phase[e] = "idle" <=> request[e] = NoRequest
       /\ IsMap(map[e])
       /\ current_map[e] # NoMap =>
            LET kept == current_map[e][1]
            IN  current_map[e] = Some(kept) /\ IsMap(kept) /\ ~ IsEmpty(kept)
       /\ redacted[e] \in Seq(Token) /\ wire[e] \in Seq(Token) /\ delivered[e] \in Seq(Token)
       /\ ending[e] \in {"open", "ended", "broken"} /\ lengthKept[e] \in BOOLEAN
  /\ request_count = Cardinality({e \in Exchange : phase[e] # "idle"})

Redactable(e) == request[e] # NoRequest /\ request[e].path \in PromptPath /\ request[e].utf8

\* The purpose of the proxy: no secret of a text prompt reaches the upstream,
\* however often it occurs and whatever the other exchanges do meanwhile.
NoSecretLeaves ==
  \A e \in Exchange :
    Redactable(e) /\ outbound[e] # NoRequest =>
      \A i \in 1 .. Len(outbound[e].text) : outbound[e].text[i] \notin Text

\* handler.rs:21-34: overlapping streams of a connection cannot leak each
\* other's secrets: what a client reads is its own.
OnlyOwnSecrets ==
  \A e \in Exchange : \A i \in 1 .. Len(delivered[e]) :
    delivered[e][i] \in Text =>
      \E j \in 1 .. Len(request[e].text) : request[e].text[j] = delivered[e][i]

\* The secrets whose place in the request a token took.
StandsFor(e, token) ==
  LET shift == Len(outbound[e].text) - Len(request[e].text)
  IN  {request[e].text[i] : i \in
         {i \in 1 .. Len(request[e].text) :
            /\ request[e].text[i] \in Text
            /\ i + shift > 0 /\ outbound[e].text[i + shift] = token}}

\* The proxy is transparent: the client reads the upstream's reply with
\* exactly those tokens put back that took the place of a secret in this
\* request, and reads it to its end.  (handler.rs:342-358: also because the
\* upstream is kept from compressing.)  Three exceptions: streams of other
\* events pass as they are (RelayForward.EveryStreamRestored), and so does a
\* body in one piece that is not all UTF-8; and of an event stream nothing
\* arrives from the first byte on that is not UTF-8.
ReplyRestored ==
  \A e \in Exchange :
    Redactable(e) /\ head[e] # NoHead =>
      /\ \A i \in 1 .. Len(delivered[e]) :
           \/ StandsFor(e, wire[e][i]) = {delivered[e][i]}
           \/ /\ \/ StandsFor(e, wire[e][i]) = {} \/ head[e].events = "other"
                 \/ head[e].events = "none" /\ ~ IsText(wire[e])
              /\ delivered[e][i] = wire[e][i]
      /\ phase[e] = "done" /\ ending[e] = "ended" =>
           Len(delivered[e]) = Len(wire[e]) \/ (IsEventStream(e) /\ GarbledNext(e))

\* handler.rs:340-345, 442-445: a body that was rewritten is not sent with the
\* length of the old one.  An empty body is the subject of DeclaredLengthHolds.
RewrittenIsUndeclared ==
  \A e \in Exchange :
    /\ outbound[e] # NoRequest /\ outbound[e].declared /\ outbound[e].text # << >> =>
         outbound[e].text = request[e].text
    /\ phase[e] = "done" /\ lengthKept[e] /\ delivered[e] # << >> => delivered[e] = wire[e]

\* The same for every message: a declared length is that of the body.
DeclaredLengthHolds ==
  \A e \in Exchange :
    outbound[e] # NoRequest /\ outbound[e].declared => outbound[e].text = request[e].text

LongestReply == Max({w.MaxReply : w \in World})

\* handler.rs:15, 390-398: reversal keeps an event stream a stream.  What the
\* upstream sent reaches the client without waiting for more, up to the first
\* byte that is not UTF-8.
StreamingPreserved ==
  \A e \in Exchange : \A n \in 1 .. LongestReply :
    (/\ head[e] # NoHead /\ head[e].events # "none"
     /\ Len(wire[e]) >= n /\ \A i \in 1 .. n : wire[e][i] # Garbled)
      ~> (Len(delivered[e]) >= n \/ phase[e] = "aborted")

\* When the upstream's body is over, so is, after a while, the exchange.
ExchangeEnds ==
  \A e \in Exchange : (ending[e] # "open") ~> (phase[e] \in Over)

=============================================================================
