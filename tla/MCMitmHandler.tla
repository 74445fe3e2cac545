---------------------------- MODULE MCMitmHandler ----------------------------
(* Either one exchange with every kind of request, or two overlapping       *)
(* ones whose secrets get the same placeholders.  A reply may name          *)
(* placeholders of the request and others, and have bytes that are not      *)
(* UTF-8.                                                                   *)
EXTENDS MitmHandler, TLC

CONSTANTS aws1, aws2, jwt, x, garbled, e1, e2

MCKind == {"AwsAccessKey", "Jwt"}
MCTypeSlug == [AwsAccessKey |-> "AWS_KEY", Jwt |-> "JWT"]
MCText == {aws1, aws2, jwt}
MCKindOf == [t \in MCText |-> IF t = jwt THEN "Jwt" ELSE "AwsAccessKey"]
MCPath == {"/v1/messages", "/zen/v1/responses"}

Aws(n) == [slug |-> "AWS_KEY", n |-> n]
MCReplyToken == {x, garbled, Aws(1), Aws(2), [slug |-> "JWT", n |-> 1]}

Post(path, text, utf8, json) ==
  {[path |-> path, text |-> text, utf8 |-> utf8, json |-> json,
    declared |-> d, encodings |-> TRUE] : d \in BOOLEAN}

\* Two kinds, a repeated secret, a quoted placeholder, a body that is not
\* JSON, one that is not UTF-8, and a path that is not redacted.
MCRequest == UNION {
  Post("/v1/messages", <<aws2, aws1, aws2>>, TRUE, TRUE),
  Post("/zen/v1/responses", <<jwt, x, aws1>>, TRUE, TRUE),
  Post("/v1/messages", <<Aws(1), aws1>>, TRUE, FALSE),
  Post("/v1/messages", <<x>>, TRUE, TRUE),
  Post("/v1/messages", <<aws1>>, FALSE, FALSE),
  Post("/v1/oauth/token", <<aws1, x>>, TRUE, TRUE)}

OneExchange ==
  [request |-> (e1 :> MCRequest @@ e2 :> {}), token |-> MCReplyToken, MaxReply |-> 2]

\* Both are the first AWS key of their request: <<SECRET_AWS_KEY_001>>.
Concurrent(text) ==
  [path |-> "/v1/messages", text |-> text, utf8 |-> TRUE, json |-> TRUE,
   declared |-> TRUE, encodings |-> TRUE]

TwoExchanges ==
  [request |-> (e1 :> {Concurrent(<<aws1>>)} @@ e2 :> {Concurrent(<<aws2>>)}),
   token |-> {Aws(1)}, MaxReply |-> 1]

MCWorld == {OneExchange, TwoExchanges}
MCOneWorld == {OneExchange}

=============================================================================
