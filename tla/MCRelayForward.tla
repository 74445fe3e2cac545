---------------------------- MODULE MCRelayForward ----------------------------
(* One client sends every kind of body on every route; a second one sends a *)
(* request whose secret gets the same placeholder.  Replies to the first    *)
(* one may have bytes that are not UTF-8, behind a placeholder or before.   *)
EXTENDS RelayForward

CONSTANTS aws1, aws2, gcp, x, garbled, e1, e2

MCKind == {"AwsAccessKey", "GcpServiceAccount"}
MCTypeSlug == [AwsAccessKey |-> "AWS_KEY", GcpServiceAccount |-> "GCP_SA"]
MCText == {aws1, aws2, gcp}
MCKindOf == [t \in MCText |-> IF t = gcp THEN "GcpServiceAccount" ELSE "AwsAccessKey"]

MCRoute == [path \in {"/v1/messages", "/v1/chat/completions", "/v1/responses"} |->
              CASE path = "/v1/messages" -> "Anthropic"
                [] path = "/v1/chat/completions" -> "OpenAiChat"
                [] path = "/v1/responses" -> "OpenAiResponses"]

Aws(n) == [slug |-> "AWS_KEY", n |-> n]
MCReplyToken == [e \in {e1, e2} |-> IF e = e1 THEN {Aws(1), garbled} ELSE {Aws(1)}]
MCMaxReply == [e \in {e1, e2} |-> IF e = e1 THEN 2 ELSE 1]

Json(field, bare, rest) ==
  [utf8 |-> TRUE, object |-> TRUE, field |-> field, bare |-> bare, rest |-> rest]

Post(path, body) == [path |-> path, encodings |-> TRUE, body |-> body]
PlainPost(path, body) == [Post(path, body) EXCEPT !.encodings = FALSE]

MCFields ==
  {Post("/v1/messages", Json(f, << >>, <<aws1>>)) :
     f \in {Absent, Null, Str(<<aws2, x, aws1>>), Arr(<<Item("text", TRUE, <<aws2>>)>>)}}
  \cup {PlainPost("/v1/chat/completions", Json(f, << >>, <<x>>)) :
     f \in {Absent,
            Arr(<<Item("system", TRUE, <<x, aws1>>), Item("user", TRUE, <<aws2>>)>>),
            Arr(<<Item("system", FALSE, <<aws1>>)>>),
            Arr(<<Item("user", TRUE, <<aws1>>), Item("system", TRUE, <<x>>)>>)}}
  \cup {PlainPost("/v1/responses", Json(f, << >>, <<aws1, x>>)) :
     f \in {Absent, Null, Str(<<aws1>>), Other(<<aws2>>)}}

MCBodies ==
  {Post("/v1/messages", Json(Str(<<x>>), << >>, <<x>>)),
   PlainPost("/v1/messages", Json(Str(<<x>>), <<gcp>>, <<aws1>>)),
   PlainPost("/v1/messages", [Json(Absent, << >>, <<aws1>>) EXCEPT !.object = FALSE]),
   PlainPost("/v1/messages", [Json(Absent, << >>, <<aws1>>) EXCEPT !.utf8 = FALSE,
                                                                  !.object = FALSE]),
   PlainPost("/v1/models", Json(Absent, << >>, <<aws1>>))}

MCRequestOf == [e \in {e1, e2} |->
  IF e = e1 THEN MCFields \cup MCBodies
  ELSE {PlainPost("/v1/messages", Json(Absent, << >>, <<aws2>>))}]

===============================================================================
