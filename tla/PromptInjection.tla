--------------------------- MODULE PromptInjection ---------------------------
(***************************************************************************)
(* The preserve-tokens prompt in the three body shapes                     *)
(* (crates/proxy-core/src/system_prompt.rs).  A request body is a JSON     *)
(* document of which only one field matters: `system` (Anthropic),         *)
(* `messages` (OpenAI chat) or `instructions` (OpenAI Responses).  All the *)
(* other text of the body is its `rest`.                                   *)
(*                                                                         *)
(* A text is a sequence of tokens.  The prompt and the separator behind it *)
(* are one token, Preamble.                                                *)
(***************************************************************************)
EXTENDS Sequences

CONSTANT Preamble

Shapes == {"Anthropic", "OpenAiChat", "OpenAiResponses", "none"}

\* Values of the field.  "other": a JSON value of any other type.
Absent == [tag |-> "absent", text |-> << >>, items |-> << >>]
Null == [tag |-> "null", text |-> << >>, items |-> << >>]
Str(text) == [tag |-> "string", text |-> text, items |-> << >>]
Arr(items) == [tag |-> "array", text |-> << >>, items |-> items]
Other(text) == [tag |-> "other", text |-> text, items |-> << >>]

\* An element of such an array: a text block or a message.  `plain`: its
\* content is a string.
Item(role, plain, text) == [role |-> role, plain |-> plain, text |-> text]

TextBlock == Item("text", TRUE, <<Preamble>>)
SystemMessage == Item("system", TRUE, <<Preamble>>)

\* In front of the client's text, never in its place.
Prepended(text) == <<Preamble>> \o text

\* inject_anthropic
InjectAnthropic(system) ==
  CASE system.tag = "absent" -> Str(<<Preamble>>)
    [] system.tag = "string" -> Str(Prepended(system.text))
    [] system.tag = "array"  -> Arr(<<TextBlock>> \o system.items)
    [] OTHER -> system

\* The client's first message is a system message the prompt is merged into.
Mergeable(items) == items # << >> /\ items[1].role = "system" /\ items[1].plain

\* Mutation: the prompt is only ever merged into a system message.
MergedOnly(messages) ==
  IF messages.tag = "array" /\ Mergeable(messages.items)
  THEN Arr([messages.items EXCEPT ![1].text = Prepended(@)]) ELSE messages

\* inject_openai
InjectOpenAi(messages) ==
  CASE messages.tag # "array" -> messages
    [] Mergeable(messages.items) ->
         Arr([messages.items EXCEPT ![1].text = Prepended(@)])
    [] OTHER -> Arr(<<SystemMessage>> \o messages.items)

\* inject_responses
InjectResponses(instructions) ==
  CASE instructions.tag \in {"absent", "null"} -> Str(<<Preamble>>)
    [] instructions.tag = "string" -> Str(Prepended(instructions.text))
    [] OTHER -> instructions

\* InjectionShape::inject
Inject(shape, field) ==
  CASE shape = "Anthropic" -> InjectAnthropic(field)
    [] shape = "OpenAiChat" -> InjectOpenAi(field)
    [] shape = "OpenAiResponses" -> InjectResponses(field)

\* inject_after_redact: bodies that are no JSON object stay as they are.
InjectAfterRedact(shape, body) ==
  IF shape = "none" \/ ~ body.object THEN body
  ELSE [body EXCEPT !.field = Inject(shape, @)]

=============================================================================
