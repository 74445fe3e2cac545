# Verification of aichu

aichu is a local proxy between a coding agent and a model provider. It replaces
secrets in outgoing prompts by placeholders such as `«SECRET_AWS_KEY_001»`, and puts
the secrets back into the responses, also when a response is an event stream whose
pieces tear a placeholder apart. This directory holds TLA+ models of its core,
TLC configurations that check them on small instances, and proofs checked by TLAPS.

Paths below are relative to the repository.

## The system

| Component | Source | State | Operations | Model |
|---|---|---|---|---|
| Placeholder table | `crates/proxy-core/src/placeholder.rs` | `forward`, `reverse`, `counters` | `placeholder_for`, `original_for`, `is_empty` | `PlaceholderMap` |
| Redaction, reversal | `crates/proxy-core/src/lib.rs`, `reverse.rs` | cursor and output of the loop | `redact`, `substitute`, `reverse` | `Redaction`, `PlaceholderText` |
| Detector | `crates/proxy-core/src/detector.rs` | brace walker, candidates, result | `scan` | `Detector` |
| Streaming reverser | `crates/proxy-core/src/sse.rs` | `byte_buf`, `parse_buf`, `pending_text` | `push_bytes`, `push`, `process_event`, `flush_bytes`, `flush` | `SseFraming`, `SseReverser` |
| TLS-intercepting proxy | `crates/proxy-mitm/src/handler.rs` | `current_map` of each handler clone, `request_count` | `handle_request`, `handle_response`, response streams | `MitmHandler` |
| Base-URL relay | `crates/proxy-server/src/handler.rs`, `lib.rs` | one table per call | `forward`, reply streams, shutdown | `RelayForward` |
| Preserve-tokens prompt | `crates/proxy-core/src/system_prompt.rs` | none | `inject` for three body shapes | `PromptInjection`; one token in `MitmHandler` |
| Certificate authority store | `crates/proxy-mitm/src/ca.rs` | two files | `load_or_create_ca`, `write_key` | `CaStore` |
| Start and shutdown | `crates/proxy-mitm/src/lib.rs`, `run` in `crates/cli/src/main.rs` | the port, the pair in memory | `run`, `run_proxy` | `CaStore` |
| Trust, untrust, doctor | `crates/cli/src/main.rs` | the host's anchors and trusted certificates | the subcommands | `HostTrust`, `TrustSetup` |
| Scan command | `crates/cli/src/scan.rs` | none | one report | `ScanCommand` |
| Detection rules | `crates/proxy-core/src/rules.rs` | none | tables by kind | `Rules` |
| Evaluation | `experiments/e03-placeholder-eval` | a results file | `load_fixtures`, `evaluate`, `run_loop` | `EvalFixtures`, `PlaceholderEval` |

How they interact: a proxy task owns one table per request. `handle_request` awaits
the body, calls `redact` (which calls `scan`, then `substitute`, then, per finding,
`placeholder_for`), puts the prompt in front and leaves the table in its handler
clone. `handle_response` takes the table out again and wraps the body in a stream
that feeds chunks to `SseReverser`, or buffers it and calls `reverse`. Nothing else is
shared between requests except the request counter. The relay does the same in one
call, `forward`, with the table in a local variable. Before all that, `aichu run` loads
the authority from two files, or creates it; `aichu trust` and `untrust` change what the
host trusts by external commands, and `aichu doctor` compares. These are processes of
their own that share nothing but files. `aichu scan` calls `scan` on a text and reports.
The evaluation is a program of its own.

What is hard: the two callbacks with an await between them, on many streams of one
connection; chunk boundaries inside characters, terminators and placeholders; text that
is withheld and must come out before its block ends; overlapping matches of
different rules; bodies that break off on either side; headers that no longer fit;
files that are written in two steps by processes that may crash or overlap.
`PROJECT.json` lists these hazards, each with its line and its properties.

What makes each component correct:

- *table*: the two directions stay inverse, a placeholder never changes its meaning;
- *redaction*: nothing of a finding is copied, everything else is, and reversal undoes it;
- *detector*: findings are disjoint and ascending, of nested candidates the longest wins,
  envelopes are the balanced marked objects;
- *streaming reverser*: the result does not depend on how the stream is cut, nothing is
  lost, nothing waits without need;
- *proxy*: no secret leaves, replies are restored, from the exchange's own table only,
  streams stay streams, every exchange ends;
- *relay*: the same; besides, the client's prompt survives behind ours in every body shape,
  a reply that broke off is recognisable, and a shutdown comes to an end;
- *authority*: certificate and key belong together, the proxy serves what is on disk, the host
  trusts what the proxy serves, and `doctor` agrees;
- *scan command*: exit code 0 means that the proxy would find nothing, and the report leads to
  each secret;
- *evaluation*: what was paid for is on disk, and every cell measures something.

## Modules

| Module | Extends / uses | What it is |
|---|---|---|
| `PlaceholderMap` | | operators on the table, a record; no variables |
| `Redaction` | `PlaceholderMap` | calls of `redact` on one table; one step per iteration of the loop |
| `PlaceholderText` | | the placeholder expression, `reverse` and the holdback rule on characters |
| `StreamReversal` | `PlaceholderText` | abstract: each block arrives as the reversal of the whole block |
| `SseReverser` | `PlaceholderText`, refines `StreamReversal` | one upstream message through the reverser, event by event |
| `SseFraming` | | bytes to characters to events |
| `MitmHandler` | `PlaceholderMap` | concurrent exchanges of the intercepting proxy |
| `PromptInjection` | | the preserve-tokens prompt in the three body shapes; no variables |
| `RelayForward` | `PlaceholderMap`, `PromptInjection` | concurrent exchanges of the base-URL relay, and its shutdown |
| `Detector` | | one call of `scan` |
| `Rules` | | the tables by kind of secret; no variables |
| `ScanCommand` | `Detector`, `PlaceholderMap` | one `aichu scan` |
| `HostTrust` | | families of distributions, their directories and tools; no variables |
| `CaStore` | `HostTrust` | the two files of the authority, and processes that run the proxy |
| `TrustSetup` | `CaStore` | the host's trusted certificates, `trust`, `untrust`, `doctor` |
| `EvalFixtures` | | fixture files and placeholder formats; no variables |
| `PlaceholderEval` | `EvalFixtures` | runs of the evaluation, one after the other |
| `LibraryProofs` | `PlaceholderMap` | lemmas on the table, on induction, on pieces of sequences and their flattening |
| `RedactionProofs` | `Redaction`, `LibraryProofs` | theorems |
| `MitmHandlerProofs` | `MitmHandler`, `LibraryProofs` | theorems |
| `RelayForwardProofs` | `RelayForward`, `LibraryProofs` | theorems |
| `SseProofs` | `SseFraming`, `SseReverser`, an instance of `LibraryProofs` | theorems |
| `DetectorProofs` | `ScanCommand` (and so `Detector`), an instance of `LibraryProofs` | theorems |
| `TrustSetupProofs` | `TrustSetup` | theorems and lemmas |
| `PlaceholderEvalProofs` | `PlaceholderEval`, an instance of `LibraryProofs` | theorems |
| `MC...` | the module each is named after | values of the constants for TLC |

### Correspondence with the code

*`PlaceholderMap`.* `Map` records have the struct's three fields. `PlaceholderFor` is
what `placeholder_for` returns and `AfterPlaceholderFor` the table it leaves. A
placeholder is the pair (slug, number): the number is printed with at least three
digits and never cut, so the string determines the pair. `SlugsDistinct` is an assumption
on `SecretKind::type_slug`; without it two kinds would share numbers.

*`Redaction`.* `RedactNothing` and `RedactStart` are the two outcomes of `scan` in
`redact`; `SubstituteFinding` is one iteration and `SubstituteEnd` the code after the
loop. `scan` is any list of disjoint ascending findings here; that it returns
such a list is a theorem about `Detector` (`NeverOverlaps`).

*`PlaceholderText`.* `PlaceholderAt` is the regular expression of `reverse.rs`,
`PartialAt` `is_partial_placeholder_prefix`, `SafeEmitPosition` `safe_emit_position`.
`Reversed` keeps one entry per input character (`NoPiece` where a placeholder's other
characters were), so that results can be compared piece by piece.

*`SseReverser`.* One action per event class of `process_event`: `TextDelta`
(`try_process_text_delta`, whole), `JsonDelta` and `BlockStart` (pass-through), `BlockStop`
and `MessageEnd` (drain first), `ErrorEvent`, and the two ends of a stream, `Eof`
(`flush`) and `TransportError` (no flush). `received`, `emitted` and `finished`
record what upstream and client have seen.

*`SseFraming`.* `PushBytes` is `push_bytes` up to its call of `push`; `SplitEvent` and
`SplitNone` are the iterations and the end of the loop in `push`; `Flush` is
`flush_bytes`. It puts events on record instead of processing them. `Find` is
`str::find`, `IsUtf8` the validity check of the standard library.

*`MitmHandler`.* `phase` is where an exchange's task stands: `collecting` (awaiting the
body), `redacting`, `sent` (awaiting the response), `answered`, then `passing`,
`streaming` or `buffering`, then `done`, `failed` or `aborted`. Each await is a step
boundary. `current_map[CloneOf(e)]` is the field of the handler clone, an option: `NoMap` or
`Some` table. The client
(`CollectText`, `CollectFails`, `Abort`, ...) and the upstream (`UpstreamAnswers`,
`UpstreamSends`, ...) do what they like, with two restrictions: an upstream
compresses only if the request it received offers encodings, and an event stream
has no declared length. Any piece of a reply may have bytes that are not UTF-8
(`Garbled`), which the reverser holds back with all that follows them (`GarbledNext`,
`Undecodable`). The events of a stream are `text_delta` events or others
(those of the OpenAI endpoints), which pass the reverser. The constant `World`
says what clients and upstream may send together: all that is possible on one exchange,
or little on two.

*`PromptInjection`.* One operator per `inject_*` function, on a record for the JSON value of
the one field each of them touches. Prompt and separator are one token. Serialising
a body anew (order of keys, repeated keys, white space) is left out.

*`RelayForward`.* A body is its field, all other text (`rest`), and service accounts that
stand as JSON objects of their own (`bare`), whose placeholders break the JSON. `redact`
runs without an await and is one step here, `ForwardRequest`, together with the
injection behind it. `phase` is `reading` (awaiting the body), `sent` (awaiting the
upstream), then as in `MitmHandler`. `RelayReply` is the code between `send` and
the reply's headers, `Return` an error reply or the end of a call. The upstream is
restricted only in that the form of its events is that of the route (`EventsOf`): `text_delta`
events on `/v1/messages`, others on the OpenAI endpoints. Replies may be compressed, as the
relay forwards `Accept-Encoding`, and have bytes that are not UTF-8. `Shutdown` and `Stop` are the
future given to `run_relay` and its return; that the HTTP library accepts nothing
in between and waits for the calls in flight is assumed of it.

*`Detector`.* `CollectMatches` and `WalkStart ... WalkEnd` collect the candidates kind
by kind, the latter being `gcp_service_account_envelopes` with one step per token;
`StartResolving`, `Resolve`, `ResolveEnd` are the sort and the loop behind it. What each
regular expression matches is part of the input; all that is assumed is that the
matches of one expression are disjoint. `keyword` says whether the text contains a keyword.

*`Rules`.* `Alternatives` and `MixedCase` keep of each regular expression a text that every
match of one of its alternatives contains; `PrefilterFinds` is what the keyword automaton
makes of these texts. `MCDetector` computes `keyword` from it.

*`ScanCommand`.* `ReadScanInput`, `Scanning` (the steps of `Detector`), `ReportFinding`, one
per finding, and `ExitWithVerdict` are `handle_scan` in its order. `LineCol` is `line_col`.

*`HostTrust`.* A host is its system, the presence of `/etc/debian_version`, the lines of
`/etc/os-release`, and whether there is a home directory. A value is its words and its
quotes, since only double ones are removed. The three families have three
directories in three places of the code (`InstallPath`, `ReadBy(RefreshCommand(...))`,
`DoctorPath`), which have to agree.

*`CaStore`.* The content of a file is the number of the authority it belongs to, or
`Partial` when it was created or truncated and not written, or `Absent`. A process that runs
the proxy goes through `StartRun` (the test of the certificate), `CheckKey`, then
`ReadCert`, `ReadKey` or `Generate`, `OpenCert`, `WriteCert`, `CreateKey`, `WriteKey`, then
`Bind`. `Stop` is Ctrl-C, a crash or an I/O error at any of them. On Unix `CreateKey` fails
when there is a key file, whatever is in it.

*`TrustSetup`.* Each external command is a step of the shell that runs it and may fail
(`Fail`); what is before the first of them has no effect and belongs to the action that
begins. The external tools are modelled by what they are used for: the one that rebuilds the
bundle takes the certificates from one directory, `security` and `certutil` add a certificate
or delete one of a name, and all authorities have the same name. `doctor` reads only and is an
operator, `DoctorExit`.

*`PlaceholderEval`.* `Start` is `main` before the loop; `Evaluate` with its two failures,
`OpenFile` and `WriteFile` are an iteration. `Substitutable` is `evaluate`'s own check,
which bails out before the call. `fs::write` is two steps, since it truncates
first. A text is a sequence of words, and a secret one word or none. `ByName` is the sort of the
fixtures, said as what it returns. `--formats` may name a format twice, and is taken as it is.

Some variables are history only. `irregular`: two starts overlapped while one created
files, or the user removed files under a running process, or the certificate without its key.
`lagging`: a bundle was not rebuilt after its anchors had changed, as the command failed in
between. `contended`: commands overlap. `promise`: what the last command that ended said.
`paid`: answers the current evaluation was sent.

## Runs

All runs finish within two minutes; `mitm` and `trust` take longest.

| Run | States | What it shows |
|---|---|---|
| `redaction` | 393,483 | `MapConsistent`, `BindingsStable`, `LoopMatchesReference`, `RoundTrip` for two calls on one table |
| `sse` | 32,199 | `StreamIsBatch`, `HoldsOnlyPossiblePlaceholder`; `SseReverser` implements `StreamReversal` |
| `sse_framing` | 77,750 | `NothingLost`, `EventsAreMinimal`, `NoEventWithheld` for every way to cut a response |
| `mitm` | 209,342 | `NoSecretLeaves`, `OnlyOwnSecrets`, `ReplyRestored`, `RewrittenIsUndeclared`, and, live, `StreamingPreserved`, `ExchangeEnds` |
| `relay` | 345,876 | `NoSecretLeaves`, `PromptPrepended`, `ReplyRestored`, `CutOnlyUnreadable`, and, live, `StreamingPreserved`, `ShutdownCompletes` |
| `scan` | 93,382 | `NoOverlaps`, `NestedLongestWins`, `EnvelopesMatchReference`, `CleanMeansNoMatch`, `ReportLocates` |
| `trust` | 1,173,107 | `StoredPairServed`, `BundleFollowsAnchor`, `DoctorAgrees`, `InstalledIsServed` |
| `eval` | 9,537 | `EveryCellMeasures`, `ResultsKept` |
| `framing_tail`, `mitm_length`, `detector_longest`, `relay_streams` | | a statement of the repository's comments or documents that does not hold, see below |

Every property of a passing run comes with a mutation of the model (definitions
introduced by "Mutation" in the modules) under which the run finds it violated: a
counter that is read before it is incremented, a gap one character short, a holdback
rule that releases everything, one table for the connection, a header that is not
stripped, and so on.

### Bounds

- `redaction`: two kinds, two characters, bodies of up to three tokens, two calls
  (`MaxCalls`). Three tokens hold two adjacent findings, a gap, a repeated secret, a
  finding at either end, and a quoted placeholder; two calls are what it takes to change a
  table after a body was redacted.
- `sse`: the prefix `SECRET_` has two characters and the class `[A-Z0-9_]` three, so that
  the shortest placeholder has seven characters. Blocks are up to three fragments out of a
  known placeholder, an unknown one, and beginnings, middles and ends. Deltas may cut
  everywhere and be empty. Three-block messages put a tool call between two text
  blocks, of which the first ends as the second goes on.
- `sse_framing`: responses of up to four fragments (characters of one and two bytes,
  single line ends, both terminators, an invalid byte), cut everywhere.
- `mitm`: two worlds. In one, a single exchange with six bodies (two kinds, a repeated secret,
  a quoted placeholder, no JSON, no UTF-8, a path that is not redacted), each with and without
  declared length, and replies of up to two tokens, one of which may be bytes that are not
  UTF-8, before or behind a placeholder. In the other, two exchanges, enough
  for one to use the other's table, with different secrets that get the same placeholder;
  replies of one token.
- `relay`: one exchange with 17 requests (each route with every type of its field, secrets
  in the field, beside it, repeated, standing as an object, no JSON, no UTF-8, no route) and
  a second one with another secret of the same placeholder. Replies to the first have up to
  two tokens, that placeholder and bytes that are not UTF-8 in either order; to the second
  one. Each comes compressed or not, in one piece or as an event stream of its route.
- `scan`: the twelve kinds of the code; depth limit two instead of 32, so that it is reached;
  all texts of up to four tokens, six nested ones, every pair of match lists of two kinds
  with up to two spans on four positions, envelopes with a key inside and across their edge,
  and one match of every spelling of every rule.
- `trust`: two processes, enough for one to start while another creates files or serves; two
  shells, enough for `untrust` to come between the two commands of `trust`; two
  authorities (`MaxCa`), enough for one to replace the other; seven hosts, one for every branch of
  the commands, among them a distribution whose `ID_LIKE` is hidden by single quotes and one
  without a home directory. Processes and shells are symmetric.
- `eval`: two runs (`MaxRun`), the second of which finds the first one's file; six
  directories of up to two fixtures, with headers repeated, missing, empty and in the body; two
  lists of formats, one of which names a format twice, and an unknown one.

`redaction` has no deadlock check because the number of calls is bounded; the others
because a call, a stream or an exchange ends.

### Fairness

Only `MitmHandler` and `RelayForward` have liveness properties, and only the proxy's own
steps (`Proxy(e)`, `Relay(e)`, and `Stop`) are fair, each exchange for itself: an async runtime keeps polling a task
that can go on. Nothing is assumed of clients and upstream; the properties
therefore speak of what happens after the upstream has sent something, or ended.

### Statements that do not hold

- *`framing_tail`*: `sse.rs:136-142` says that what `flush_bytes` drops is a truncated last
  character. A single invalid byte makes `valid_up_to` 0 from then on, and all that
  follows is kept back and dropped.
- *`mitm_length`*: `handler.rs:341-344` strips `Content-Length` because upstream rejects a
  request whose length is wrong. The early return at `handler.rs:283` does not.
- *`relay_streams`*: `docs/build-plan.md:245` wants the streams of both providers reversed,
  `README.md:7` the values restored. `SseReverser` knows only Anthropic's text deltas
  (`sse.rs:200-219`): a streamed reply of an OpenAI endpoint keeps its placeholders, in the
  relay and in the intercepting proxy. The trace is a request to `/v1/chat/completions`.
- *`detector_longest`*: `detector.rs:128` promises to keep the longest of overlapping
  candidates. The loop keeps the one that ends later (`detector.rs:141`). For nested
  candidates, of which `detector.rs:62-68` speaks, the two agree, and that is proved.

The other properties have exceptions written into them where the code does less than a
comment says; none of these is a run of its own:

- `detector.rs:5-9` calls the keyword filter an optimisation that changes no result. For
  identifiers in mixed case it does (`rules.rs:129-133` knows it): `CleanMeansNoMatch` excepts a
  text with such an identifier and no keyword.
- `lib.rs:121-126` of the evaluation promises neither an empty nor a stale file after a kill.
  `ResultsKept` excepts a kill inside `fs::write`, which leaves an empty or cut file and loses the
  earlier results, and a kill before the first cell is written, which leaves the file of the
  run before.
- `main.rs:871-874` takes the anchor file as a sufficient sign that the certificate is
  trusted. When the refresh failed behind the copy it is not; `DoctorAgrees` speaks of
  commands that succeeded.
- `main.rs:1432-1438` and `main.rs:898-901` want `doctor` to fail where `trust` bails out. Both
  speak of a Linux whose family is unknown, and there it does. On a system that is neither
  Linux, macOS nor Windows `trust` always bails out, too (`main.rs:467-473`), but the checks of
  `doctor` (`main.rs:1027-1052`) have none of the trust store: once the proxy has written its
  pair, `doctor` exits with 0. `DoctorAgrees` excepts these systems.
- `trust` asks for the certificate only. With the key missing it installs an authority the next
  start replaces; `DoctorAgrees` and `InstalledIsServed` speak of complete stores. On macOS and
  Windows the replaced authority stays trusted under the same name, and `doctor` is content
  with any.
- A key without a certificate makes each start on Unix write a new certificate and then fail at the
  key; the start after that loads the pair, which does not match. A crash between
  creating the key and writing it leaves an empty key, with which every later start fails until
  the file is removed. Two first starts at a time can mix their files. `StoredPairServed`
  counts the first and the last as `irregular`; the second is no violation, as nothing is served.
- An event stream to be reversed can end early under upstream's own status, in two cases
  that `CutOnlyUnreadable` names (`Unreadable`): it is compressed, as `handler.rs:177` forwards
  `Accept-Encoding`, and nothing of it arrives; or a byte of it is not UTF-8, and nothing behind
  this byte arrives, in either proxy (`sse.rs:91-98`, `framing_tail`).
- A reply in one piece that is not UTF-8 keeps its placeholders (`handler.rs:244-247` of the relay,
  `handler.rs:428-440` of the other proxy). `ReplyRestored` excepts it.
- `sse.rs:257-259` wants clients that key off the block index to see the right one. The
  synthetic delta for withheld text has none (`sse.rs:343`); `SseReverser` has the text in its
  block by position only.

## Proofs

All theorems hold for every value of the constants that meets the named assumptions
of the modules.

- *`LibraryProofs`*: lemmas about one call of `placeholder_for`, and about the operators on
  sequences. A consistent table has four properties that need each other: a fresh number is
  unused (`Numbered`), so a fresh placeholder is new (`NoOrphans`, `Injective`), so inserting it
  overwrites nothing (`Invertible`). Assumption: `SlugsDistinct`. Of the lemmas on sequences of any
  length `FlattenAppend` is the one most others rest on. Inductions are stated with sets: a set
  of numbers that holds 0 and with each number the next has no least number outside of it.
- *`RedactionProofs`*: `TypeCorrect`, `MapAlwaysConsistent`, `BindingsNeverChange`, `LoopCorrect`,
  `RoundTripHolds`, `ReverseUndoesRedact`. `LoopMatchesReference` is not inductive: it says nothing
  in the middle of a body, nor why a later call cannot disturb an earlier result. `LoopOnTrack`
  adds that up to the cursor the output is that of the reference, that the cursor
  is the end of the last finding handled, and that the secrets handled are bound; `DoneRight`
  says that each finished call was right for the table as it is now, which stays true because
  no binding ever changes. `ReverseUndoesRedact` is the heart of `RoundTrip` and speaks of the two
  functions alone: the pieces of the redacted text are, one by one, tokens of the body
  or placeholders of the secrets between them, and reversing them joins the body again.
  Assumptions: `SlugsDistinct`, `BodyAssumption`, `TextAssumption` (a secret is a piece of text).
- *`MitmHandlerProofs`*: `TypeCorrect`, `SecretsStay`, `SecretsAreOwn`, `RepliesRestored`,
  `RewrittenUndeclared`, for any number of exchanges. A step of one exchange changes no entry of
  another (`OthersKeep`), so the invariant `Good(e)` speaks of one exchange.
  What links request and reply is `Linked`: the table knows exactly the secrets of the request,
  and the request that left has their placeholders in their places. `TableHeld` follows the table
  from `redact` through the clone's field to the response; where there is none, no token
  of the request took a secret's place (`Clean`). What is buffered is reversed or, where it
  cannot be read, as it was sent (`AsSent`). `OnlyOwnSecrets` and `ReplyRestored`
  then follow token by token (`ReplyOut`). Assumptions: `SlugsDistinct`,
  `KindOfAssumption`, `NoRequestAssumption`, `WorldAssumption`, `ConfigurationAssumption`.
- *`RelayForwardProofs`*: `TypeCorrect`, `SecretsStay`, `PromptFirst`, `RepliesRestored`,
  `CutOnlyWhereUnreadable`, for any number of calls, any routes and bodies. What leaves is a function of
  what came (`SentFor`), so half of the proof is about that function: the table it makes holds
  exactly the secrets of the body (`Covers`), the words of the result are those of the body
  with placeholders in the places of secrets (`Turned`), and the prompt, in each of the three
  shapes, changes nothing but that it stands in front (`Led`; both together `Rendered`), and
  stands there exactly if the field can take it (`Takes`, `HasPrompt`). The
  other half is an invariant that speaks of one call, `Good(e)`, as a step of one changes no entry
  of another (`OthersKeep`). Since the table is gone when a call is over and the client's text
  is not, the text is compared with the table its request leads to (`TableOf`), which does not
  change. Assumptions: `SlugsDistinct`, `KindOfAssumption`, `RelayAssumption`. The
  latter says among other things that a value has elements only if it is an array (`IsField`):
  without it the cases of `inject_openai` would not exclude each other.
- *`DetectorProofs`*: `TypeCorrect`, `NeverOverlaps`, `LongestNestedWins`, `EnvelopesAlwaysMatch`,
  `ScanRefinesDetector`, `ReportAlwaysLocates`, `CleanIsClean`. Disjointness of the
  result is not inductive alone: it needs that the candidates still to come start no
  earlier than the last entry of the result (`InOrder`); `LongestNestedWins` needs besides
  that every candidate taken lies in an entry (`TakenCovered`) and that entries are beaten
  by no candidate (`EntriesLongest`). `EnvelopesAlwaysMatch` relates the walker, which keeps a
  stack and a state of its string scanner, to `Enclosing`, which looks for partners of braces in the
  whole text: the scanner is in a string where the text is (`Quoted`), the stack holds the
  opening braces that have no partner yet, each with the truth about the markers directly inside
  of it (`Nest`), and a brace is no longer on the stack for good once its partner has come.
  For the command, `ReportInv` keeps the table of the report consistent and every line true of
  its finding (`LineOK`); that `Offset` undoes `LineCol` is a fact about positions in a text.
  `CleanIsClean` has a hypothesis, `KeywordsCover`: a text without any keyword has neither a marker
  nor a match, but for identifiers in an unusual case. It is a statement about the tables
  of `rules.rs`, is not assumed anywhere else, and is true of every text of the `scan` run, as
  `MCDetector` computes `keyword` from these tables. Assumptions: `KindAssumption`,
  `InputAssumption`, `ScanAssumption` (slugs are distinct, `rules.rs:536`).
- *`SseProofs`*, of the framing: `BuffersCorrect`, `NoByteLost`, `EventsMinimal`, `NothingWithheld`,
  `CutsDoNotMatter`. The first four
  need each other and three facts more: what has become text is whole characters (`IsUtf8(Text)`),
  the held bytes do not begin with one (`NoCharacterHeld`), and bytes are dropped only at the end
  (`DroppedLast`). A terminator that begins in one chunk and ends in the next is found
  because the buffer held none before (`LoopDone`). `CutsDoNotMatter` concludes from them what all
  of it is for: the events are a function of the bytes that arrived. A run sees one way to cut
  at a time, so this is the uniqueness of a decomposition, the lemma `FramesUnique`: of two events a text may
  begin with, the shorter one's terminator stands in the longer one, which has none but its own.
  It is said of responses with one kind of terminator (`Uniform`); others are cut differently,
  depending on the chunks. Assumptions: `StreamAssumption`, `ByteAssumption`.
- *`SseProofs`*, of the events: `TypeCorrect`, `StreamAlwaysBatch`, `AlwaysComplete`, `HoldsNoMore`,
  `Refinement`. First come lemmas about the holdback rule. A *good cut* is a position no
  placeholder spans in any continuation; `SafeEmitPosition` is one, and reversal
  distributes over a concatenation at a good cut.
  `AlwaysComplete` states
  `BlocksComplete`, which the refinement implies and which has no place in the run.
  `StreamIsBatch` is not inductive, as it says nothing about the text to come; the
  invariant `EmittedToGoodCut` says that what was emitted is the reversal of a beginning of
  the text that ends at a good cut. `Refinement` maps `TextDelta` to `Deliver`, `BlockStop`
  and `Eof` to `EndBlock`, `TransportError` to `Fail`, and everything else to stuttering.
  `HoldsNoMore` builds, for every text the rule may withhold, an ending that makes a placeholder of
  it. Assumptions: `CharAssumption`, `MessageAssumption`.
- *`TrustSetupProofs`*: `TypeCorrect`, `StoredPairAlwaysServed`, `BundleAlwaysFollowsAnchor`,
  `InstalledIsAlwaysServed`, `DoctorAlwaysAgrees`. None of the four safety properties is
  inductive. `StoreInv` adds what each process knows of the disk (`Knows`): who creates a
  pair is alone and found no key, so nobody writes over a complete pair
  (`CompleteKept`), and who serves one has in memory what is on disk. `TrustInv` adds that a
  command runs only on the host it is made for, that one which is not contended is the only
  one and left the anchor as it says (`Alone`), what a promise still rests on (`Kept`), and
  that nothing is trusted where trust cannot work (`Untrusted`). `PathsAgree` is the link
  between the commands: trust, the distribution's tool and doctor mean the same file.
  Assumptions: `HostAssumption`, `ServerAssumption`.
- *`PlaceholderEvalProofs`*: `CellsAlwaysMeasure`, `ResultsAlwaysKept`. The first is a chain of facts
  about functions: a file `main` lets through has a secret that stands in its body (`Usable`,
  `ParsedIsUsable`), so replacing it leaves a placeholder and no secret (`ReplacedMeasures`); that
  a directory of any size can be put in order is proved by an induction over its size
  (`SortedExists`). `ResultsKept` speaks of the file alone and is not inductive; `Progress` says, for
  each point of an iteration, how what was paid for, the records in memory and the file
  belong together, and `Settled` what is left of that when a run has ended. That the records
  are in the order of the cells is the arithmetic of `run_loop`'s two nested loops (`CellsInOrder`).
  `InCellOrder` goes by position, not by format, since `parse_formats` lets a format be
  named twice. Assumptions: `EvalAssumption` (file
  names are ordered, a secret is one word or none), `WordAssumption` (no word of a text is a
  placeholder).

Every safety property of a passing run is stated by a theorem. Only model-checked are the
liveness properties of the two proxies (`StreamingPreserved`, `ExchangeEnds`, `ShutdownCompletes`),
which rest on fairness and are out of the prover's reach.

## What is left out

The regular expressions (but for what `Rules` keeps of them) and their engine, the entropy
formula, JSON syntax, the syntax of fields inside an event, logging, the wording of reports, TLS
and HTTP themselves, what is in a certificate, the proxy library and the operating system's trust
tools. Of the evaluation: the guess whether an answer is a refusal, latency and token
counts, which are recorded and read by nothing, the wire format of the providers, and secrets
that are, or are part of, a placeholder (`WordAssumption`). Events without an `event:` line, as OpenAI's streams send
them, pass the reverser unchanged and are not in `SseReverser`, which models an
Anthropic stream; the two proxies have them as events of another form. Compressed replies
of the relay, which forwards `Accept-Encoding`, are in `RelayForward`, and `ReplyRestored`
excepts them: the buffered ones keep their placeholders, the streamed ones are dropped
(`Undecodable`). Where a byte of an event stream is not UTF-8, the model drops the whole piece
with it. In the code the text before that byte in the same event, and the first byte of a
compressed body, come out at the end, as a part of an event. That a service account inside a JSON string has escaped quotes and is not
seen as a whole by the detector is not modelled. A body that is not UTF-8 is forwarded as it is, by design of the code;
`NoSecretLeaves` speaks of text bodies on the listed paths.

## Plan

Done first, in this order, because the privacy promise rests on them: table and
redaction, streaming reversal with its abstract specification and refinement, the
intercepting proxy, the detector, the framing, the relay; then the authority and its
trust, the scan command with the tables of rules, the evaluation; then the proofs. Left:

1. Events without type and with several `data:` lines in `SseReverser`; `SseFraming` and
   `SseReverser` composed, so that the order of flushing is checked end to end. `CutsDoNotMatter`
   and `StreamAlwaysBatch` are the two halves of what the composition has to show.
2. A text of `Detector` in which quotes are escaped, so that service accounts inside JSON strings
   can be told from those that stand bare.
