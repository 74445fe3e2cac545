----------------------------- MODULE SseReverser -----------------------------
(***************************************************************************)
(* The streaming reverser (crates/proxy-core/src/sse.rs) driven by an      *)
(* upstream that streams one Anthropic message.  The upstream cuts the     *)
(* text of its blocks into deltas anywhere, also inside a placeholder, and *)
(* may end or break off at any point.  The reverser handles each event     *)
(* when it is complete; cutting bytes into events is the subject of        *)
(* SseFraming.                                                             *)
(*                                                                         *)
(* Events that neither carry text nor end a block (message_start, ping,    *)
(* input_json_delta, ...) pass through and leave the reverser's state      *)
(* alone.  An event without terminator that is left when the stream ends   *)
(* is processed before the final flush: here, that event and then Eof.     *)
(***************************************************************************)
EXTENDS PlaceholderText

CONSTANT Message   \* the messages the upstream may send: sequences of blocks

Block == [kind : {"text", "tool_use"}, text : Seq(Char)]

ASSUME MessageAssumption == Message \subseteq Seq(Block)

VARIABLES
  \* the upstream
  message,   \* the message it sends
  block,     \* number of the block it is in, or has sent last
  rest,      \* the part of that block it has not sent
  phase,     \* "between" blocks, "in" a block, "tail" (after message_delta),
             \* "closed" (after message_stop or an error event)
  \* the reverser
  pending,   \* text withheld because it may be the start of a placeholder
  status,    \* "streaming", "flushed" (clean end), "failed" (broken off)
  \* what upstream and client have seen
  received,  \* text of the current block, as sent by the upstream
  emitted,   \* the same, as sent to the client
  finished   \* history of the blocks that ended

upstream == <<message, block, rest, phase>>
vars == <<upstream, pending, status, received, emitted, finished>>

Init ==
  /\ message \in Message
  /\ block = 0 /\ rest = << >> /\ phase = "between"
  /\ pending = << >> /\ status = "streaming"
  /\ received = << >> /\ emitted = << >>
  /\ finished = << >>

-----------------------------------------------------------------------------
\* content_block_start: passes through.
BlockStart ==
  /\ status = "streaming" /\ phase = "between" /\ block < Len(message)
  /\ block' = block + 1
  /\ rest' = message[block + 1].text
  /\ phase' = "in"
  /\ UNCHANGED <<message, pending, status, received, emitted, finished>>

\* The first n characters of the pending text, and the others.
Released(buf) == SubSeq(buf, 1, SafeEmitPosition(buf))
Withheld(buf) == SubSeq(buf, SafeEmitPosition(buf) + 1, Len(buf))

\* content_block_delta with a text_delta (try_process_text_delta): the text
\* joins the pending text, the safe part goes out reversed.  When nothing is
\* safe the event is swallowed.
TextDelta ==
  /\ status = "streaming" /\ phase = "in" /\ message[block].kind = "text"
  /\ \E n \in 0 .. Len(rest) :
       LET chunk == SubSeq(rest, 1, n)
           buf == pending \o chunk
       IN  /\ rest' = SubSeq(rest, n + 1, Len(rest))
           /\ received' = received \o chunk
           /\ pending' = Withheld(buf)
           /\ emitted' = emitted \o Reversed(Released(buf))
  /\ UNCHANGED <<message, block, phase, status, finished>>

\* content_block_delta with anything else (input_json_delta): passes through.
JsonDelta ==
  /\ status = "streaming" /\ phase = "in" /\ message[block].kind = "tool_use"
  /\ rest # << >>
  /\ rest' = Tail(rest)
  /\ UNCHANGED <<message, block, phase, pending, status, received, emitted, finished>>

\* Mutation: a block ends without its withheld text.
DrainNothing == << >>

\* The withheld text goes out, reversed, as a synthetic delta event, which
\* belongs to the block by its place in the stream: it has no "index".
Drain == Reversed(pending)

\* The block that ends, as both sides have seen it.
EndedBlock == [up |-> received, down |-> emitted \o Drain]

\* Mutation: only the end of the message drains the withheld text.
BlockStopUndrained ==
  /\ status = "streaming" /\ phase = "in"
  /\ rest = << >>
  /\ finished' = Append(finished, [EndedBlock EXCEPT !.down = emitted])
  /\ received' = << >> /\ emitted' = << >>
  /\ phase' = "between"
  /\ UNCHANGED <<message, block, rest, pending, status>>

\* content_block_stop: the withheld text first, then the event.
BlockStop ==
  /\ status = "streaming" /\ phase = "in"
  /\ rest = << >>
  /\ finished' = Append(finished, EndedBlock)
  /\ received' = << >> /\ emitted' = << >>
  /\ pending' = << >>
  /\ phase' = "between"
  /\ UNCHANGED <<message, block, rest, status>>

\* message_delta and message_stop: the same, although no block is open.
MessageEnd ==
  /\ status = "streaming"
  /\ \/ phase = "between" /\ block = Len(message) /\ phase' = "tail"
     \/ phase = "tail" /\ phase' = "closed"
  /\ emitted' = emitted \o Drain
  /\ pending' = << >>
  /\ UNCHANGED <<message, block, rest, status, received, finished>>

\* An "error" event inside the stream: passes through; nothing follows it.
ErrorEvent ==
  /\ status = "streaming" /\ phase # "closed"
  /\ phase' = "closed"
  /\ UNCHANGED <<message, block, rest, pending, status, received, emitted, finished>>

\* The upstream ends the response, complete or not: flush.
Eof ==
  /\ status = "streaming"
  /\ finished' = Append(finished, EndedBlock)
  /\ received' = << >> /\ emitted' = << >>
  /\ pending' = << >>
  /\ status' = "flushed"
  /\ UNCHANGED upstream

\* The connection breaks: the error is forwarded, nothing is flushed.
TransportError ==
  /\ status = "streaming"
  /\ status' = "failed"
  /\ UNCHANGED <<upstream, pending, received, emitted, finished>>

Next ==
  \/ BlockStart
  \/ TextDelta
  \/ JsonDelta
  \/ BlockStop
  \/ MessageEnd
  \/ ErrorEvent
  \/ Eof
  \/ TransportError

Spec == Init /\ [][Next]_vars
-----------------------------------------------------------------------------
Ended == [up : Seq(Char), down : Seq(Piece)]

\* The state has the shape the code gives it; between blocks nothing of the
\* one before is left.
TypeOK ==
  /\ message \in Message /\ block \in 0 .. Len(message) /\ rest \in Seq(Char)
  /\ phase \in {"between", "in", "tail", "closed"}
  /\ phase = "in" => block > 0
  /\ phase \in {"between", "tail"} => received = << >> /\ pending = << >>
  /\ pending \in Seq(Char) /\ received \in Seq(Char)
  /\ status \in {"streaming", "flushed", "failed"}
  /\ emitted \in Seq(Piece)
  /\ finished \in Seq(Ended)

\* The point of the holdback: wherever the upstream cuts the text, what went
\* out plus the reversal of what is withheld is the reversal of the whole.
\* No placeholder is ever emitted in two parts, none is restored twice, and
\* no character is lost or repeated.
StreamIsBatch == emitted \o Reversed(pending) = Reversed(received)

\* The end of a placeholder that has the first j - 1 characters of SECRET_.
Ending(j, c, d) == SubSeq(SecretPrefix, j, Len(SecretPrefix)) \o <<c, Underscore, d, Close>>

\* Every way to finish a placeholder from a prefix of it.
Completions == {Ending(j, c, d) : j \in 1 .. Len(SecretPrefix) + 1, c \in Slug, d \in Digit}

\* The stream is not delayed without need: text is withheld only while some
\* continuation would make a placeholder of it.
HoldsOnlyPossiblePlaceholder ==
  pending # << >> =>
    \E tail \in Completions : PlaceholderAt(pending \o tail, 1, Len(pending \o tail))

\* Text does not move to another block (sse.rs:30-38 fears it might): there
\* is one pending text for the whole stream, but every block that ended, or
\* was cut short by the end of the stream, brought its own text and all of it.
\* A part of what the refinement says, and of the proofs' invariant.
BlocksComplete ==
  \A i \in 1 .. Len(finished) : finished[i].down = Reversed(finished[i].up)

\* The reverser is a streaming reversal: the client reads each block as if
\* it had been buffered and reversed in one piece.
Abstract ==
  INSTANCE StreamReversal WITH delivered <- emitted

ImplementsStreamReversal == Abstract!Spec

=============================================================================
