----------------------------- MODULE SseFraming -----------------------------
(***************************************************************************)
(* From bytes to events: the outer half of the streaming reverser          *)
(* (push_bytes, push and flush_bytes in crates/proxy-core/src/sse.rs).     *)
(* The network cuts the response into chunks anywhere, also inside a       *)
(* character and inside an event terminator.  A first buffer holds bytes   *)
(* that are not complete characters yet, a second one text that is not a   *)
(* complete event yet.  What is done with an event is the subject of       *)
(* SseReverser; here it is only put on record.                             *)
(*                                                                         *)
(* Characters have one byte or two; the two-byte ones stand for all longer *)
(* ones.                                                                   *)
(***************************************************************************)
EXTENDS Integers, Sequences, SequencesExt

CONSTANTS
  CR, LF,      \* the bytes of event terminators
  Ascii,       \* other one-byte characters
  Lead, Cont,  \* first and second byte of a two-byte character
  Invalid,     \* bytes that occur in no character
  Stream       \* the response bodies: sequences of bytes

Byte == {CR, LF, Lead, Cont} \cup Ascii \cup Invalid

ASSUME StreamAssumption == Stream \subseteq Seq(Byte)
ASSUME ByteAssumption ==
  /\ CR # LF /\ Lead # Cont
  /\ {CR, LF} \cap {Lead, Cont} = {}
  /\ Ascii \cap {CR, LF, Lead, Cont} = {} /\ Invalid \cap ({CR, LF, Lead, Cont} \cup Ascii) = {}

VARIABLES
  stream,     \* the response body
  sent,       \* bytes of it that have arrived
  byte_buf,   \* bytes that are not text yet
  parse_buf,  \* text that is not an event yet
  pc,         \* "waiting" for a chunk, "splitting", "flushed", "failed"
  events,     \* history: [text, terminator] of the events, in order
  dropped     \* history: the bytes that `flush_bytes` threw away

framingVars == <<stream, sent, byte_buf, parse_buf, pc, events, dropped>>

FramingInit ==
  /\ stream \in Stream
  /\ sent = 0
  /\ byte_buf = << >> /\ parse_buf = << >>
  /\ pc = "waiting"
  /\ events = << >> /\ dropped = << >>

-----------------------------------------------------------------------------
\* s is UTF-8: every byte is a character or part of one.
IsUtf8(s) ==
  \A k \in 1 .. Len(s) :
    \/ s[k] \in {CR, LF} \cup Ascii
    \/ s[k] = Lead /\ k < Len(s) /\ s[k + 1] = Cont
    \/ s[k] = Cont /\ k > 1 /\ s[k - 1] = Lead

\* Mutations: the buffer passes only as a whole, or as it is.
AllOrNothing(s) == IF IsUtf8(s) THEN Len(s) ELSE 0
WithoutCarry(s) == Len(s)

\* The length of the longest prefix that is UTF-8 (Utf8Error::valid_up_to).
ValidUpTo(s) ==
  CHOOSE n \in 0 .. Len(s) :
    /\ IsUtf8(SubSeq(s, 1, n))
    /\ \A m \in n + 1 .. Len(s) : ~ IsUtf8(SubSeq(s, 1, m))

\* push_bytes: the chunk joins the bytes carried over; what is text goes on
\* to the event parser.
PushBytes ==
  /\ pc = "waiting"
  /\ \E n \in 1 .. Len(stream) - sent :
       LET bytes == byte_buf \o SubSeq(stream, sent + 1, sent + n)
           valid == ValidUpTo(bytes)
       IN  /\ sent' = sent + n
           /\ byte_buf' = SubSeq(bytes, valid + 1, Len(bytes))
           /\ parse_buf' = parse_buf \o SubSeq(bytes, 1, valid)
           /\ pc' = IF valid = 0 THEN "waiting" ELSE "splitting"
  /\ UNCHANGED <<stream, events, dropped>>

Crlf == <<CR, LF, CR, LF>>
Lflf == <<LF, LF>>

Occurs(s, t, at) == at + Len(t) <= Len(s) /\ SubSeq(s, at + 1, at + Len(t)) = t
HasMatch(s, t) == \E at \in 0 .. Len(s) : Occurs(s, t, at)

\* Mutation: where t occurs last.
FindLast(s, t) ==
  CHOOSE at \in 0 .. Len(s) : Occurs(s, t, at) /\ \A b \in at + 1 .. Len(s) : ~ Occurs(s, t, b)

\* str::find: where t occurs first.
Find(s, t) ==
  CHOOSE at \in 0 .. Len(s) : Occurs(s, t, at) /\ \A b \in 0 .. at - 1 : ~ Occurs(s, t, b)

\* The terminators that split_first_event finds.
Terminators(buf) == {t \in {Crlf, Lflf} : HasMatch(buf, t)}

\* Mutation: the terminator stays in the buffer.
AfterText(buf, t) == SubSeq(buf, Find(buf, t) + 1, Len(buf))

\* What remains behind the first event.
AfterEvent(buf, t) == SubSeq(buf, Find(buf, t) + Len(t) + 1, Len(buf))

\* One iteration of the loop in `push`: the first event is split off and
\* processed.  CRLFCRLF is looked for in the whole buffer before LFLF is.
SplitEvent ==
  /\ pc = "splitting" /\ Terminators(parse_buf) # {}
  /\ LET t == IF Crlf \in Terminators(parse_buf) THEN Crlf ELSE Lflf
     IN  /\ events' = Append(events, [text |-> SubSeq(parse_buf, 1, Find(parse_buf, t)),
                                      terminator |-> t])
         /\ parse_buf' = AfterEvent(parse_buf, t)
  /\ UNCHANGED <<stream, sent, byte_buf, pc, dropped>>

\* No complete event is left: `push` returns.
SplitNone ==
  /\ pc = "splitting" /\ Terminators(parse_buf) = {}
  /\ pc' = "waiting"
  /\ UNCHANGED <<stream, sent, byte_buf, parse_buf, events, dropped>>

\* The response ends, complete or not: flush_bytes.  Bytes that are no text
\* are dropped; text without a terminator is processed as an event.
Flush ==
  /\ pc = "waiting"
  /\ dropped' = byte_buf
  /\ byte_buf' = << >>
  /\ events' = IF parse_buf = << >> THEN events
               ELSE Append(events, [text |-> parse_buf, terminator |-> << >>])
  /\ parse_buf' = << >>
  /\ pc' = "flushed"
  /\ UNCHANGED <<stream, sent>>

\* The connection breaks: nothing is flushed.
BreakOff ==
  /\ pc = "waiting"
  /\ pc' = "failed"
  /\ UNCHANGED <<stream, sent, byte_buf, parse_buf, events, dropped>>

FramingNext ==
  \/ PushBytes
  \/ SplitEvent
  \/ SplitNone
  \/ Flush
  \/ BreakOff

FramingSpec == FramingInit /\ [][FramingNext]_framingVars

-----------------------------------------------------------------------------
Arrived == SubSeq(stream, 1, sent)

\* The state has the shape the code gives it: only text gets to the parser.
BuffersOK ==
  /\ stream \in Seq(Byte) /\ sent \in 0 .. Len(stream)
  /\ byte_buf \in Seq(Byte) /\ parse_buf \in Seq(Byte) /\ dropped \in Seq(Byte)
  /\ pc \in {"waiting", "splitting", "flushed", "failed"}
  /\ events \in Seq([text : Seq(Byte), terminator : {Crlf, Lflf, << >>}])
  /\ IsUtf8(parse_buf) /\ \A k \in 1 .. Len(events) : IsUtf8(events[k].text)

EventBytes(e) == e.text \o e.terminator

\* However the response is cut, no byte is lost, repeated or moved between
\* the two buffers and the events.
NothingLost ==
  FlattenSeq([k \in 1 .. Len(events) |-> EventBytes(events[k])])
    \o parse_buf \o byte_buf \o dropped = Arrived

\* A response terminates its events in one way.
Uniform == ~ (HasMatch(Arrived, Crlf) /\ HasMatch(Arrived, Lflf))

\* An event is what stands between two terminators, never more: wherever the
\* chunks end, its text holds no terminator, also not one that began in it.
\* (A response that mixes terminators is cut differently, depending on the
\* chunks.)
EventsAreMinimal ==
  Uniform =>
    \A k \in 1 .. Len(events) : \A t \in {Crlf, Lflf} :
      \A at \in 0 .. Len(EventBytes(events[k])) :
        Occurs(EventBytes(events[k]), t, at) =>
          t = events[k].terminator /\ at = Len(events[k].text)

\* proxy-mitm handler.rs:388-393, events go downstream as they arrive: when `push_bytes`
\* returns, no complete event and no complete character is left in it.
NoEventWithheld ==
  pc = "waiting" =>
    /\ \A t \in {Crlf, Lflf} : ~ HasMatch(parse_buf, t)
    /\ IsUtf8(Arrived) => byte_buf = << >>
    /\ IsUtf8(Arrived \o <<Cont>>) => byte_buf \in {<< >>, <<Lead>>}

\* sse.rs:136-142: what is dropped at the end of a stream is a truncated last
\* character, so never a complete one.  It is not so when an invalid byte
\* came before: no later byte gets past it.
OnlyTailDropped == \A k \in 1 .. Len(dropped) : dropped[k] \notin {CR, LF} \cup Ascii

=============================================================================
