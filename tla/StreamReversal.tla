--------------------------- MODULE StreamReversal ---------------------------
(***************************************************************************)
(* What a streaming reversal promises, without saying how: each content    *)
(* block of the response reaches the client as the text that reversing     *)
(* the complete block would give, in pieces, and what was sent is never    *)
(* taken back.  Nothing is said about when a piece goes out, except that a *)
(* block is complete when its end is announced.                            *)
(***************************************************************************)
EXTENDS PlaceholderText

VARIABLES
  received,   \* text of the current block received from upstream
  delivered,  \* reversed text of the current block sent to the client
  finished,   \* the blocks that ended: [up |-> received, down |-> delivered]
  status      \* "streaming", then "flushed" (clean end) or "failed"

vars == <<received, delivered, finished, status>>

Init ==
  /\ received = << >> /\ delivered = << >> /\ finished = << >>
  /\ status = "streaming"

StartsWith(t, s) == Len(s) <= Len(t) /\ \A i \in 1 .. Len(s) : t[i] = s[i]

\* More text arrives; some, all or none of what is withheld goes out.
Deliver ==
  /\ status = "streaming"
  /\ StartsWith(received', received)
  /\ StartsWith(delivered', delivered)
  /\ StartsWith(Reversed(received'), delivered')
  /\ UNCHANGED <<finished, status>>

\* A block ends, by its stop event or with the stream: all of it is out.
EndBlock ==
  /\ status = "streaming"
  /\ StartsWith(Reversed(received), delivered)
  /\ finished' = Append(finished, [up |-> received, down |-> Reversed(received)])
  /\ received' = << >> /\ delivered' = << >>
  /\ status' \in {"streaming", "flushed"}

\* The upstream connection breaks: the client sees the error, nothing more.
Fail ==
  /\ status = "streaming"
  /\ status' = "failed"
  /\ UNCHANGED <<received, delivered, finished>>

Next == Deliver \/ EndBlock \/ Fail

Spec == Init /\ [][Next]_vars

=============================================================================
