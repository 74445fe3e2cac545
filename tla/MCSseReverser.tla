---------------------------- MODULE MCSseReverser ----------------------------
(* "SECRET_" is shortened to two characters and [A-Z0-9_] to three, so that *)
(* the shortest placeholder has seven characters.  A text block is up to    *)
(* three fragments: a placeholder the table knows, one it does not know,    *)
(* and pieces that look like the start, the middle or the end of one.       *)
EXTENDS SseReverser, SequencesExt

CONSTANTS op, cl, S, U, one, x, secret

MCPrefix == <<S, U>>
MCSlug == {S, U, one}
Known == <<op, S, U, one, U, one, cl>>
Unknown == <<op, S, U, S, U, one, cl>>
MCOriginal == [p \in {Known} |-> secret]

Fragment ==
  {Known, Unknown, <<op>>, <<op, S>>, <<op, S, U, one>>, <<U, one, cl>>, <<x>>}
Texts == {FlattenSeq(fs) : fs \in BoundedSeq(Fragment, 3)}

TextBlock(t) == [kind |-> "text", text |-> t]
ToolBlock(t) == [kind |-> "tool_use", text |-> t]

\* One block with every text; and text blocks around a tool call, where the
\* first ends in the middle of what the second goes on with.
MCMessage ==
  {<<TextBlock(t)>> : t \in Texts} \cup
  {<<TextBlock(s), ToolBlock(Known), TextBlock(t)>> :
     s \in {<<op, S>>, <<op, S, U, one, U>>, <<x>>}, t \in {<<U, one, U, one, cl>>, <<one, cl>>}}

=============================================================================
