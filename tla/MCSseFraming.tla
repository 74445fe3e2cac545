---------------------------- MODULE MCSseFraming ----------------------------
(* Responses of up to four fragments: characters, line ends, whole          *)
(* terminators of both kinds, and a byte that is not UTF-8.  Every way to   *)
(* cut them into chunks is explored.                                        *)
EXTENDS SseFraming

CONSTANTS a, bad

Fragment == {<<a>>, <<Lead, Cont>>, <<LF>>, Lflf, <<CR, LF>>, Crlf, <<bad>>}
MCStream == {FlattenSeq(fs) : fs \in BoundedSeq(Fragment, 4)}

=============================================================================
