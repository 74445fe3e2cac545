----------------------------- MODULE MCRedaction -----------------------------
(* Two kinds, two characters and one quoted placeholder; bodies of up to   *)
(* three tokens, which is enough for two adjacent findings and a gap, for  *)
(* a repeated secret, and for a finding at either end.                     *)
EXTENDS Redaction

CONSTANTS a, b

MCKind == {"AwsAccessKey", "Jwt"}
MCTypeSlug == [AwsAccessKey |-> "AWS_KEY", Jwt |-> "JWT"]
MCChar == {a, b}
MCText == {<<a>>, <<b>>, <<a, b>>, <<b, a>>}
Quote == [slug |-> "JWT", n |-> 1]
MCBody == BoundedSeq({a, b}, 3) \cup {<<Quote>>, <<Quote, a>>, <<a, Quote>>, <<a, Quote, b>>}

=============================================================================
