-------------------------- MODULE MCPlaceholderEval --------------------------
(* Two runs over directories of up to two fixtures, some of which cannot be  *)
(* used, with one to three formats.                                          *)
EXTENDS PlaceholderEval, TLC

Key == <<"AKIA">>
Aws == <<"AWS_KEY">>
MCWord == {Key, Aws, <<"fix">>, <<"this">>}

Text(words) == [tag |-> "SECRET_TEXT=", words |-> words]
Type(words) == [tag |-> "SECRET_TYPE=", words |-> words]
Blank == [tag |-> "blank", words |-> << >>]
Says(words) == [tag |-> "other", words |-> words]

Plain == <<Text(<<Key>>), Type(<<Aws>>), Blank, Says(<<<<"fix">>, Key>>)>>
NoBlank == <<Type(<<Aws>>), Text(<<<<"this">>>>), Text(<<Key>>), Says(<<Key, Key>>), Blank, Text(<<Key>>)>>
Empty == <<Text(<< >>), Type(<<Aws>>), Blank, Says(<<<<"fix">>, <<"this">>>>)>>
HeaderInBody == <<Text(<<Key>>), Blank, Type(<<Aws>>), Says(<<Key>>)>>
NoSecret == <<Text(<<Key>>), Type(<<Aws>>), Blank, Says(<<<<"fix">>>>)>>

MCDirectory ==
  {<< >>, <<Plain, NoBlank>>, <<Empty, Plain>>, <<NoBlank>>, <<Plain, HeaderInBody>>, <<NoSecret>>}

MCFormatArg ==
  {<<"guillemets", "redacted", "guillemets">>, <<"angle_num", "asterisks", "mustache">>, <<"unknown">>}

=============================================================================
