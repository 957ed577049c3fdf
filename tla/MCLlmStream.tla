---------------------------- MODULE MCLlmStream ----------------------------
(* An instance of LlmStream for TLC.                                        *)
EXTENDS LlmStream

\* Text, line breaks, whole tags with and without text around them, and halves
\* of tags.
MCContents ==
  {<<>>, <<"t">>, <<"b">>, <<"b", "u">>, <<"o1", "o2">>, <<"c1", "c2">>,
   <<"t", "o1", "o2", "u">>, <<"u", "c1", "c2", "b", "t">>,
   <<"t", "o1">>, <<"o2", "u">>, <<"o1", "o2", "o1", "o2", "t", "c1", "c2", "b", "b">>}
=============================================================================
