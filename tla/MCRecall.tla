------------------------------ MODULE MCRecall ------------------------------
(* An instance of Recall for TLC.  Texts have three letters at the least.   *)
EXTENDS Recall

MCAtoms == {"_", "-", "I", "once", "#", "m", "M", "o", "v", "e"}
MCLower == [x \in MCAtoms |-> IF x = "M" THEN "m" ELSE x]

Move == <<"m", "o", "v">>
Bulleted == <<"-", "_", "I", "once", "M", "_", "_", "o", "v">>
Doubled == <<"I", "I", "m", "o", "v">>
Plain == <<"e", "m", "e">>
Hinted == <<"e", "v", "e", "e">>
Empty == <<"-", "-", "_", "I", "once">>
Digest == <<"#", "m", "o", "v">>

MCAnswers == {<<Digest>>, <<Doubled, Empty>>}
MCTranscripts ==
  {<<[role |-> "assistant", text |-> Hinted], [role |-> "user", text |-> Plain],
     [role |-> "user", text |-> Bulleted], [role |-> "user", text |-> Move],
     [role |-> "user", text |-> Hinted]>>}
MCNotes == {Plain}
\* Nothing but a space, and one that is cut when it is searched by words.
MCQueries == {<<"_">>, <<"M", "o", "_">>}
=============================================================================
