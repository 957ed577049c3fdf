----------------------------- MODULE LlmStream -----------------------------
(***************************************************************************)
(* The reading of a streamed LLM answer: streamChat cuts the bytes of the  *)
(* response into lines and the content of each line into thinking and      *)
(* content (src/conversation/agnes-llm.service.ts), and chatStream joins   *)
(* the content into the reply it saves (conversation.controller.ts).       *)
(*                                                                         *)
(* A text is a sequence of atoms: "o1" "o2" is <think>, "c1" "c2" is       *)
(* </think>, "b" a line break, "r" a text of the reasoning field, and the  *)
(* others are characters that are shown.  What the gateway puts into a     *)
(* line, and where a line and a read end, is its choice.                   *)
(***************************************************************************)
EXTENDS Integers, Sequences, FiniteSets, SequencesExt

CONSTANTS
  Contents,   \* what delta.content may be, "" included
  MaxLines,   \* bound: lines of one response
  MaxRead     \* bound: lines that end or begin in one read

Atoms == {"t", "u", "b", "o1", "o2", "c1", "c2"}
ASSUME ContentsAssumption == Contents \subseteq Seq(Atoms) /\ <<>> \in Contents
ASSUME BoundAssumption == MaxLines \in Nat \ {0} /\ MaxRead \in Nat \ {0}

\* A line has a delta, ends the stream, or is anything that does not parse.
Lines == [kind : {"delta"}, reasoning : BOOLEAN, content : Contents]
         \cup [kind : {"DONE", "other"}, reasoning : {FALSE}, content : {<<>>}]

VARIABLES
  pc,       \* "read", "ended" (the generator returned), "saved" or "failed"
  sent,     \* the lines that have come in whole (history)
  buffer,   \* the lines that have begun to come in, one at most
  inThink,  \* inThinkTag
  chunks    \* what streamChat has yielded

vars == <<pc, sent, buffer, inThink, chunks>>

Chunk(kind, text) == [kind |-> kind, text |-> text]
KindOf(in) == IF in THEN "thinking" ELSE "content"

Init == pc = "read" /\ sent = <<>> /\ buffer = <<>> /\ inThink = FALSE /\ chunks = <<>>

\* The places of the tag with first half h.
Tags(text, h) == {i \in 1..(Len(text) - 1) :
                    text[i] = h /\ text[i + 1] = IF h = "o1" THEN "o2" ELSE "c2"}

\* indexOf of a tag at or after place i, 0 if there is none.
IndexOf(text, h, i) ==
  LET at == {k \in Tags(text, h) : k >= i}
  IN  IF at = {} THEN 0 ELSE CHOOSE k \in at : \A l \in at : k <= l

Piece(text, in, i, k) == IF i < k THEN <<Chunk(KindOf(in), SubSeq(text, i, k - 1))>> ELSE <<>>

\* Mutant: what stands before a tag is skipped together with the tag.
SplitDropsHead(text, in0) ==
  LET split[at \in (1..(Len(text) + 1)) \X BOOLEAN] ==
        LET k == IndexOf(text, IF at[2] THEN "c1" ELSE "o1", at[1])
        IN  IF k = 0 THEN [chunks |-> Piece(text, at[2], at[1], Len(text) + 1), in |-> at[2]]
            ELSE split[<<k + 2, ~at[2]>>]
  IN  split[<<1, in0>>]

\* splitContentWithThinkTags: the chunks of a content and where it leaves the
\* flag.  A tag is looked for within one content only.
Split(text, in0) ==
  LET split[at \in (1..(Len(text) + 1)) \X BOOLEAN] ==
        LET k == IndexOf(text, IF at[2] THEN "c1" ELSE "o1", at[1])
        IN  IF k = 0 THEN [chunks |-> Piece(text, at[2], at[1], Len(text) + 1), in |-> at[2]]
            ELSE [split[<<k + 2, ~at[2]>>] EXCEPT !.chunks = Piece(text, at[2], at[1], k) \o @]
  IN  split[<<1, in0>>]

\* Mutant: every content starts outside of the tags.
FeedAfresh(h, line) ==
  IF h.ended \/ line.kind = "other" THEN h
  ELSE IF line.kind = "DONE" THEN [h EXCEPT !.ended = TRUE]
  ELSE [h EXCEPT
          !.sent = Append(@, line),
          !.chunks = @ \o (IF line.reasoning THEN <<Chunk("thinking", <<"r">>)>> ELSE <<>>)
                       \o Split(line.content, FALSE).chunks]

\* The loop over the lines of a read; [DONE] returns, the rest is not looked at.
Feed(h, line) ==
  IF h.ended \/ line.kind = "other" THEN h
  ELSE IF line.kind = "DONE" THEN [h EXCEPT !.ended = TRUE]
  ELSE LET parts == Split(line.content, h.in)
       IN  [h EXCEPT
              !.sent = Append(@, line),
              !.in = parts.in,
              !.chunks = @ \o (IF line.reasoning THEN <<Chunk("thinking", <<"r">>)>>
                               ELSE <<>>)
                           \o parts.chunks]

HandleLines(whole) ==
  LET fed[n \in 0..Len(whole)] ==
        IF n = 0 THEN [ended |-> FALSE, in |-> inThink, sent |-> sent, chunks |-> chunks]
        ELSE Feed(fed[n - 1], whole[n])
      h == fed[Len(whole)]
  IN  /\ pc' = IF h.ended THEN "ended" ELSE "read"
      /\ sent' = h.sent /\ inThink' = h.in /\ chunks' = h.chunks

Room(n) == Len(sent) + n <= MaxLines

\* A read brings the end of the line in the buffer and more lines; the last of
\* them may be cut anywhere and stays in the buffer.
Read ==
  /\ pc = "read"
  /\ \E new \in SeqOf(Lines, MaxRead), cut \in BOOLEAN :
       LET lines == buffer \o new IN
       /\ (cut => lines # <<>>) /\ Room(Len(lines))
       /\ buffer' = IF cut THEN <<Last(lines)>> ELSE <<>>
       /\ HandleLines(IF cut THEN Front(lines) ELSE lines)

\* The response ends without [DONE]: what is in the buffer is dropped.
EndOfBody ==
  /\ pc = "read" /\ pc' = "ended"
  /\ UNCHANGED <<sent, buffer, inThink, chunks>>

\* The connection breaks, or an error status came instead of a stream.
ReadFails ==
  /\ pc = "read" /\ pc' = "failed"
  /\ UNCHANGED <<sent, buffer, inThink, chunks>>

-----------------------------------------------------------------------------
(* chatStream.                                                              *)

Shown(text) == {i \in 1..Len(text) : text[i] # "b"}
FirstShown(text) == CHOOSE i \in Shown(text) : \A k \in Shown(text) : i <= k
LastShown(text) == CHOOSE i \in Shown(text) : \A k \in Shown(text) : i >= k

\* The text without the line breaks before its first shown character.
StripStart(text) ==
  IF Shown(text) = {} THEN <<>> ELSE SubSeq(text, FirstShown(text), Len(text))

\* Mutant: the start of every delta is stripped, not of the first only.
JoinStripped(full, chunk) ==
  IF chunk.kind = "thinking" THEN full ELSE full \o StripStart(chunk.text)

\* fullContent with one more chunk; contentStarted is fullContent # ''.
Join(full, chunk) ==
  IF chunk.kind = "thinking" THEN full
  ELSE full \o IF full = <<>> THEN StripStart(chunk.text) ELSE chunk.text

\* The elements of a text at some of its places.
SelectAt(text, places) ==
  FlattenSeq([i \in 1..Len(text) |-> IF i \in places THEN <<text[i]>> ELSE <<>>])

\* trim, and no more than two line breaks in a row.
Tidy(text) ==
  LET trimmed == IF Shown(text) = {} THEN <<>>
                 ELSE SubSeq(text, FirstShown(text), LastShown(text))
  IN  SelectAt(trimmed, {i \in 1..Len(trimmed) :
                           i < 3 \/ \E k \in (i - 2)..i : trimmed[k] # "b"})

Reply ==
  LET full[n \in 0..Len(chunks)] == IF n = 0 THEN <<>> ELSE Join(full[n - 1], chunks[n])
  IN  Tidy(full[Len(chunks)])

\* saveAssistantMessage of a reply that is not empty: BeginReply of Conversation.
SaveReply ==
  /\ pc = "ended" /\ Reply # <<>>
  /\ pc' = "saved"
  /\ UNCHANGED <<sent, buffer, inThink, chunks>>

Next == Read \/ EndOfBody \/ ReadFails \/ SaveReply

Spec == Init /\ [][Next]_vars

-----------------------------------------------------------------------------
(* Properties.  The reference looks at the whole text at once: a place is    *)
(* inside when a <think> comes before it with no </think> in between.       *)

Sent == FlattenSeq([i \in 1..Len(sent) |-> sent[i].content])

\* The text inside (or outside) of the tags, without the tags that change sides.
Reference(text, in) ==
  LET opens  == Tags(text, "o1")
      closes == Tags(text, "c1")
      inside == {p \in 1..Len(text) :
                   \E q \in opens : q < p /\ ~\E r \in closes : q < r /\ r < p}
      side   == IF in THEN inside ELSE (1..Len(text)) \ inside
      marks  == (opens \ inside) \cup (closes \cap inside)
      places == side \ (marks \cup {p + 1 : p \in marks})
  IN  SelectAt(text, places)

Yielded(kind) ==
  FlattenSeq([i \in 1..Len(chunks) |-> IF chunks[i].kind = kind THEN chunks[i].text ELSE <<>>])

\* No tag is begun in one line and ended in the next.
TagsWhole ==
  \A i \in 1..Len(sent) :
    sent[i].content # <<>> => Last(sent[i].content) \notin {"o1", "c1"}

Without(text, atoms) == SelectAt(text, {i \in 1..Len(text) : text[i] \notin atoms})
Halves == {"o1", "o2", "c1", "c2"}

\* Wherever reads, lines and tags are cut, every character of every line that
\* has come in whole is yielded once and in order, as thinking or as content.
NothingLost ==
  Without(FlattenSeq([i \in 1..Len(chunks) |-> chunks[i].text]), Halves)
    = Without(FlattenSeq([i \in 1..Len(sent) |->
                (IF sent[i].reasoning THEN <<"r">> ELSE <<>>) \o sent[i].content]), Halves)

\* However the text is cut into lines and reads, as long as no tag is cut by
\* the end of a line, what is between the tags is thinking and the rest content
\* (the comment on splitContentWithThinkTags).
AnswerSeparated ==
  TagsWhole =>
    /\ Yielded("content") = Reference(Sent, FALSE)
    /\ Without(Yielded("thinking"), {"r"}) = Reference(Sent, TRUE)

\* The message that chatStream saves is then the whole answer, tidied once, and
\* one is saved if there is an answer at all, although leading line breaks are
\* dropped chunk by chunk.
SavedIsAnswer ==
  TagsWhole /\ pc \in {"ended", "saved"} => Reply = Tidy(Reference(Sent, FALSE))

=============================================================================
