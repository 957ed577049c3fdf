------------------------------- MODULE Recall -------------------------------
(***************************************************************************)
(* What a user is remembered by and what of it a chat recalls: the texts a *)
(* job of the worker extracts and writes with their embeddings             *)
(* (src/memory/memory-worker.service.ts, saveExperiences), and the search  *)
(* that a chat does while rows come and go                                 *)
(* (src/memory/memory-retrieval.service.ts, rrfMerge).  One job and one    *)
(* search at a time; an action is one call with the code up to the next.   *)
(***************************************************************************)
EXTENDS Experience

CONSTANTS
  Answers,     \* lists of texts the LLM may answer with
  Transcripts, \* messages of the sessions a job may be about
  Notes,       \* contents of preferences a client may note
  Queries,     \* what a chat may search for
  MaxAsked,    \* characters of a query that are searched by words (100)
  Importances, \* importance of a row, clamped by the code to 0.4 .. 0.95
  TopK,        \* memories a chat asks for (3)
  VectorTake,  \* rows of the search by vector: max(TopK, 10)
  RrfK,        \* 60
  Scale,       \* a common multiple of RrfK + 1, RrfK + 2, ...
  ListTake,    \* experiences a job compares with (80)
  MaxRows      \* bound: rows created

ASSUME TakeAssumption ==
  /\ TopK \in Nat \ {0} /\ VectorTake \in Nat /\ VectorTake >= TopK
  /\ ListTake \in Nat /\ MaxAsked \in Nat \ {0}
ASSUME RrfAssumption ==
  /\ RrfK \in Nat /\ MaxRows \in Nat /\ Scale \in Nat \ {0}
  /\ \A i \in 1..MaxRows : Scale % (RrfK + i) = 0
ASSUME InputsAssumption ==
  /\ Answers \subseteq Seq(Seq(Atoms))
  /\ Transcripts \subseteq Seq([role : STRING, text : Seq(Atoms)])
  /\ Notes \cup Queries \subseteq Seq(Atoms) /\ Importances \subseteq Int

VARIABLES
  rows,     \* memory_chunks of the user
  created,  \* rows created so far
  enabled,  \* EMBEDDING_MODE=local
  job,      \* the job that runs
  look      \* the search that runs, or has run

vars == <<rows, created, enabled, job, look>>

Types == {"experience", "preference"}
Lists == {"vector", "experience", "ilike"}

IdleJob == [pc |-> "idle", facts |-> <<>>, texts |-> {}, id |-> 0]
NoLook == [pc |-> "idle", query |-> <<>>, todo |-> {}, lists |-> [l \in Lists |-> <<>>],
           found |-> <<>>, lasting |-> {}]

Init ==
  /\ rows = {} /\ created = 0
  /\ enabled \in BOOLEAN
  /\ job = IdleJob
  /\ look = NoLook

\* Mutant: one row too many.
TakeOneMore(s, n) == SubSeq(s, 1, IF Len(s) <= n THEN Len(s) ELSE n + 1)

Take(s, n) == SubSeq(s, 1, IF Len(s) < n THEN Len(s) ELSE n)

\* ORDER BY importance DESC, created_at DESC.
MoreImportant(r, s) == r.imp > s.imp \/ (r.imp = s.imp /\ r.id > s.id)

ByImportance(S) ==
  CHOOSE s \in SetToSeqs(S) : \A i \in 1..Len(s) - 1 : MoreImportant(s[i], s[i + 1])

Insert(type, text) ==
  /\ created < MaxRows
  /\ created' = created + 1
  /\ \E imp \in Importances :
       rows' = rows \cup {[id |-> created + 1, type |-> type, text |-> text, imp |-> imp,
                           vec |-> FALSE]}

-----------------------------------------------------------------------------
(* process: the LLM is asked, or a user's own sentences are guessed at, and *)
(* the facts are written one by one, each followed by its embedding.        *)

\* The facts still to be written, the leading ones skipped that are too short
\* or known.
Remaining(facts, texts) ==
  LET new == {i \in 1..Len(facts) : /\ Len(Normalize(facts[i])) >= MinText
                                    /\ ~IsNearDuplicate(Normalize(facts[i]), texts)}
  IN  IF new = {} THEN <<>>
      ELSE SubSeq(facts, CHOOSE i \in new : \A k \in new : i <= k, Len(facts))

\* The job before the next fact of those that remain.
Writing(facts, texts) ==
  LET left == Remaining(facts, texts)
  IN  IF left = <<>> THEN IdleJob
      ELSE [pc |-> "create", facts |-> left, texts |-> texts, id |-> 0]

Extracted(answer, messages) ==
  IF Parse(answer) # <<>> THEN Parse(answer) ELSE Guess(messages)

\* A session without messages, or without facts, ends the job.
Extractions ==
  {Extracted(answer, messages) : answer \in Answers, messages \in Transcripts \ {<<>>}} \ {<<>>}

AskLlm ==
  /\ job.pc = "idle"
  /\ \E facts \in Extractions : job' = [IdleJob EXCEPT !.pc = "list", !.facts = facts]
  /\ UNCHANGED <<rows, created, enabled, look>>

Experienced == {r \in rows : r.type = "experience"}

ListExperiences ==
  /\ job.pc = "list"
  /\ LET listed == Take(ByImportance(Experienced), ListTake)
     IN  job' = Writing(job.facts, {listed[i].text : i \in 1..Len(listed)})
  /\ UNCHANGED <<rows, created, enabled, look>>

CreateExperience ==
  /\ job.pc = "create"
  /\ Insert("experience", Normalize(Head(job.facts)))
  /\ job' = [job EXCEPT !.pc = "embed", !.id = created + 1]
  /\ UNCHANGED <<enabled, look>>

\* writeEmbedding: an error is swallowed, and a row that is gone is not written.
WriteEmbedding ==
  /\ job.pc = "embed"
  /\ \/ UNCHANGED rows
     \/ /\ enabled
        /\ rows' = {IF r.id = job.id THEN [r EXCEPT !.vec = TRUE] ELSE r : r \in rows}
  /\ job' = Writing(Tail(job.facts), job.texts \cup {Normalize(Head(job.facts))})
  /\ UNCHANGED <<created, enabled, look>>

JobFails ==
  /\ job.pc # "idle"
  /\ job' = IdleJob
  /\ UNCHANGED <<rows, created, enabled, look>>

-----------------------------------------------------------------------------
(* A client notes a preference, embedded or not, and deletes what it likes. *)

Note ==
  /\ \E text \in Notes : Insert("preference", text)
  /\ UNCHANGED <<enabled, job, look>>

EmbedNote(r) ==
  /\ enabled /\ r.type = "preference" /\ ~r.vec
  /\ rows' = (rows \ {r}) \cup {[r EXCEPT !.vec = TRUE]}
  /\ UNCHANGED <<created, enabled, job, look>>

DeleteChunk(r) ==
  /\ rows' = rows \ {r}
  /\ look' = [look EXCEPT !.lasting = @ \ {r.id}]
  /\ UNCHANGED <<created, enabled, job>>

-----------------------------------------------------------------------------
(* retrieve: three searches at once, and what they find fused by rank.      *)

\* A preference goes before an experience.
ByType(S) ==
  ByImportance({r \in S : r.type = "preference"}) \o ByImportance({r \in S : r.type = "experience"})

AlgorithmSearch ==
  LET found == Take(ByType(rows), TopK) IN [i \in 1..Len(found) |-> found[i].id]

Finished(found) == [look EXCEPT !.pc = "done", !.todo = {}, !.found = found]

\* A blank query, or no vectors: by type and importance alone.
BeginRetrieve ==
  /\ look.pc = "idle"
  /\ \E query \in Queries :
       look' = [NoLook EXCEPT !.pc = IF enabled /\ Trim(query) # <<>> THEN "search" ELSE "fall back",
                              !.query = Lower(Trim(query)),
                              !.todo = IF enabled /\ Trim(query) # <<>> THEN Lists ELSE {},
                              !.lasting = {r.id : r \in rows}]
  /\ UNCHANGED <<rows, created, enabled, job>>

Found(list, hits) ==
  look' = [look EXCEPT !.todo = @ \ {list},
                       !.lists[list] = [i \in 1..Len(hits) |-> hits[i].id]]

\* The rows with a vector, in any order the distances give; none if the query
\* cannot be embedded.
VectorSearch ==
  /\ "vector" \in look.todo
  /\ \E hits \in {<<>>} \cup SetToSeqs({r \in rows : r.vec}) : Found("vector", Take(hits, VectorTake))
  /\ UNCHANGED <<rows, created, enabled, job>>

\* ILIKE of the start of the query, whose % and _ are taken for letters.
Matching == {r \in rows : Includes(Lower(r.text), Slice(look.query, MaxAsked))}

IlikeSearch ==
  /\ "ilike" \in look.todo
  /\ Found("ilike", Take(ByImportance(Matching), TopK))
  /\ UNCHANGED <<rows, created, enabled, job>>

ExperienceSearch ==
  /\ "experience" \in look.todo
  /\ Found("experience",
           Take(ByImportance({r \in Matching : r.type = "experience"}), TopK))
  /\ UNCHANGED <<rows, created, enabled, job>>

Rank(list, id) == {i \in 1..Len(look.lists[list]) : look.lists[list][i] = id}

\* 1 / (k + rank), scaled to be whole.
Points(list, id) ==
  IF Rank(list, id) = {} THEN 0 ELSE Scale \div (RrfK + CHOOSE i \in Rank(list, id) : TRUE)

HitIds == UNION {ToSet(look.lists[l]) : l \in Lists}

\* Mutant: a row that is found again has the score of its last place.
ScoreOfLast(id) ==
  LET last == IF Rank("ilike", id) # {} THEN "ilike"
              ELSE IF Rank("experience", id) # {} THEN "experience" ELSE "vector"
  IN  Points(last, id)

\* The sum of 1 / (k + rank) over the lists that have the row.
Score(id) ==
  Points("vector", id) + Points("experience", id) + Points("ilike", id)

\* Mutant: the rows only keywords find are left out.
FuseVectors ==
  /\ look.pc = "search" /\ look.todo = {} /\ HitIds # {}
  /\ look' = Finished(Take(look.lists["vector"], TopK))
  /\ UNCHANGED <<rows, created, enabled, job>>

\* rrfMerge.  Sums that are equal may differ in the last bit of a double, so
\* that rows of equal score come in any order.
Fuse ==
  /\ look.pc = "search" /\ look.todo = {} /\ HitIds # {}
  /\ \E order \in SetToSeqs(HitIds) :
       /\ \A i \in 1..Len(order) - 1 : Score(order[i]) >= Score(order[i + 1])
       /\ look' = Finished(Take(order, TopK))
  /\ UNCHANGED <<rows, created, enabled, job>>

NothingFound ==
  \/ look.pc = "search" /\ look.todo = {} /\ HitIds = {}
  \/ look.pc = "fall back"

\* Mutant: nothing found is an answer.
FallBackToNothing ==
  /\ NothingFound
  /\ look' = Finished(IF look.pc = "search" THEN <<>> ELSE AlgorithmSearch)
  /\ UNCHANGED <<rows, created, enabled, job>>

FallBack ==
  /\ NothingFound
  /\ look' = Finished(AlgorithmSearch)
  /\ UNCHANGED <<rows, created, enabled, job>>

-----------------------------------------------------------------------------
Next ==
  \/ AskLlm \/ ListExperiences \/ CreateExperience \/ WriteEmbedding \/ JobFails
  \/ Note \/ (\E r \in rows : EmbedNote(r) \/ DeleteChunk(r))
  \/ BeginRetrieve \/ VectorSearch \/ IlikeSearch \/ ExperienceSearch \/ Fuse \/ FallBack

Spec == Init /\ [][Next]_vars

-----------------------------------------------------------------------------
(* Properties.                                                              *)

Texts == Seq(Atoms)
Rows == [id : 1..created, type : Types, text : Texts, imp : Importances, vec : BOOLEAN]

\* The shapes of rows, job and search.
TypeOK ==
  /\ rows \subseteq Rows /\ \A r, s \in rows : r.id = s.id => r = s
  /\ created \in 0..MaxRows /\ enabled \in BOOLEAN
  /\ job.pc \in {"idle", "list", "create", "embed"}
  /\ job.facts \in Seq(Texts) /\ job.texts \subseteq Texts /\ job.id \in 0..created
  /\ look.pc \in {"idle", "search", "fall back", "done"} /\ look.todo \subseteq Lists
  /\ look.query \in Texts /\ look.lasting \subseteq 1..created
  /\ look.found \in Seq(1..created) /\ Len(look.found) <= TopK
  /\ look.lists \in [Lists -> Seq(1..created)]

\* "写入 experience：内容规范化 + 近重复跳过" (long-term-memory.service.ts:57): of two
\* facts extracted for a user neither says the other once more, whatever jobs
\* fail half way and run again, with whatever bullets and subjects.
FactsDiffer ==
  \A r, s \in rows :
    r # s /\ r.type = "experience" /\ s.type = "experience"
      => ~Alike(Lower(Normalize(r.text)), Lower(Normalize(s.text)))

Done == look.pc = "done"
Place(id) == {i \in 1..Len(look.found) : look.found[i] = id}
NoWorse(id, other, l) ==
  \A k \in Rank(l, other) : \E i \in Rank(l, id) : i <= k

\* A row that each search places at least as high as another, and one of them
\* higher, is recalled before it; and no row is recalled twice.
FusionOrder ==
  Done /\ HitIds # {} =>
    /\ \A i, k \in 1..Len(look.found) : look.found[i] = look.found[k] => i = k
    /\ \A x, y \in HitIds :
         /\ \A l \in Lists : NoWorse(x, y, l)
         /\ \E l \in Lists : ~NoWorse(y, x, l)
         => \A k \in Place(y) : \E i \in Place(x) : i < k

\* A user of whom something is remembered from the beginning of a search to its
\* end is not met with nothing: not when the embedding fails, no keyword
\* matches, or rows are deleted and written between the three searches.
RecallsSomething == Done /\ look.lasting # {} => look.found # <<>>

\* "轻量关键词补漏" (memory-retrieval.service.ts:16): a row that has no vector is found
\* by its words, unless more rows are found than asked for, or more by words.
KeywordsFillGaps ==
  Done /\ HitIds # {} /\ Cardinality(HitIds) <= TopK /\ Len(look.lists["ilike"]) < TopK =>
    \A r \in rows :
      r.id \in look.lasting /\ Includes(Lower(r.text), look.query) => Place(r.id) # {}

=============================================================================
