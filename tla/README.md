# HugMe server (selfpraise-server): TLA+ models, checks and proofs

The repository is the backend of HugMe, a companion that keeps conversations, a
short-term memory per session and a long-term memory per user. It is a NestJS
process, deployed in two replicas (`deploy/k8s/api-deployment.yaml`), on one
Postgres and one Redis. No code path opens a transaction or takes a lock: every
handler is a sequence of separate database, Redis and LLM calls, and between any two
of them other requests, on this replica or the other one, may run, or the process
may end. That is what these modules are about.

Paths below are relative to the repository's root.

## 1. Inventory

| Part | State | Operations | Interacts with |
|---|---|---|---|
| Sessions and messages, `src/conversation/` | `conversation_sessions` (leaf, title, digest, archivedAt), `conversation_messages` (a tree by `parentMessageId`) | start, append, chat stream, explain stream, patch, end | short-term memory on every append and chat; queue on end |
| Short-term memory (STM) and context, `src/memory/memory-orchestrator.service.ts`, `short-term-memory.service.ts` | Redis `hugme:stm:<session>`: window, summary, leaf; one hour to live | append, build context (cold restore, token trim, round cap, digest), clear | sessions, long-term memory (profile), retrieval, queue (`compress`) |
| Extraction queue, `memory-queue.service.ts` | Redis lists `jobs`, `processing`; dedupe keys with a TTL of 24 h | enqueue, pop, ack, nackRequeue | all replicas share it |
| Worker and compensation, `memory-worker.service.ts` | one loop per replica; one hourly scan per replica | process a job; enqueue idle sessions | queue, LLM, long-term memory |
| Long-term memory, `long-term-memory.service.ts`; persona, `src/persona/` | `memory_chunks`; Redis `hugme:ltm:<user>`, a cached profile for 30 min | profile, facets, saveExperiences, delete, persona patch | worker and user write at the same time |
| Retrieval, embeddings, `memory-retrieval.service.ts`, `embedding.service.ts` | an embedding column | read; fuse ranked lists | long-term memory |
| LLM client, `agnes-llm.service.ts` | none across calls; a buffer and a flag within one stream | streamChat, completeChat | an HTTP gateway that streams lines |
| LLM usage, `llm-usage.service.ts` | `llm_usages` | record, aggregate | chat, explain, worker |
| Identifiers, `src/common/id/snowflake.ts` | last millisecond and sequence of a process | nextId | every row |
| Login, `src/auth/` | Redis `sms:<phone>`, `refresh:<user>`; `users` | sendCode, login, refresh | identifiers of new users; admin |
| Admin, `src/admin/` | all tables; a result cache | lists, create/update/delete of users and sessions, metrics | sessions (deletion under a handler) |
| Health, shutdown, HTTP metrics, configuration, clients | one flag, counters | probes | - |

What is hard in this system, and what makes each part correct:

* **Conversation.** An append is an insert, an update of the leaf and a read and a
  write of the blob. Requests overlap and die half way. Correct means: the rows form a
  tree, the leaf does not go back, nothing acknowledged falls off the active path, the
  question is in the window, and window and summary show the model what was said, in order.
* **Queue and worker.** Replicas crash between calls, replies of Redis are lost, its client
  sends commands again, jobs fail for ever. Correct means: a job is not lost and does not block the others;
  one that was pushed once is in one place and does not run twice at once; an idle session is compensated, and once.
* **Long-term memory.** List-then-insert and read-then-cache across actors. Correct
  means: no near-duplicate facts, one row per trait, and no stale profile for ever.
* **Streamed answers.** Lines and tags are cut anywhere. Correct means: nothing is
  lost or repeated, and thinking does not end up in the reply.
* **Retrieval.** Three searches at times of their own over rows that come and go, some
  still without a vector. Correct means: the fusion keeps the order the searches agree on, what
  has no vector is found by its words, and a user of whom something is known is not met
  with nothing.
* **Accounts.** Check-then-act on codes, phones and tokens, and answers that get lost.
  Correct means: a code is good once, nobody is let into another's account, and a device stays in
  until someone else is let in.
* **Identifiers.** Wraps of the sequence, restarts, two replicas, a clock that is set back. Correct means:
  two processes never return the same one, nor does one process unless the clock is set back.

`PROJECT.json` lists the hazards one by one at their lines, with the properties that
would catch them or the reason why none does.

## 2. Modules

Every action is one external call with the synchronous code up to the next one.

| Module | Models | Notes |
|---|---|---|
| `Transcript` | what a session promises to one client at a time | abstract: a list that only grows, in which what was acknowledged is found |
| `Conversation` | one session: rows, blob, handlers | refines `Transcript` |
| `MemoryQueue` | queue, workers, compensation, time | time in units of six hours |
| `UserMemory` | rows and cached profile of one user | readers, writers, a worker; contents are compared by a relation `Similar` |
| `Experience` | what is a fact and what is the same fact: normalisation, near duplicates, the parser and the heuristic | operators on texts of atoms, no state |
| `Recall` | an extraction from the LLM's answer to rows with vectors, and the search of a chat | extends `Experience`, whose near-duplicate test takes the place of `Similar` |
| `LlmStream` | streamChat, the think-tag splitter, the join in chatStream | its `SaveReply` is the moment of `BeginReply` in `Conversation` |
| `Snowflake` | the identifier generator of each process | |
| `Accounts` | users, codes, refresh tokens; the devices and the admin | extends `Snowflake`: new users take their identifiers from it and every step of `Accounts` is one of `Snowflake` or none (`IdsTheorem`) |
| `MC*` | instances for TLC | constants only |
| `*Proofs` | theorems | each extends its module and `TLAPS` |

How they meet: `Conversation` adds keys to `jobs` where it calls `enqueue`; what
happens to a job is `MemoryQueue`; what a job writes is `UserMemory`, and which texts it
writes is `Recall`; the reply that `Conversation` saves is `LlmStream`. `Accounts` is composed with
`Snowflake`, `Recall` with `Experience`; the others are checked apart, each with the
other side's calls as choices of its environment.

### Conversation

`msgs` are the message rows, `session` the session row, `stm` the blob, `jobs` the
dedupe keys taken, `req[c]` the handler of client `c` with its program counter and
its local variables; `acked` is history. A message is its rank in
creation order, and only its token cost is kept of its text; a summary is the sequence of
the messages it has a line for. The actions follow the calls: `BeginAppend`,
`CreateMessage`, `SetLeaf`, `GetStm`, `SetStm` are `appendMessage`; `BeginContext`,
`GetBlob`, `LoadSession`, `LoadPath`, `SaveCold`, `SaveKept`, `EnqueueCompress`,
`PersistDigest` are `buildChatContext`; `BeginReply` and the rest of an append,
then `RecordUsage`, are the end of a chat; `BeginEnd`, `LoadLeaf`, `EnqueueExplicit`,
`ClearStm`, `Archive` are `endSession`. `Abort` ends a handler anywhere (a failed call or
the end of a process), `ExpireStm` is the TTL or an eviction, `DeleteSession` an
admin. A client that goes away does not stop its handler: nothing in `chatStream` looks at
the subscriber.

Abstractions. The walk from a leaf to its root is one step: rows never change and only
a deletion of the session could cut it. The `take: 40` of the restore of a session
without a leaf is not reached. The filter on `status` is the identity, since every row is
`completed`. Reads of profile and retrieval touch nothing here. The usage record of an
explanation is part of `EndContext`. An error of the LLM is `Abort`. Parents in another
session are left out, as are titles that come out empty. The 4000 characters of a digest are
counted in lines; the line that gives the number of messages left out is dropped.

### MemoryQueue

`jobs` and `processing` are the two lists, `ttl[k]` the time a dedupe key has left,
`enq[e]` an enqueue call, `worker[w]` a loop; `issued`, `accepted`, `done`, `lost` and
`extracted`, `resent` are history. A session is its number of messages, which stands for its leaf
and fingerprint (the hash is taken to be injective). A compression may name an older leaf
than the present one, because the blob may lag. `RedisFails` and `EnqueueFails` cover a call that was
done or not and throws; `Crash` an end without shutdown hooks. `EnqueueResends` and `Resends` are
what the Redis client does by itself: `common/redis/redis.service.ts` passes it a host and a port, which
leaves `autoResendUnfulfilledCommands` on, so a command whose reply did not arrive is sent again when the
connection is back. A second LPUSH queues its job twice; a second LREM takes off another copy, if there is one;
a second SET NX finds the key of the first, and `enqueue` takes it for a duplicate and pushes nothing. (A second BRPOPLPUSH
leaves the first job on the processing list, as one that throws does.) `resent` are the jobs of repeated pushes. With the hooks,
`onModuleDestroy` waits for the loop, which is no step of its own. `extracted` counts the
messages an extraction has *read*: the LLM is shown the last 24 of the at most 40.

### UserMemory

`rows` are the chunks, tagged with what their `sourceRef` says; `cache` is a set with at
most one profile; `req[a]` holds what a handler is still to do. `raced` is history: the cached
profile may be stale because rows changed while it was built, or because a handler died
between its write and its drop. A client's own `sourceRef`, which `memory.controller.ts:37-50` passes on to `saveFacet` as it is,
is left out: clients send none that is reserved for traits, score or mark. Experiences a client notes itself are not compared with others by
the code, nor here. The worker drops the cache twice, in `saveExperiences` and after it.
Limits of 12, 20 and 80 rows are not reached; `ListTake` is the one of 80, which the premise
of a theorem names.

### Experience and Recall

A text is a sequence of atoms: bullet, space, subject, adverb, the mark of a digest, letters. The limits
in characters are limits in atoms. `Normalize`, `IsNearDuplicate`, `Parse` and `Guess` are
`normalizeExperienceContent`, `isNearDuplicateExperience`, `parseExperienceExtractResponse` and
`heuristicExtractExperiences`. `job` goes from the LLM's answer (`AskLlm`) through the list
(`ListExperiences`, the `ListTake` most important) to one `CreateExperience` and one `WriteEmbedding` for each fact. `look` is one
search: `BeginRetrieve`, the three searches in any order, and `Fuse` or `FallBack`; `lasting` is
history, the rows that were there all the time. Scores are whole numbers (`Scale` times the
sum of `1 / (60 + rank)`); rows of equal score may come in any order, because the code adds
doubles in an order of its own. Distances are a choice, and % and _ in a query are letters, not
wildcards, which could only find more rows; the searches by words look for the first `MaxAsked` atoms of a query. Two of the five types of memory, one job and one search at a time; in the run all rows are equally
important, so that lists are ordered by age, and the clamp of importance is left out.

### Accounts

`users` are the rows, each with the number of its account, which no program variable holds: it tells a new account
from a deleted one with the same phone. `codes` and `stored` are the Redis keys, `held[d]` the
refresh token of a device, `req[r]` a handler. `BeginLogin`, `DelCode`, `FindUser`, `EndDraw`, `InsertUser`,
`SetToken`, `Answer` are a login, a new user's identifier being drawn from the generator of the process;
`BeginRefresh`, `FindById`, `SetToken`, `Answer` a refresh; `BeginCreate`, `CheckClash`, `BeginUpdate`,
`UpdateUser`, `BeginRemove`, `DeleteUser` the admin's. A token is its contents: user, phone, second. `Abort` ends a
handler anywhere, `RestartProcess` all of a process, and an answer may be lost. `entered`, `used`,
`settled` are history. The code sent is the constant `123456` as yet (`auth.service.ts:34`); what the model tells
apart is one sending from the next. Calls that only refuse are no actions, and `me` and access tokens change nothing. That a
deleted user's sessions and memories go too is not modelled.

### LlmStream

A text is a sequence of atoms: the two halves of each tag, a line break, shown characters.
`Read` brings any few lines with the last one possibly cut; `Feed` is the loop over
lines; `Split` is `splitContentWithThinkTags`, on one delta; `Join` and `Tidy` are what
chatStream makes of the chunks. White space other than line breaks is not modelled.

### Snowflake

One clock for all processes, which `Tick` moves on and `StepBack` sets back, by any amount. `nextId` tests for the
same millisecond only, so after a step back it returns identifiers below, or equal to, earlier ones;
its waiting loop goes on until the clock has caught up. `since` remembers how many identifiers a process had
returned when the clock was last set back. A restart takes longer than a millisecond: the clock has left the one of
the last identifier, or has been set back since. The sequence wraps at `SeqMod`, 4096 in the code.

## 3. Runs

| Run | Asks | Bounds and why they suffice |
|---|---|---|
| `conv_warm` | Is what a chat shows the model in order, and does the window lack nothing, while the blob lives? (`TypeOK`, `ContextInOrder`, `WindowAsRestored`) | One client; five messages, one of them above the whole budget, a budget of three, a window of two, a summary of one line and a digest of two: trim, cap and both limits of lines happen, together and repeatedly, and drop acknowledged messages. Branches, an invalid role and handlers that die anywhere; 3,900,000 states |
| `conv_linear` | Is the active path a growing transcript for one client, with dying handlers and expiry? (`AckedOnActivePath`, `QuestionInWindow`, `SummaryBeforeWindow`, `FollowsTranscript`) | Three messages, a window, a summary and a digest of one: a trim, an orphan row left by a dead handler, a restore after it, and a stored digest in front of it |
| `conv_writer_reader` | Does a reader that writes the cache bring in foreign messages? (`StmOnActivePath`) | Two clients, three messages; the explanation restores and trims |
| `conv_rivals` | Do two writers keep the tree, and the leaf from going back? (`TreeOK`, `LeafNeverRetreats`) | Two writers, three messages: a fork and a late update of the leaf |
| `conv_digest_gap` | finding | expected violation of `DigestCoversDropped` |
| `queue_faults` | Is a job pushed once in one place, is a job kept, and acknowledged only after its extraction? (`TypeOK`, `OnePlace`, `JobsConserved`, `DoneIsExtracted`) | Two workers, two jobs, every failure, one push sent again (`MaxResends`) beside any number of other commands: the job queued twice runs in both workers, beside one that must not; time stops twelve hours after a message (`MaxSilence`), four units in all, so that keys run out; workers are symmetric (safety only); 2,352,262 states. `OnePlace` without its exception is violated |
| `queue_time` | Once, in time, and not held up by a poisonous job? (`CompensatedOnce`, `CompensatedInTime`, `GoodJobsDone`) | Two sessions, two scanning replicas, a full day of ticks and a new message; ages of a day and more are alike |
| `user_memory` | Duplicates, one row per reference, stale profiles (`TypeOK`, `NoNearDuplicates`, `OneRowPerRef`, `FreshUnlessRaced`, `CacheConverges`) | One device that reads and patches, beside the worker and a second device that notes and deletes; three rows, two contents, one trait; a job that finds a fact twice |
| `user_memory_two_workers` | finding | expected violation of `NoNearDuplicates` |
| `llm_stream` | Is nothing lost, and do thinking and answer come apart? (`NothingLost`, `AnswerSeparated`, `SavedIsAnswer`) | Three lines in any reads, eleven deltas with whole and half tags and line breaks; a tag or a run of line breaks spans two, a section three |
| `accounts` | Codes once, no strangers, staying in; identifiers distinct and increasing (`AccountsTypeOK`, `CodeOnce`, `NoStranger`, `KeptIn`, and `TypeOK`, `Distinct`, `Increasing` of `Snowflake`) | Two devices of one user, an admin, two processes with neighbouring worker ids, two requests in flight, three in all and any number of refreshes, two codes: a login beside a creation, an update and a deletion, a refresh beside any of them, and the phone given on. Two milliseconds, a clock set back once, a sequence of two, so that it wraps and that identifiers come again; 1,967,736 states. `NoStranger` without its exception is violated, as is an `Increasing` of all identifiers |
| `recall` | Do facts stay apart, is the fusion in order, is something always recalled? (`TypeOK`, `FactsDiffer`, `FusionOrder`, `RecallsSomething`, `KeywordsFillGaps`) | Three rows and two recalled, so that something is left out; an answer whose facts normalise to nothing, one that has none, so that the messages are guessed at, texts that only normalising twice makes alike, a query in the other case; 470,297 states. As many rows as a job lists: with `ListTake = 1` TLC finds `FactsDiffer` violated |

Deadlock is not checked where a bounded run comes to its end (the bounds stop appends,
ticks, reads, requests and identifiers); it is checked in the runs of `UserMemory`, in which a
profile can always be built or expire.

Every property has a mutant in `PROJECT.json`: a plausible slip in one definition (a
leaf that is not set, a summary that replaces the one before, BRPOP for BRPOPLPUSH, a
key that lives too short) under which TLC finds it violated. Mutants stand before the
definition they change and are used nowhere else.

### Fairness

* `queue_time`: weak fairness of each worker's loop. The loop of `memory-worker.service.ts`
  goes on whatever happens, and each call in it ends, with an error at worst. Without
  crashes nothing else is assumed; a job that fails is pushed to the far end, which is
  why `GoodJobsDone` holds beside one that fails for ever.
* `user_memory`: weak fairness of `CacheExpires`: Redis lets the key go when its TTL is
  over, and a hit does not renew it. Handlers are not assumed to go on.
* All other runs check safety and assume none.

## 4. Findings

1. `conv_digest_gap`. The restore from the table takes a stored digest to cover whatever
   it trims (`memory-orchestrator.service.ts:73`; the comment is in line 74). A digest is
   stored when a chat trims or caps, the last time before the reply and what follows it.
   When the blob expires before the next chat has trimmed it, the restore trims messages
   that digest has no line for: they are in neither window nor summary.
2. `user_memory_two_workers`. `saveExperiences` lists and then inserts
   (`long-term-memory.service.ts:66`). Two replicas' workers on two jobs of one user, which
   have different dedupe keys, insert the same fact.

## 5. Proofs

TLAPS proves these for every value of the constants that meets the named assumptions.
What a theorem assumes beyond those is in its own `ASSUME` and is said here.

* **`AccountsProofs`**, identifiers (`TypeOK`, `Increasing`, `Distinct` of `Snowflake`). `Increasing` says nothing
  about what comes next, so the invariant adds `Ceiling`: what a process has returned since the clock was last set
  back (`Recent`) lies below what it can return, in each of its three states (new, counting, waiting), and the millisecond it
  remembers lies ahead of the clock only while it has returned nothing since. `Fields`
  says that each identifier is packed from fields within their bits; `PackSeparates`
  then tells processes apart.
* **`AccountsProofs`**, accounts. `IdsTheorem`: `Accounts` implements `Snowflake`, by mapping each step to
  one of it or to a stutter, so the three results above hold of the identifiers of users.
  `AccountsTypeTheorem`, `CodeOnceTheorem` (the invariant adds that a login
  which was granted has dropped its code, and that a new code has a new number) and `KeptInTheorem` (a handler that
  is to answer a device, not overtaken, carries the stored token). `NoStrangerTheorem` has no hypothesis on worker ids or the clock:
  its property excepts an account whose identifier had been returned before (`Repeated`), and the invariant (`Owned`) says that
  an identifier which has been returned once and is on its way into the table is in no row and no token (`Fresh`), so that a
  token of a deleted account fits no later one. It rests on `NewId` (what a process returns was not returned before, or is `Repeated` now),
  `DrawnGrows`, and on the unique columns of the table (`OneAccount`, a lemma here and not a result: the model takes them from
  the schema).
* **`TranscriptProofs`**. The abstract history keeps what was acknowledged
  (`AckedTheorem`) and holds a message once (`NoRepeatTheorem`).
* **`ConversationProofs`**. `TreeTheorem` proves `TreeOK` with branches, expiry, deletion and
  any number of clients: `TreeInv` adds the shapes of what the tree depends on and that a
  handler about to set the leaf has written its row. Most actions are *quiet* and are
  dealt with by one lemma. `LeafTheorem` proves `LeafNeverRetreats`, provided no client
  names a parent: `FreshInv` says that a row whose handler has not yet set the leaf is
  known to nobody else, hence has no children, and a row without children is on the active
  path as its leaf or not at all (`ChildlessOffPath`). `TypeTheorem` proves `TypeOK` without any
  hypothesis. `TypeInv` is stronger: nothing refers to a message that has no row *yet*, which is what makes
  an append keep it. The module goes on with what later proofs need: the walk from a message to its root over any
  rows that are a tree (`PathIn`: it exists, rises, ends with its leaf, is not changed by a new row, and visits
  the ancestors, `PathIsAncestry`), what trimming, capping and summarising do to any sequence, and for every action
  a lemma that says all of what it does (`BeginAppendStep` .. `DeleteSessionStep`).
* **`HistoryProofs`**. What a session promises while its requests do not all overlap. The code takes
  no lock, so each result names who may run beside whom; what goes wrong otherwise is in 6, and TLC shows it.
  - `OneWriter` and `NoBranch` (one client appends and chats and waits for each answer, as the
    app of one user does; others may read, patch, extract and end; handlers die, blobs expire, an admin deletes).
    `TranscriptTheorem`: `Conversation` implements `Transcript`; each step maps to `Say`, `Acknowledge` or a
    stutter. `WriterInv` ties the writer's handler to the leaf: what it is about to create hangs below it, what it has
    created does so too, and after `SetLeaf` it is the leaf. `AckedTheorem` then is `AckedSaid` of `Transcript`, by way of
    `PathIsAncestry`.
  - The same, no handler dies and the session is not deleted: the rows are a list (`LinearInv`), and the blob holds what is
    on the path (`StmTheorem`). A dead handler leaves a row off the path, and the property fails: a restore of a session
    that has no leaf yet takes all rows.
  - `OneClient` (requests one after the other, whatever fails).
    `QuestionTheorem`: `QuestionInv` says that the blob, and the copy a handler has taken, ends with the
    leaf once that is acknowledged; `NewestKept` that neither trim nor cap drops the newest message, whatever it costs.
  - `Warm` (one client on a blob that neither expires nor is cleared; forks, dying handlers, any costs and limits).
    `OrderTheorem`: `WarmInv` says that the blob's summary and then its messages are in order, in Redis (`StmOrdered`) and in the
    copy a handler works on (`ReqOrdered`), that a message on its way into the blob is newer than what is there, and that no
    digest is stored before there is a blob. Trimming, capping and summarising keep what is in order so
    (`RestOrdered`, `SummariseOrdered`), whatever they drop.
* **`MemoryQueueProofs`**. `TypeTheorem`; `OnePlaceTheorem`, whose invariant `PlacesInv`
  adds the handlers about to push for the first time and the workers that hold a job, for every job whose own pushes
  were not repeated (`PushedTwice`); what is done to another job, whose place is anywhere, does not touch it;
  `ConservedTheorem`; `CompensatedTheorem`, whose invariant `CompInv` relates the
  clocks: as long as the scan can still find a state that was compensated, the life left in its
  key and the age of the session add up to more than a day (`PastInv`), and a row a
  replica has read and not yet queued either is old by now or has its key
  (`PendingInv`). `DoneTheorem`: no row, call or job speaks of more messages than its session has
  (`SpokenInv`), and a worker that is to save has read, one that is to acknowledge has seen extracted,
  what its job owes (`PaidInv`).
  `InTimeTheorem` is `CompensatedInTime` under `Steady`: no process ends and Redis answers the first time,
  there is a replica that scans, and a scan takes as many sessions as there are. `TimelyInv` says that what has been silent for a
  unit of time is issued or still a row of *every* replica that has scanned in this unit (`SoonInv`), and that a row dropped
  because its key was there has been issued by whoever set the key (`KeyInv`, which a process that dies between
  the SET and the LPUSH, or a SET that is sent again, would break).
* **`UserMemoryProofs`**. The argument is about what a handler has yet to do (`todo`). `BaseInv` says which steps
  may follow which (`Follows`), who may have them (`OpsOf`) and that a profile is built in one order; it gives
  `TypeTheorem`. `FreshTheorem`: `FreshInv` adds that whoever has changed rows still has to drop the
  profile (`Drops`), and that a handler building a profile, if it was not overtaken, holds the present
  rows as far as it has read (`UpToDate`). `OneRowTheorem`, for a user whose patches come one at a time (`OnePatcher`):
  whoever is about to put a row has found or left none (`Cleared`). `NoDuplicatesTheorem`, for one
  worker (`OneExtractor`) and a user who has had no more rows than `saveExperiences` lists (`AllListed`): the texts a job
  compares with include every fact there is (`Knows`), clients and failed jobs notwithstanding.
* **`RecallProofs`**. The first part shows what the folds over texts and lists keep (`FoldExists`: a fold has a
  value at every length; `FoldKeeps`: it keeps what every step keeps), so that texts, answers and messages
  may have any length. `Memory` is the invariant of rows and job. Ids differ, no
  fact comes to nothing when normalised again (such a text counts as known, so it is never written), and
  the texts a job compares with include that of every experience but the one it has just
  written (`Known`), while the list it was shown is whole (`MaxRows <= ListTake`, the hypothesis of `FactsTheorem`). Alikeness goes both
  ways (`AlikeBothWays`), so the new row differs from the old and the old from it. `Search` is the invariant of the search: a list
  holds different rows, what counts as lasting is there (`Lasting`), an unfilled list by words has every lasting row that contains the query (`Words`), and the answer is
  the head of the hits in the order of their scores (`Fused`). That `ORDER BY` has an answer is proved
  by counting the rows before each (`SortedExists`). With them `RecallsTheorem` and `KeywordsTheorem` count: the hits are no more
  than were asked for, so all of them are answered. `FusionTheorem` needs that a later place is worth strictly less
  (`ShareFalls`), which the scaled shares of the model keep because `Scale` is a common multiple of the denominators
  (`RrfAssumption`); a row placed higher in one list and nowhere lower then has the greater sum. `TypeTheorem` is `TypeOK`.

* **`LlmStreamProofs`**. For any contents, deltas, lines and reads, with no hypothesis; the theorems are
  `NothingLostTheorem`, `AnswerSeparatedTheorem`, `SavedIsAnswerTheorem`. The loop of `splitContentWithThinkTags` is a function that is
  defined by what remains of a delta, so first it is shown that there is one and that `Split` is its start (`SplitExists`, `SplitIs`).
  An argument along the loop goes from the end of the delta to its start (`AlongSplit`). What is selected from two
  texts in a row, or flattened, is what is selected from each (`SelectCat`, `FlattenCat`). `SplitWhole`: a split drops nothing but tags.
  `SplitSound`: it ends on the side where the text ends, and says of each kind what the tags give to that side (`Shows`). The
  reference of the properties looks at all that was sent at once, the code at one delta and a flag; `OpenCat` and `ReferenceCat` say
  what the reference gives of a text with one delta more, provided the text before does not end within a tag (`Ends`). `IInv` is `Kept`,
  what was yielded is what was sent, and, while no tag is cut (`Cutless`), `Sided`: the flag is the side on which the reference
  ends, and each kind has what the reference gives it. `HandleKeeps` carries both through the lines of a read.
  For the reply, `StripCat` says that stripping the start of two texts in a row strips the first, and the second only if
  nothing is left of the first; hence `ReplyIs`: what chatStream joins chunk by chunk and trims is the content, trimmed.

There is no induction rule to cite here, so where an argument goes by the length of a walk or a
sequence it takes the least counterexample (`LeastNat`, `UpTo`), and a recursive function is shown to exist length by
length (`RecExists`).

Left to TLC: liveness (`GoodJobsDone`, `CacheConverges`), which is out of the prover's reach, and `WindowAsRestored` and
`SummaryBeforeWindow`, which compare what two trims keep: that needs sums of token costs over sequences of any length, an
induction over data. Every other property that a passing run checks is stated by a theorem, under the hypotheses given above.

## 6. What is not shown

* That the model is shown all that was said. A summary has a line for the last 8 of the messages dropped
  (`memory.types.ts:113`), a digest 4000 characters, a window 20 messages: in a session of some thirty short messages acknowledged ones
  are in none of them, by design. What is checked is the rest: order, and a window that lacks nothing a restore would show
  (`ContextInOrder`, `WindowAsRestored`), for one client on a live blob. With two writers an append can be missing from the blob
  (a read and a write in two calls). After an expiry the next append starts a blob of its own message, so that the path before
  it is not shown, and the digest of that blob later replaces the stored one. In a forked session the blob goes on with messages of the
  branch before. No text of the repository says otherwise, so these are hazards, not findings.
* A reply hangs below whatever is the leaf when it is saved, which with two writers need not be its question; and messages
  appended while `endSession` runs are archived without an extraction, until the compensation finds the session
  silent (its scan does not look at `archivedAt`). No property requires more.
* A job whose LPUSH was sent again is queued twice and may run in two workers at once (`OnePlace` speaks of the others); and a
  SET NX sent again keeps its job from being pushed until the key runs out.
* `AckedOnActivePath` holds for one writer. Two overlapping appends fork the tree, and one
  of them leaves the active path.
* A title is given when the row read before the insert had none; one typed, or cleared, in between is written over. The
  model has that race (`PatchSession` beside an append); no property forbids either order.
* `CompensatedInTime` holds while no more sessions are idle than a scan takes. It takes 100 in
  no order (`memory-worker.service.ts:135`); of more than that, the same ones may be taken each hour, and the
  others leave the 24 hours without having been queued.
* `OneRowPerRef` holds for one patching device; two overlapping patches leave two rows.
* A job that is on the processing list when its replica dies stays there: nothing reads
  that list. `JobsConserved` counts it as found.
* Two logins that overlap are both granted on one code: `CodeOnce` is about later ones. (They are in the theorems; the run has
  one login in flight at a time, which may be ended between any two calls.) That they do not make two accounts of one phone is
  the table's doing. A refresh whose
  answer is lost costs the device its login, which `KeptIn` names as an exception.
* `Distinct` is about different worker ids; the deployment sets `SNOWFLAKE_WORKER_ID` for neither replica, so both are 1 and
  may return the same identifier in one millisecond. So may one process after its clock was set back. Then an insert fails on
  the table's primary key, or, if the first account is gone, its token opens the second: the exception of `NoStranger`.
* A process that waits for the next millisecond while the clock is set back is held up until the clock has caught up. The
  model has that wait; nothing is checked of how long it takes.
* `FactsDiffer` holds for one job at a time, as `NoNearDuplicates` does, and for a user who has had no more rows than
  `saveExperiences` lists, which is 80 (`long-term-memory.service.ts:66`): what is beyond the list is compared with nothing.
* A tag cut between two deltas is passed on as text, and a last line without a line
  break is dropped. `AnswerSeparated` and `SavedIsAnswer` are about whole tags (the runs
  contain cut ones, and `NothingLost` holds for them).
* Not modelled: the admin's login, dashboard and metrics (aggregations that read, and a cache of results),
  health and HTTP metrics (a flag and counters nothing reads back), configuration, the thin database and
  Redis clients (but for the commands they repeat), the numbers of an embedding, the deletion of a user's sessions and memories with the user.

## 7. What could come next

`System`: `Conversation`, `MemoryQueue` and `UserMemory` composed, so that what is said
in a session ends up as facts; the deletion of a user with its cascade.
