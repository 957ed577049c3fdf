---------------------------- MODULE MemoryQueue ----------------------------
(***************************************************************************)
(* The extraction queue shared by all replicas: two Redis lists, the       *)
(* dedupe keys that guard them, the handlers and the hourly compensation   *)
(* that enqueue jobs, and one worker loop per replica                      *)
(* (src/memory/memory-queue.service.ts, memory-worker.service.ts).         *)
(*                                                                         *)
(* A job is the rank of its jobId; a session is its number of messages,    *)
(* which stands for its leaf and its content fingerprint.  Time advances   *)
(* by Tick in units of six hours; what happens within a unit takes no      *)
(* time, as database and Redis calls take next to none.                    *)
(***************************************************************************)
EXTENDS Integers, Sequences, FiniteSets

CONSTANTS
  Sessions,
  Handlers,     \* request handlers that enqueue
  Crons,        \* replicas that run the compensation
  Workers,      \* replicas that run the worker loop
  Triggers,     \* what handlers enqueue: a subset of {"compress", "explicit"}
  Poison,       \* sessions whose extraction fails every time
  Disruptions,  \* "crash", "redis" (a call fails, done or not, or is sent
                \* again), "flaky"
  ScanTake,     \* sessions one compensation looks at (100)
  ReadTake,     \* messages a worker reads of a session (40)
  MaxVer,       \* bound: messages of a session
  MaxJobs,      \* bound: jobs
  MaxResends,   \* bound: pushes that are sent again
  MaxSilence    \* bound: units a session waits for its next message

ASSUME QueueAssumption ==
  /\ Sessions # {} /\ Handlers \cap Crons = {}
  /\ Triggers \subseteq {"compress", "explicit"}
  /\ ScanTake \in Nat \ {0} /\ ReadTake \in Nat \ {0}
  /\ MaxVer \in Nat /\ MaxJobs \in Nat /\ MaxResends \in Nat
  /\ MaxSilence \in Nat

\* Mutant: the keys live for six hours.
ShortTtl == 1

KeyTtl == 4               \* DEDUPE_TTL_SECONDS, 24 hours
Vers == 0..MaxVer
JobIds == 1..MaxJobs
NoJob == 0
Enqueuers == Handlers \cup Crons
Keys == Sessions \X (Triggers \cup {"compensate"}) \X Vers

VARIABLES
  ver,         \* ver[s]: completed messages of session s
  age,         \* age[s]: units since lastMessageAt, 4 and more alike
  ttl,         \* ttl[k]: units the dedupe key k has left, 0 when absent
  jobs,        \* hugme:memory:jobs, left end first
  processing,  \* hugme:memory:processing: copies of each job
  enq,         \* enq[e]: the enqueue call of e
  worker,      \* worker[w]: the loop of w
  scanned,     \* scanned[e]: cron e has run in this unit of time
  issued,      \* issued[j]: the key of job j (history)
  accepted,    \* jobs whose LPUSH was done (history)
  done,        \* jobs acknowledged by a worker (history)
  lost,        \* jobs taken off the processing list and never pushed back (history)
  extracted,   \* extracted[s]: messages of s an extraction has read (history)
  resent       \* jobs whose LPUSH was done and sent again, in order (history)

timeVars == <<ver, age, ttl, scanned>>
listVars == <<jobs, processing>>
histVars == <<issued, accepted, done, lost, extracted, resent>>
vars == <<ver, age, ttl, scanned, jobs, processing, enq, worker,
          issued, accepted, done, lost, extracted, resent>>

IdleEnq == [pc |-> "idle", rows |-> {}, session |-> CHOOSE s \in Sessions : TRUE,
            trigger |-> "none", ver |-> 0, id |-> NoJob]
IdleWorker == [pc |-> "idle", job |-> NoJob, seen |-> 0]

Init ==
  /\ ver = [s \in Sessions |-> 0]
  /\ age = [s \in Sessions |-> 0]
  /\ ttl = [k \in Keys |-> 0]
  /\ jobs = <<>>
  /\ processing = [j \in JobIds |-> 0]
  /\ enq = [e \in Enqueuers |-> IdleEnq]
  /\ worker = [w \in Workers |-> IdleWorker]
  /\ scanned = [e \in Crons |-> FALSE]
  /\ issued = <<>>
  /\ accepted = {} /\ done = {} /\ lost = {}
  /\ extracted = [s \in Sessions |-> 0]
  /\ resent = <<>>

AtMost(n, bound) == IF n <= bound THEN n ELSE bound
SessionOf(j) == issued[j][1]

-----------------------------------------------------------------------------
(* Messages and time.                                                       *)

NewMessage(s) ==
  /\ ver[s] < MaxVer
  /\ ver' = [ver EXCEPT ![s] = @ + 1]
  /\ age' = [age EXCEPT ![s] = 0]
  /\ UNCHANGED <<ttl, scanned, listVars, enq, worker, histVars>>

\* Six hours pass.  The compensation runs every hour, so it has run before.
Tick ==
  /\ \A e \in Enqueuers : enq[e].pc = "idle"
  /\ \A e \in Crons : scanned[e]
  /\ \E s \in Sessions : age[s] < MaxSilence
  /\ age' = [s \in Sessions |-> AtMost(age[s] + 1, 4)]
  /\ ttl' = [k \in Keys |-> IF ttl[k] = 0 THEN 0 ELSE ttl[k] - 1]
  /\ scanned' = [e \in Crons |-> FALSE]
  /\ UNCHANGED <<ver, listVars, enq, worker, histVars>>

-----------------------------------------------------------------------------
(* MemoryQueueService.enqueue.                                              *)

BeginRequest(e) ==
  /\ e \in Handlers /\ enq[e].pc = "idle"
  /\ \E s \in Sessions, t \in Triggers :
       enq' = [enq EXCEPT ![e] = [IdleEnq EXCEPT !.pc = "load", !.session = s,
                                                 !.trigger = t]]
  /\ UNCHANGED <<timeVars, listVars, worker, histVars>>

\* Mutant: the bounds of the scan are the wrong way round.
IdleTooLong == {s \in Sessions : age[s] < 1 \/ age[s] >= 4}

\* lastMessageAt in (now - 24h, now - 6h].
Idle == {s \in Sessions : age[s] >= 1 /\ age[s] < 4}

\* compensateIdleSessions: no order is asked for, so any ScanTake of them.
Scan(e) ==
  /\ e \in Crons /\ enq[e].pc = "idle" /\ ~scanned[e]
  /\ \E found \in SUBSET Idle :
       /\ Cardinality(found) = AtMost(Cardinality(Idle), ScanTake)
       /\ enq' = IF found = {} THEN enq
                 ELSE [enq EXCEPT ![e] =
                         [IdleEnq EXCEPT !.pc = "load", !.trigger = "compensate",
                                         !.rows = {<<s, ver[s]>> : s \in found}]]
  /\ scanned' = [scanned EXCEPT ![e] = TRUE]
  /\ UNCHANGED <<ver, age, ttl, listVars, worker, histVars>>

\* loadActivePath: of the leaf the caller names (an older one, for a blob that
\* lags, or the one the scan read) or else of the session's present leaf.
LoadPath(e) ==
  /\ enq[e].pc = "load"
  /\ \/ /\ enq[e].trigger = "compensate"
        /\ \E row \in enq[e].rows :
             enq' = [enq EXCEPT ![e].pc = "setNx", ![e].rows = @ \ {row},
                                ![e].session = row[1], ![e].ver = row[2]]
     \/ /\ enq[e].trigger = "explicit"
        /\ enq' = [enq EXCEPT ![e].pc = "setNx", ![e].ver = ver[enq[e].session]]
     \/ /\ enq[e].trigger = "compress"
        /\ \E v \in 0..ver[enq[e].session] :
             enq' = [enq EXCEPT ![e].pc = "setNx", ![e].ver = v]
  /\ UNCHANGED <<timeVars, listVars, worker, histVars>>

DedupeKey(r) == <<r.session, r.trigger, r.ver>>

EndRow(r) == IF r.rows = {} THEN IdleEnq
             ELSE [IdleEnq EXCEPT !.pc = "load", !.trigger = r.trigger, !.rows = r.rows]

SetNx(e) ==
  /\ enq[e].pc = "setNx"
  /\ IF ttl[DedupeKey(enq[e])] > 0
     THEN /\ enq' = [enq EXCEPT ![e] = EndRow(@)]
          /\ UNCHANGED <<ttl, issued>>
     ELSE /\ Len(issued) < MaxJobs
          /\ ttl' = [ttl EXCEPT ![DedupeKey(enq[e])] = KeyTtl]
          /\ issued' = Append(issued, <<enq[e].session, enq[e].trigger, enq[e].ver>>)
          /\ enq' = [enq EXCEPT ![e].pc = "push", ![e].id = Len(issued) + 1]
  /\ UNCHANGED <<ver, age, scanned, listVars, worker, accepted, done, lost, extracted, resent>>

Lpush(j) == jobs' = <<j>> \o jobs

Push(e) ==
  /\ enq[e].pc = "push"
  /\ Lpush(enq[e].id)
  /\ accepted' = accepted \cup {enq[e].id}
  /\ enq' = [enq EXCEPT ![e] = EndRow(@)]
  /\ UNCHANGED <<timeVars, processing, worker, issued, done, lost, extracted, resent>>

\* The call throws, or its process ends; a scan gives up its other rows too.
\* An LPUSH or SET that Redis has done may be the one that throws.
EnqueueFails(e) ==
  /\ Disruptions \cap {"crash", "redis"} # {} /\ enq[e].pc # "idle"
  /\ enq' = [enq EXCEPT ![e] = IdleEnq]
  /\ \/ UNCHANGED <<ttl, jobs, accepted>>
     \/ /\ enq[e].pc = "setNx" /\ ttl[DedupeKey(enq[e])] = 0
        /\ ttl' = [ttl EXCEPT ![DedupeKey(enq[e])] = KeyTtl]
        /\ UNCHANGED <<jobs, accepted>>
     \/ /\ enq[e].pc = "push"
        /\ Lpush(enq[e].id) /\ accepted' = accepted \cup {enq[e].id}
        /\ UNCHANGED ttl
  /\ UNCHANGED <<ver, age, scanned, processing, worker, issued, done, lost, extracted,
                 resent>>

\* The connection breaks between a command Redis has done and its reply, and
\* ioredis sends the command again (autoResendUnfulfilledCommands), so that it
\* is done once more when the call goes on: a SET that finds its own key is
\* taken for a dedupe hit, and an LPUSH queues its job a second time.
EnqueueResends(e) ==
  /\ "redis" \in Disruptions
  /\ \/ /\ enq[e].pc = "setNx" /\ ttl[DedupeKey(enq[e])] = 0
        /\ ttl' = [ttl EXCEPT ![DedupeKey(enq[e])] = KeyTtl]
        /\ UNCHANGED <<jobs, accepted, resent>>
     \/ /\ enq[e].pc = "push" /\ Len(resent) < MaxResends
        /\ Lpush(enq[e].id) /\ accepted' = accepted \cup {enq[e].id}
        /\ resent' = Append(resent, enq[e].id)
        /\ UNCHANGED ttl
  /\ UNCHANGED <<ver, age, scanned, processing, enq, worker, issued, done, lost,
                 extracted>>

-----------------------------------------------------------------------------
(* MemoryWorkerService.loop.                                                *)

Goto(w, pc) == worker' = [worker EXCEPT ![w].pc = pc]
Free(w) == worker' = [worker EXCEPT ![w] = IdleWorker]

\* Mutant: BRPOP instead of BRPOPLPUSH.
PopOnly(w) ==
  /\ worker[w].pc = "idle" /\ jobs # <<>>
  /\ jobs' = SubSeq(jobs, 1, Len(jobs) - 1)
  /\ worker' = [worker EXCEPT ![w] = [pc |-> "read", job |-> jobs[Len(jobs)], seen |-> 0]]
  /\ UNCHANGED <<timeVars, processing, enq, histVars>>

\* BRPOPLPUSH moves the job at the right end.
Pop(w) ==
  /\ worker[w].pc = "idle" /\ jobs # <<>>
  /\ LET j == jobs[Len(jobs)] IN
     /\ jobs' = SubSeq(jobs, 1, Len(jobs) - 1)
     /\ processing' = [processing EXCEPT ![j] = @ + 1]
     /\ worker' = [worker EXCEPT ![w] = [pc |-> "read", job |-> j, seen |-> 0]]
  /\ UNCHANGED <<timeVars, enq, histVars>>

\* The oldest ReadTake messages; a session without any is acknowledged as is.
Read(w) ==
  /\ worker[w].pc = "read"
  /\ LET n == ver[SessionOf(worker[w].job)] IN
     worker' = [worker EXCEPT ![w].pc = IF n = 0 THEN "ack" ELSE "save",
                              ![w].seen = AtMost(n, ReadTake)]
  /\ UNCHANGED <<timeVars, listVars, enq, histVars>>

\* Extraction by the LLM, from the last 24 of the messages read, or by the
\* heuristic, from all of them, and saveExperiences.
Save(w) ==
  /\ worker[w].pc = "save" /\ SessionOf(worker[w].job) \notin Poison
  /\ extracted' = [extracted EXCEPT ![SessionOf(worker[w].job)] =
                     IF @ < worker[w].seen THEN worker[w].seen ELSE @]
  /\ Goto(w, "ack")
  /\ UNCHANGED <<timeVars, listVars, enq, issued, accepted, done, lost, resent>>

\* Mutant: a failed job is acknowledged like any other.
FailThenAck(w) ==
  /\ worker[w].pc \in {"read", "save"}
  /\ "flaky" \in Disruptions \/ SessionOf(worker[w].job) \in Poison
  /\ Goto(w, "ack")
  /\ UNCHANGED <<timeVars, listVars, enq, histVars>>

Fail(w) ==
  /\ worker[w].pc \in {"read", "save"}
  /\ "flaky" \in Disruptions \/ SessionOf(worker[w].job) \in Poison
  /\ Goto(w, "nackRem")
  /\ UNCHANGED <<timeVars, listVars, enq, histVars>>

\* Mutant: a copy is taken off whether there is one or not.
LremBlind(j) == processing' = [processing EXCEPT ![j] = @ - 1]

\* LREM of one copy, none when there is none.
Lrem(j) == processing' = [processing EXCEPT ![j] = IF @ = 0 THEN 0 ELSE @ - 1]

Ack(w) ==
  /\ worker[w].pc = "ack"
  /\ Lrem(worker[w].job)
  /\ done' = done \cup {worker[w].job}
  /\ Free(w)
  /\ UNCHANGED <<timeVars, jobs, enq, issued, accepted, lost, extracted, resent>>

\* Mutant: the job is pushed back and stays on the processing list.
NackKeep(w) ==
  /\ worker[w].pc \in {"nackRem", "nackAgain"}
  /\ Goto(w, "nackPush")
  /\ UNCHANGED <<timeVars, listVars, enq, histVars>>

\* nackRequeue is an LREM and then an LPUSH, to the end farthest from Pop.
NackRem(w) ==
  /\ worker[w].pc \in {"nackRem", "nackAgain"}
  /\ Lrem(worker[w].job)
  /\ Goto(w, "nackPush")
  /\ UNCHANGED <<timeVars, jobs, enq, histVars>>

\* Mutant: the job is pushed back where the next Pop takes it.
NackPushFront(w) ==
  /\ worker[w].pc = "nackPush"
  /\ jobs' = Append(jobs, worker[w].job)
  /\ Free(w)
  /\ UNCHANGED <<timeVars, processing, enq, histVars>>

NackPush(w) ==
  /\ worker[w].pc = "nackPush"
  /\ Lpush(worker[w].job)
  /\ Free(w)
  /\ UNCHANGED <<timeVars, processing, enq, histVars>>

\* w has taken its job off the processing list to push it back.
OffList(w) == worker[w].pc \in {"nackAgain", "nackPush"}

\* A call fails in Redis or on the way back.  A pop whose reply is lost leaves
\* the job on the processing list, whether it throws or is sent again for the
\* next job; a failed LREM of ack leads to nackRequeue,
\* so that a job already done may run again; a failure inside nackRequeue ends
\* in the outer catch of the loop.
RedisFails(w) ==
  /\ "redis" \in Disruptions
  /\ \/ /\ worker[w].pc = "idle" /\ jobs # <<>>
        /\ jobs' = SubSeq(jobs, 1, Len(jobs) - 1)
        /\ processing' = [processing EXCEPT ![jobs[Len(jobs)]] = @ + 1]
        /\ UNCHANGED <<worker, done, lost>>
     \/ /\ worker[w].pc = "ack" /\ Goto(w, "nackRem")
        /\ \/ UNCHANGED <<processing, done>>
           \/ Lrem(worker[w].job) /\ done' = done \cup {worker[w].job}
        /\ UNCHANGED <<jobs, lost>>
     \/ /\ worker[w].pc \in {"nackRem", "nackAgain"} /\ Free(w)
        /\ \/ UNCHANGED processing /\ lost' = IF OffList(w) THEN lost \cup {worker[w].job}
                                             ELSE lost
           \/ Lrem(worker[w].job) /\ lost' = lost \cup {worker[w].job}
        /\ UNCHANGED <<jobs, done>>
     \/ /\ worker[w].pc = "nackPush" /\ Free(w)
        /\ \/ Lpush(worker[w].job) /\ UNCHANGED lost
           \/ UNCHANGED jobs /\ lost' = lost \cup {worker[w].job}
        /\ UNCHANGED <<processing, done>>
  /\ UNCHANGED <<timeVars, enq, issued, accepted, extracted, resent>>

\* ioredis sends a command again that Redis has done: an LREM takes another
\* copy off the processing list if there is one, an LPUSH adds a copy.
Resends(w) ==
  /\ "redis" \in Disruptions
  /\ \/ /\ worker[w].pc = "ack"
        /\ Lrem(worker[w].job) /\ done' = done \cup {worker[w].job}
        /\ UNCHANGED <<jobs, worker, resent>>
     \/ /\ worker[w].pc \in {"nackRem", "nackAgain"}
        /\ Lrem(worker[w].job) /\ Goto(w, "nackAgain")
        /\ UNCHANGED <<jobs, done, resent>>
     \/ /\ worker[w].pc = "nackPush" /\ Len(resent) < MaxResends
        /\ Lpush(worker[w].job)
        /\ resent' = Append(resent, worker[w].job)
        /\ UNCHANGED <<processing, worker, done>>
  /\ UNCHANGED <<timeVars, enq, issued, accepted, lost, extracted>>

\* The replica ends without its shutdown hooks and starts again.  (With them,
\* onModuleDestroy waits for the loop to finish the job in hand.)
Crash(w) ==
  /\ "crash" \in Disruptions /\ worker[w].pc # "idle"
  /\ lost' = IF OffList(w) THEN lost \cup {worker[w].job} ELSE lost
  /\ Free(w)
  /\ UNCHANGED <<timeVars, listVars, enq, issued, accepted, done, extracted, resent>>

EnqStep(e) == BeginRequest(e) \/ Scan(e) \/ LoadPath(e) \/ SetNx(e) \/ Push(e)
LoopStep(w) ==
  \/ Pop(w) \/ Read(w) \/ Save(w) \/ Fail(w) \/ Ack(w) \/ NackRem(w) \/ NackPush(w)

Next ==
  \/ \E s \in Sessions : NewMessage(s)
  \/ Tick
  \/ \E e \in Enqueuers : EnqStep(e) \/ EnqueueFails(e) \/ EnqueueResends(e)
  \/ \E w \in Workers : LoopStep(w) \/ RedisFails(w) \/ Resends(w) \/ Crash(w)

Spec == Init /\ [][Next]_vars

\* Every worker loop goes on, and an extraction ends: the HTTP client gives up
\* on a silent LLM after five minutes, and then the job has failed.
FairSpec == Spec /\ \A w \in Workers : WF_vars(LoopStep(w))

-----------------------------------------------------------------------------
(* Properties.                                                              *)

EnqPcs == {"idle", "load", "setNx", "push"}
WorkerPcs == {"idle", "read", "save", "ack", "nackRem", "nackAgain", "nackPush"}

\* The shapes of the lists, the keys and the two kinds of process.
TypeOK ==
  /\ ver \in [Sessions -> Vers]
  /\ age \in [Sessions -> 0..4]
  /\ ttl \in [Keys -> 0..KeyTtl]
  /\ scanned \in [Crons -> BOOLEAN]
  /\ issued \in Seq(Keys) /\ Len(issued) <= MaxJobs
  /\ jobs \in Seq(1..Len(issued))
  /\ processing \in [JobIds -> Nat]
  /\ enq \in [Enqueuers ->
       [pc : EnqPcs, rows : SUBSET (Sessions \X Vers), session : Sessions,
        trigger : Triggers \cup {"compensate", "none"}, ver : Vers,
        id : 0..Len(issued)]]
  /\ worker \in [Workers -> [pc : WorkerPcs, job : 0..Len(issued), seen : Vers]]
  /\ accepted \subseteq 1..Len(issued)
  /\ done \subseteq 1..Len(issued)
  /\ lost \subseteq 1..Len(issued)
  /\ extracted \in [Sessions -> Vers]
  /\ resent \in Seq(1..Len(issued)) /\ Len(resent) <= MaxResends

Queued(j) == \E i \in 1..Len(jobs) : jobs[i] = j
InHand(j) == \E w \in Workers : OffList(w) /\ worker[w].job = j
Held(w) == worker[w].pc # "idle"

\* The pushes of one job that reached Redis once only put it in one place:
\* queued once, on the processing list once, or in the hands of the one worker
\* that is putting it back; two workers never run it at once, whichever calls
\* fail, whichever other commands are sent again and whichever replicas die.
PushedTwice(j) == \E i \in 1..Len(resent) : resent[i] = j
Queuings(j) == {i \in 1..Len(jobs) : jobs[i] = j}
Runners(j) == {w \in Workers : Held(w) /\ worker[w].job = j}
OnePlace ==
  \A j \in JobIds : ~PushedTwice(j) =>
    /\ \A i, k \in Queuings(j) : i = k
    /\ processing[j] <= 1
    /\ Queued(j) => processing[j] = 0
    /\ InHand(j) => ~Queued(j) /\ processing[j] = 0
    /\ \A v, w \in Runners(j) : v = w

\* A job that was pushed is done, queued, on the processing list or being put
\* back: the only way to lose one is to fail between the LREM and the LPUSH of
\* nackRequeue.
JobsConserved ==
  \A j \in accepted :
    j \in done \/ j \in lost \/ Queued(j) \/ processing[j] > 0 \/ InHand(j)

\* A job is acknowledged only after an extraction that read every message the
\* session had when the job was asked for, up to the worker's reading limit.
DoneIsExtracted ==
  \A j \in done : extracted[SessionOf(j)] >= AtMost(issued[j][3], ReadTake)

\* All replicas together compensate one state of a session at most once: its
\* key outlives the 18 hours in which the scan finds the session.
CompensatedOnce ==
  \A i, j \in 1..Len(issued) :
    issued[i] = issued[j] /\ issued[i][2] = "compensate" => i = j

\* The comment on compensateIdleSessions: a session that has been silent for
\* six hours is compensated within 24 hours of its last message.
CompensatedInTime ==
  \A s \in Sessions : age[s] = 4 =>
    \E j \in 1..Len(issued) : issued[j] = <<s, "compensate", ver[s]>>

\* A job that fails again and again does not hold up the others: every other
\* accepted job is done in the end.
GoodJobsDone ==
  \A j \in JobIds :
    (j \in accepted /\ SessionOf(j) \notin Poison) ~> (j \in done)

=============================================================================
