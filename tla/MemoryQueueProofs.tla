-------------------------- MODULE MemoryQueueProofs --------------------------
(***************************************************************************)
(* Safety of the extraction queue for any number of sessions, handlers,    *)
(* replicas and jobs, and any of the disruptions: a job none of whose      *)
(* pushes was sent again is in one place only (OnePlaceTheorem), a pushed  *)
(* job is never lost but between the two calls of nackRequeue              *)
(* (ConservedTheorem), all replicas together compensate a state of a       *)
(* session once (CompensatedTheorem), a job is acknowledged only after its *)
(* extraction (DoneTheorem), and, while the calls go through and a scan    *)
(* takes every silent session, a session is queued within a day of its     *)
(* last message (InTimeTheorem).                                           *)
(***************************************************************************)
EXTENDS MemoryQueue, FiniteSetTheorems, TLAPS

Rows == Sessions \X Vers
EnqRecs(n) ==
  [pc : EnqPcs, rows : SUBSET Rows, session : Sessions,
   trigger : Triggers \cup {"compensate", "none"}, ver : Vers, id : 0..n]
WorkerRecs(n) == [pc : WorkerPcs, job : 0..n, seen : Vers]

\* A call in progress has a trigger, one that pushes a job and a worker that
\* is not idle have a job.
InUse ==
  /\ \A e \in Enqueuers : /\ enq[e].pc # "idle" => enq[e].trigger # "none"
                          /\ enq[e].pc = "push" => enq[e].id # NoJob
  /\ \A w \in Workers : Held(w) => worker[w].job # NoJob

TimeTypes ==
  /\ ver \in [Sessions -> Vers] /\ age \in [Sessions -> 0..4]
  /\ ttl \in [Keys -> 0..KeyTtl] /\ scanned \in [Crons -> BOOLEAN]
  /\ extracted \in [Sessions -> Vers]
ListTypes ==
  /\ issued \in Seq(Keys) /\ Len(issued) <= MaxJobs
  /\ jobs \in Seq(1..Len(issued)) /\ processing \in [JobIds -> Nat]
  /\ accepted \subseteq 1..Len(issued) /\ done \subseteq 1..Len(issued)
  /\ lost \subseteq 1..Len(issued)
  /\ resent \in Seq(1..Len(issued)) /\ Len(resent) <= MaxResends
ProcTypes ==
  /\ enq \in [Enqueuers -> EnqRecs(Len(issued))]
  /\ worker \in [Workers -> WorkerRecs(Len(issued))]

TypeInv == TimeTypes /\ ListTypes /\ ProcTypes /\ InUse

LEMMA TypeParts == TypeInv => TypeOK
BY DEF TypeInv, InUse, TypeOK, TimeTypes, ListTypes, ProcTypes, EnqRecs, WorkerRecs, Rows

LEMMA Consts ==
  /\ Sessions # {} /\ ReadTake \in Nat \ {0} /\ ScanTake \in Nat \ {0}
  /\ MaxVer \in Nat /\ MaxJobs \in Nat /\ MaxResends \in Nat /\ KeyTtl = 4 /\ NoJob = 0
BY QueueAssumption DEF KeyTtl, NoJob

LEMMA IdleShapes ==
  ASSUME NEW n \in Nat
  PROVE  /\ IdleEnq \in EnqRecs(n) /\ IdleEnq.pc = "idle" /\ IdleEnq.id = 0
         /\ IdleEnq.rows = {}
         /\ IdleWorker \in WorkerRecs(n) /\ IdleWorker.pc = "idle"
BY Consts DEF IdleEnq, IdleWorker, EnqRecs, WorkerRecs, EnqPcs, WorkerPcs, NoJob, Vers

\* What an enqueue call goes on with is of the right shape.
LEMMA EnqRecStep ==
  ASSUME NEW n \in Nat, NEW m \in Nat, n <= m, NEW r \in EnqRecs(n)
  PROVE  r \in EnqRecs(m)
BY DEF EnqRecs

LEMMA WorkerRecStep ==
  ASSUME NEW n \in Nat, NEW m \in Nat, n <= m, NEW r \in WorkerRecs(n)
  PROVE  r \in WorkerRecs(m)
BY DEF WorkerRecs

LEMMA EndRowShape ==
  ASSUME NEW n \in Nat, NEW r \in EnqRecs(n), r.trigger # "none"
  PROVE  /\ EndRow(r) \in EnqRecs(n) /\ EndRow(r).id = 0
         /\ EndRow(r).pc \in {"idle", "load"}
         /\ EndRow(r).pc # "idle" => EndRow(r).trigger = r.trigger
         /\ EndRow(r).pc # "idle" => EndRow(r).rows = r.rows
<1>1. CASE r.rows = {}
  BY <1>1, IdleShapes DEF EndRow
<1>2. CASE r.rows # {}
  BY <1>2, IdleShapes DEF EndRow, EnqRecs, EnqPcs, IdleEnq
<1> QED
  BY <1>1, <1>2

LEMMA SeqGrows ==
  ASSUME NEW S, NEW T, S \subseteq T, NEW s \in Seq(S)
  PROVE  s \in Seq(T)
OBVIOUS

-----------------------------------------------------------------------------
(* Types.                                                                   *)

\* An enqueue call goes on as r and nothing is issued.
LEMMA EnqMoves ==
  ASSUME TypeInv, NEW e \in Enqueuers, NEW r \in EnqRecs(Len(issued)),
         enq' = [enq EXCEPT ![e] = r], UNCHANGED <<issued, worker>>,
         r.pc # "idle" => r.trigger # "none", r.pc = "push" => r.id # NoJob
  PROVE  ProcTypes' /\ InUse'
<1>1. ProcTypes'
  BY DEF TypeInv, ProcTypes
<1>2. InUse'
  <2>1. \A d \in Enqueuers : enq'[d] = IF d = e THEN r ELSE enq[d]
    BY DEF TypeInv, ProcTypes
  <2> QED
    BY <2>1 DEF TypeInv, InUse, Held
<1> QED
  BY <1>1, <1>2

LEMMA WorkerMoves ==
  ASSUME TypeInv, NEW w \in Workers, NEW r \in WorkerRecs(Len(issued)),
         worker' = [worker EXCEPT ![w] = r], UNCHANGED <<issued, enq>>,
         r.pc # "idle" => r.job # NoJob
  PROVE  ProcTypes' /\ InUse'
<1>1. ProcTypes'
  BY DEF TypeInv, ProcTypes
<1>2. InUse'
  <2>1. \A v \in Workers : worker'[v] = IF v = w THEN r ELSE worker[v]
    BY DEF TypeInv, ProcTypes
  <2> QED
    BY <2>1 DEF TypeInv, InUse, Held
<1> QED
  BY <1>1, <1>2

\* A worker that goes on or ends keeps its shape.
LEMMA WorkerGoes ==
  ASSUME TypeInv, NEW w \in Workers, UNCHANGED <<issued, enq>>,
         \/ Free(w)
         \/ \E pc \in WorkerPcs : Held(w) /\ Goto(w, pc)
  PROVE  ProcTypes' /\ InUse'
<1>0. worker[w] \in WorkerRecs(Len(issued)) /\ Len(issued) \in Nat
  BY DEF TypeInv, ProcTypes, ListTypes
<1>1. CASE Free(w)
  BY <1>0, <1>1, IdleShapes, WorkerMoves DEF Free
<1>2. ASSUME NEW pc \in WorkerPcs, Held(w), Goto(w, pc) PROVE ProcTypes' /\ InUse'
  <2> DEFINE r == [worker[w] EXCEPT !.pc = pc]
  <2>1. r \in WorkerRecs(Len(issued)) /\ r.job = worker[w].job
    BY <1>0 DEF WorkerRecs
  <2>2. worker' = [worker EXCEPT ![w] = r]
    BY <1>2 DEF Goto
  <2>3. r.job # NoJob
    BY <1>2, <2>1 DEF TypeInv, InUse
  <2> HIDE DEF r
  <2> QED
    BY <2>1, <2>2, <2>3, WorkerMoves
<1> QED
  BY <1>1, <1>2

LEMMA JobInHand ==
  ASSUME TypeInv, NEW w \in Workers, Held(w)
  PROVE  worker[w].job \in 1..Len(issued) /\ worker[w].job \in JobIds
BY Consts DEF TypeInv, InUse, ProcTypes, ListTypes, WorkerRecs, JobIds, NoJob

LEMMA JobToPush ==
  ASSUME TypeInv, NEW e \in Enqueuers, enq[e].pc = "push"
  PROVE  enq[e].id \in 1..Len(issued) /\ enq[e].id \in JobIds
BY Consts DEF TypeInv, InUse, ProcTypes, ListTypes, EnqRecs, JobIds, NoJob

LEMMA LpushType ==
  ASSUME ListTypes, NEW j \in 1..Len(issued), Lpush(j)
  PROVE  jobs' \in Seq(1..Len(issued))
BY DEF ListTypes, Lpush

LEMMA ResentType ==
  ASSUME ListTypes, NEW j \in 1..Len(issued), Len(resent) < MaxResends,
         resent' = Append(resent, j)
  PROVE  resent' \in Seq(1..Len(issued)) /\ Len(resent') <= MaxResends
BY Consts DEF ListTypes

LEMMA LremType ==
  ASSUME ListTypes, NEW j \in JobIds, Lrem(j)
  PROVE  processing' \in [JobIds -> Nat]
BY DEF ListTypes, Lrem

LEMMA PopType ==
  ASSUME ListTypes, jobs # <<>>,
         jobs' = SubSeq(jobs, 1, Len(jobs) - 1),
         processing' = [processing EXCEPT ![jobs[Len(jobs)]] = @ + 1]
  PROVE  /\ jobs' \in Seq(1..Len(issued)) /\ processing' \in [JobIds -> Nat]
         /\ jobs[Len(jobs)] \in 1..Len(issued) /\ jobs[Len(jobs)] \in JobIds
<1>1. Len(jobs) \in Nat \ {0} /\ jobs[Len(jobs)] \in 1..Len(issued)
  BY DEF ListTypes
<1>2. jobs[Len(jobs)] \in JobIds
  BY <1>1, Consts DEF ListTypes, JobIds
<1>3. jobs' \in Seq(1..Len(issued))
  BY <1>1 DEF ListTypes
<1> QED
  BY <1>1, <1>2, <1>3 DEF ListTypes

\* What the enqueue calls leave alone, and what the workers do.
LEMMA EnqStepTypes ==
  ASSUME TypeInv, NEW e \in Enqueuers, EnqStep(e) \/ EnqueueFails(e) \/ EnqueueResends(e)
  PROVE  TypeInv'
<1> USE DEF TypeInv
<1>0. /\ TimeTypes /\ ListTypes /\ ProcTypes /\ InUse /\ Len(issued) \in Nat
      /\ enq[e] \in EnqRecs(Len(issued))
  BY DEF ListTypes, ProcTypes
<1>1. CASE BeginRequest(e)
  <2>1. PICK s \in Sessions, t \in Triggers :
          enq' = [enq EXCEPT ![e] = [IdleEnq EXCEPT !.pc = "load", !.session = s,
                                                    !.trigger = t]]
    BY <1>1 DEF BeginRequest
  <2> DEFINE r == [IdleEnq EXCEPT !.pc = "load", !.session = s, !.trigger = t]
  <2>2. r \in EnqRecs(Len(issued)) /\ r.pc = "load" /\ r.trigger = t
    BY <1>0, IdleShapes DEF EnqRecs, EnqPcs
  <2>3. t # "none"
    BY QueueAssumption
  <2> HIDE DEF r
  <2>4. ProcTypes' /\ InUse'
    BY <1>1, <2>1, <2>2, <2>3, EnqMoves DEF BeginRequest, histVars, r
  <2>5. TimeTypes' /\ ListTypes'
    BY <1>0, <1>1, SMTT(30) DEF BeginRequest, timeVars, listVars, histVars, TimeTypes, ListTypes
  <2> QED
    BY <2>4, <2>5
<1>2. CASE Scan(e)
  <2>1. PICK found \in SUBSET Idle :
          enq' = IF found = {} THEN enq
                 ELSE [enq EXCEPT ![e] =
                         [IdleEnq EXCEPT !.pc = "load", !.trigger = "compensate",
                                         !.rows = {<<s, ver[s]>> : s \in found}]]
    BY <1>2 DEF Scan
  <2>2. {<<s, ver[s]>> : s \in found} \in SUBSET Rows
    BY <1>0 DEF Rows, TimeTypes, Idle
  <2> DEFINE rows == {<<s, ver[s]>> : s \in found}
             r == [IdleEnq EXCEPT !.pc = "load", !.trigger = "compensate", !.rows = rows]
  <2> HIDE DEF rows
  <2>3. r \in EnqRecs(Len(issued)) /\ r.pc = "load" /\ r.trigger = "compensate"
    BY <1>0, <2>2, IdleShapes DEF EnqRecs, EnqPcs, rows
  <2>4. ProcTypes' /\ InUse'
    <3>1. CASE found = {}
      BY <1>0, <1>2, <2>1, <3>1 DEF Scan, histVars, ProcTypes, InUse, Held
    <3>2. CASE found # {}
      <4>1. enq' = [enq EXCEPT ![e] = r]
        BY <2>1, <3>2 DEF rows
      <4> HIDE DEF r
      <4> QED
        BY <1>2, <2>3, <4>1, EnqMoves DEF Scan, histVars
    <3> QED
      BY <3>1, <3>2
  <2>5. TimeTypes' /\ ListTypes'
    BY <1>0, <1>2 DEF Scan, listVars, histVars, TimeTypes, ListTypes
  <2> QED
    BY <2>4, <2>5
<1>3. CASE LoadPath(e)
  <2>1. TimeTypes' /\ ListTypes'
    BY <1>0, <1>3 DEF LoadPath, timeVars, listVars, histVars, TimeTypes, ListTypes
  <2>2. enq[e].trigger # "none"
    BY <1>0, <1>3 DEF LoadPath, InUse
  <2>3. PICK r : /\ r \in EnqRecs(Len(issued)) /\ r.pc = "setNx"
                 /\ r.trigger = enq[e].trigger /\ enq' = [enq EXCEPT ![e] = r]
    <3>1. ASSUME NEW row \in enq[e].rows,
                 enq' = [enq EXCEPT ![e].pc = "setNx", ![e].rows = @ \ {row},
                                    ![e].session = row[1], ![e].ver = row[2]]
          PROVE  \E r : /\ r \in EnqRecs(Len(issued)) /\ r.pc = "setNx"
                        /\ r.trigger = enq[e].trigger /\ enq' = [enq EXCEPT ![e] = r]
      <4> DEFINE r == [enq[e] EXCEPT !.pc = "setNx", !.rows = @ \ {row},
                                     !.session = row[1], !.ver = row[2]]
      <4>1. row[1] \in Sessions /\ row[2] \in Vers
        BY <1>0 DEF EnqRecs, Rows
      <4>2. enq[e].rows \ {row} \in SUBSET Rows
        BY <1>0 DEF EnqRecs
      <4>3. r \in EnqRecs(Len(issued)) /\ r.pc = "setNx" /\ r.trigger = enq[e].trigger
        BY <1>0, <4>1, <4>2 DEF EnqRecs, EnqPcs
      <4>4. enq' = [enq EXCEPT ![e] = r]
        BY <1>0, <3>1 DEF ProcTypes
      <4> QED
        BY <4>3, <4>4
    <3>2. ASSUME NEW v \in 0..ver[enq[e].session],
                 enq' = [enq EXCEPT ![e].pc = "setNx", ![e].ver = v]
          PROVE  \E r : /\ r \in EnqRecs(Len(issued)) /\ r.pc = "setNx"
                        /\ r.trigger = enq[e].trigger /\ enq' = [enq EXCEPT ![e] = r]
      <4> DEFINE r == [enq[e] EXCEPT !.pc = "setNx", !.ver = v]
      <4>1. v \in Vers
        <5>1. ver[enq[e].session] \in Vers
          BY <1>0 DEF EnqRecs, TimeTypes
        <5> QED
          BY <5>1, Consts DEF Vers
      <4>3. r \in EnqRecs(Len(issued)) /\ r.pc = "setNx" /\ r.trigger = enq[e].trigger
        BY <1>0, <4>1 DEF EnqRecs, EnqPcs
      <4>4. enq' = [enq EXCEPT ![e] = r]
        BY <1>0, <3>2 DEF ProcTypes
      <4> QED
        BY <4>3, <4>4
    <3>3. ver[enq[e].session] \in 0..ver[enq[e].session]
      BY <1>0, Consts DEF EnqRecs, TimeTypes, Vers
    <3> QED
      BY <1>3, <3>1, <3>2, <3>3 DEF LoadPath
  <2>4. ProcTypes' /\ InUse'
    BY <1>3, <2>2, <2>3, EnqMoves DEF LoadPath, histVars
  <2> QED
    BY <2>1, <2>4
<1>4. CASE SetNx(e)
  <2>0. /\ DedupeKey(enq[e]) \in Keys /\ Len(issued) \in Nat
        /\ enq[e].trigger # "none"
    BY <1>0, <1>4 DEF SetNx, DedupeKey, EnqRecs, Keys, InUse
  <2>1. CASE ttl[DedupeKey(enq[e])] > 0
    <3>1. /\ EndRow(enq[e]) \in EnqRecs(Len(issued))
          /\ EndRow(enq[e]).pc \in {"idle", "load"}
          /\ EndRow(enq[e]).pc # "idle" => EndRow(enq[e]).trigger # "none"
      BY <1>0, <2>0, EndRowShape
    <3>2. enq' = [enq EXCEPT ![e] = EndRow(enq[e])] /\ UNCHANGED <<ttl, issued>>
      BY <1>4, <2>1 DEF SetNx
    <3>3. ProcTypes' /\ InUse'
      BY <1>4, <3>1, <3>2, EnqMoves DEF SetNx
    <3>4. TimeTypes' /\ ListTypes'
      BY <1>0, <1>4, <3>2 DEF SetNx, listVars, TimeTypes, ListTypes
    <3> QED
      BY <3>3, <3>4
  <2>2. CASE ~(ttl[DedupeKey(enq[e])] > 0)
    <3> DEFINE key == DedupeKey(enq[e])
               row == <<enq[e].session, enq[e].trigger, enq[e].ver>>
               r == [enq[e] EXCEPT !.pc = "push", !.id = Len(issued) + 1]
    <3>1. /\ Len(issued) < MaxJobs /\ ttl' = [ttl EXCEPT ![key] = KeyTtl]
          /\ issued' = Append(issued, row)
      BY <1>4, <2>2 DEF SetNx
    <3>2. enq' = [enq EXCEPT ![e] = r]
      BY <1>0, <1>4, <2>2 DEF SetNx, ProcTypes
    <3>3. row \in Keys /\ key \in Keys
      BY <2>0 DEF DedupeKey
    <3> HIDE DEF row, key
    <3>4. /\ issued' \in Seq(Keys) /\ Len(issued') = Len(issued) + 1
          /\ Len(issued') \in Nat
      BY <1>0, <3>1, <3>3 DEF ListTypes
    <3>5. jobs' \in Seq(1..Len(issued'))
      <4>1. 1..Len(issued) \subseteq 1..Len(issued')
        BY <1>0, <3>4
      <4> QED
        BY <1>0, <1>4, <4>1, SeqGrows DEF SetNx, listVars, ListTypes
    <3>11. resent' \in Seq(1..Len(issued')) /\ Len(resent') <= MaxResends
      <4>1. 1..Len(issued) \subseteq 1..Len(issued')
        BY <1>0, <3>4
      <4>2. resent' = resent
        BY <1>4 DEF SetNx
      <4> QED
        BY <1>0, <4>1, <4>2, SeqGrows DEF ListTypes
    <3>6. ListTypes'
      BY <1>0, <1>4, <3>1, <3>4, <3>5, <3>11, Consts DEF SetNx, listVars, ListTypes
    <3>7. TimeTypes'
      BY <1>0, <1>4, <3>1, <3>3, Consts DEF SetNx, TimeTypes
    <3>8. r \in EnqRecs(Len(issued')) /\ r.pc = "push" /\ r.id = Len(issued) + 1
          /\ r.trigger = enq[e].trigger
      <4>1. enq[e] \in EnqRecs(Len(issued'))
        BY <1>0, <3>4, EnqRecStep
      <4>2. Len(issued) + 1 \in 0..Len(issued')
        BY <1>0, <3>4
      <4> QED
        BY <4>1, <4>2 DEF EnqRecs, EnqPcs
    <3> HIDE DEF r
    <3>9. ProcTypes'
      <4>1. \A d \in Enqueuers : enq[d] \in EnqRecs(Len(issued'))
        BY <1>0, <3>4, EnqRecStep DEF ProcTypes
      <4>2. \A v \in Workers : worker[v] \in WorkerRecs(Len(issued'))
        BY <1>0, <3>4, WorkerRecStep DEF ProcTypes
      <4>3. enq' \in [Enqueuers -> EnqRecs(Len(issued'))]
        BY <1>0, <3>2, <3>8, <4>1 DEF ProcTypes
      <4>4. worker' \in [Workers -> WorkerRecs(Len(issued'))]
        BY <1>0, <1>4, <4>2 DEF SetNx, ProcTypes
      <4> QED
        BY <4>3, <4>4 DEF ProcTypes
    <3>10. InUse'
      <4>1. \A d \in Enqueuers : enq'[d] = IF d = e THEN r ELSE enq[d]
        BY <1>0, <3>2 DEF ProcTypes
      <4>2. worker' = worker
        BY <1>4 DEF SetNx
      <4> QED
        BY <1>0, <2>0, <3>8, <4>1, <4>2, Consts DEF InUse, Held
    <3> QED
      BY <3>6, <3>7, <3>9, <3>10
  <2> QED
    BY <2>1, <2>2
<1>5. CASE Push(e)
  <2>1. enq[e].id \in 1..Len(issued) /\ enq[e].trigger # "none"
    BY <1>0, <1>5, JobToPush DEF Push, InUse
  <2>2. /\ EndRow(enq[e]) \in EnqRecs(Len(issued))
        /\ EndRow(enq[e]).pc \in {"idle", "load"}
        /\ EndRow(enq[e]).pc # "idle" => EndRow(enq[e]).trigger # "none"
    BY <1>0, <2>1, EndRowShape
  <2>3. enq' = [enq EXCEPT ![e] = EndRow(enq[e])]
    BY <1>5 DEF Push
  <2>4. ProcTypes' /\ InUse'
    BY <1>5, <2>2, <2>3, EnqMoves DEF Push
  <2>5. jobs' \in Seq(1..Len(issued))
    BY <1>0, <1>5, <2>1, LpushType DEF Push
  <2>6. TimeTypes' /\ ListTypes'
    BY <1>0, <1>5, <2>1, <2>5 DEF Push, timeVars, TimeTypes, ListTypes
  <2> QED
    BY <2>4, <2>6
<1>6. CASE EnqueueFails(e)
  <2>1. ProcTypes' /\ InUse'
    BY <1>0, <1>6, IdleShapes, EnqMoves DEF EnqueueFails
  <2>2. CASE UNCHANGED <<ttl, jobs, accepted>>
    BY <1>0, <1>6, <2>1, <2>2 DEF EnqueueFails, TimeTypes, ListTypes
  <2>3. CASE /\ enq[e].pc = "setNx" /\ ttl[DedupeKey(enq[e])] = 0
             /\ ttl' = [ttl EXCEPT ![DedupeKey(enq[e])] = KeyTtl]
             /\ UNCHANGED <<jobs, accepted>>
    <3>1. ttl' \in [Keys -> 0..KeyTtl]
      <4>1. KeyTtl \in 0..KeyTtl
        BY Consts
      <4> QED
        BY <1>0, <2>3, <4>1 DEF TimeTypes
    <3> QED
      BY <1>0, <1>6, <2>1, <2>3, <3>1 DEF EnqueueFails, TimeTypes, ListTypes
  <2>4. CASE /\ enq[e].pc = "push"
             /\ Lpush(enq[e].id) /\ accepted' = accepted \cup {enq[e].id}
             /\ UNCHANGED ttl
    <3>1. enq[e].id \in 1..Len(issued)
      BY <2>4, JobToPush
    <3>2. jobs' \in Seq(1..Len(issued))
      BY <1>0, <2>4, <3>1, LpushType
    <3> QED
      BY <1>0, <1>6, <2>1, <2>4, <3>1, <3>2 DEF EnqueueFails, TimeTypes, ListTypes
  <2> QED
    BY <1>6, <2>2, <2>3, <2>4 DEF EnqueueFails
<1>7. CASE EnqueueResends(e)
  <2>0. UNCHANGED <<ver, age, scanned, processing, enq, worker, issued, done, lost,
                    extracted>>
    BY <1>7 DEF EnqueueResends
  <2>1. ProcTypes' /\ InUse'
    BY <1>0, <2>0 DEF ProcTypes, InUse, Held
  <2>2. CASE /\ ttl' = [ttl EXCEPT ![DedupeKey(enq[e])] = KeyTtl]
             /\ UNCHANGED <<jobs, accepted, resent>>
    <3>1. ttl' \in [Keys -> 0..KeyTtl]
      <4>1. KeyTtl \in 0..KeyTtl
        BY Consts
      <4> QED
        BY <1>0, <2>2, <4>1 DEF TimeTypes
    <3> QED
      BY <1>0, <2>0, <2>1, <2>2, <3>1 DEF TimeTypes, ListTypes
  <2>3. CASE /\ enq[e].pc = "push" /\ Len(resent) < MaxResends
             /\ Lpush(enq[e].id) /\ accepted' = accepted \cup {enq[e].id}
             /\ resent' = Append(resent, enq[e].id)
             /\ UNCHANGED ttl
    <3>1. PICK j \in 1..Len(issued) : j = enq[e].id
      BY <2>3, JobToPush
    <3>2. jobs' \in Seq(1..Len(issued))
      BY <1>0, <2>3, <3>1, LpushType
    <3>3. resent' \in Seq(1..Len(issued)) /\ Len(resent') <= MaxResends
      BY <1>0, <2>3, <3>1, ResentType
    <3> QED
      BY <1>0, <2>0, <2>1, <2>3, <3>1, <3>2, <3>3 DEF TimeTypes, ListTypes
  <2> QED
    BY <1>7, <2>2, <2>3 DEF EnqueueResends
<1> QED
  BY <1>1, <1>2, <1>3, <1>4, <1>5, <1>6, <1>7 DEF EnqStep

LEMMA WorkerStepTypes ==
  ASSUME TypeInv, NEW w \in Workers, LoopStep(w) \/ RedisFails(w) \/ Resends(w) \/ Crash(w)
  PROVE  TypeInv'
<1> USE DEF TypeInv
<1>0. /\ TimeTypes /\ ListTypes /\ ProcTypes /\ InUse /\ Len(issued) \in Nat
      /\ worker[w] \in WorkerRecs(Len(issued))
      /\ \A pc \in {"ack", "nackRem", "nackAgain", "nackPush"} : pc \in WorkerPcs
  BY DEF ListTypes, ProcTypes, WorkerPcs
<1>1. CASE Pop(w)
  <2> DEFINE j == jobs[Len(jobs)]
             r == [pc |-> "read", job |-> j, seen |-> 0]
  <2>1. /\ jobs # <<>> /\ jobs' = SubSeq(jobs, 1, Len(jobs) - 1)
        /\ processing' = [processing EXCEPT ![jobs[Len(jobs)]] = @ + 1]
        /\ worker' = [worker EXCEPT ![w] = r]
    BY <1>1 DEF Pop
  <2>2. /\ jobs' \in Seq(1..Len(issued)) /\ processing' \in [JobIds -> Nat]
        /\ j \in 1..Len(issued)
    BY <1>0, <2>1, PopType
  <2>3. TimeTypes' /\ ListTypes'
    BY <1>0, <1>1, <2>2 DEF Pop, timeVars, histVars, TimeTypes, ListTypes
  <2> HIDE DEF j
  <2>4. r \in WorkerRecs(Len(issued)) /\ r.job # NoJob
    BY <2>2, Consts DEF WorkerRecs, WorkerPcs, Vers
  <2>5. ProcTypes' /\ InUse'
    BY <1>1, <2>1, <2>4, WorkerMoves DEF Pop, histVars
  <2> QED
    BY <2>3, <2>5
<1>2. CASE Read(w)
  <2>1. worker[w].job \in 1..Len(issued)
    BY <1>2, JobInHand DEF Read, Held
  <2>2. issued[worker[w].job] \in Keys
    BY <1>0, <2>1 DEF ListTypes
  <2>3. SessionOf(worker[w].job) \in Sessions
    BY <2>2 DEF SessionOf, Keys
  <2> DEFINE n == ver[SessionOf(worker[w].job)]
             pc == IF n = 0 THEN "ack" ELSE "save"
             seen == AtMost(n, ReadTake)
             r == [worker[w] EXCEPT !.pc = pc, !.seen = seen]
  <2>4. n \in Vers
    BY <1>0, <2>3 DEF TimeTypes
  <2>5. worker' = [worker EXCEPT ![w] = r]
    BY <1>0, <1>2 DEF Read, ProcTypes
  <2> HIDE DEF n
  <2>6. seen \in Vers /\ pc \in WorkerPcs
    BY <2>4, Consts DEF AtMost, Vers, WorkerPcs
  <2> HIDE DEF pc, seen
  <2>7. r \in WorkerRecs(Len(issued)) /\ r.job = worker[w].job
    BY <1>0, <2>6 DEF WorkerRecs
  <2> HIDE DEF r
  <2>8. ProcTypes' /\ InUse'
    <3>1. r.job # NoJob
      BY <2>1, <2>7, Consts
    <3> QED
      BY <1>2, <2>5, <2>7, <3>1, WorkerMoves DEF Read, histVars
  <2>9. TimeTypes' /\ ListTypes'
    BY <1>0, <1>2 DEF Read, timeVars, listVars, histVars, TimeTypes, ListTypes
  <2> QED
    BY <2>8, <2>9
<1>3. CASE Save(w)
  <2>1. ProcTypes' /\ InUse'
    BY <1>0, <1>3, WorkerGoes DEF Save, Held
  <2>2. worker[w].seen \in Vers
    BY <1>0 DEF WorkerRecs
  <2>3. extracted' \in [Sessions -> Vers]
    BY <1>0, <1>3, <2>2 DEF Save, TimeTypes
  <2>4. TimeTypes' /\ ListTypes'
    BY <1>0, <1>3, <2>3 DEF Save, timeVars, listVars, TimeTypes, ListTypes
  <2> QED
    BY <2>1, <2>4
<1>4. CASE Fail(w)
  <2>1. ProcTypes' /\ InUse'
    BY <1>0, <1>4, WorkerGoes DEF Fail, Held, histVars
  <2>2. TimeTypes' /\ ListTypes'
    BY <1>0, <1>4 DEF Fail, timeVars, listVars, histVars, TimeTypes, ListTypes
  <2> QED
    BY <2>1, <2>2
<1>5. CASE Ack(w)
  <2>1. ProcTypes' /\ InUse'
    BY <1>5, WorkerGoes DEF Ack
  <2>2. worker[w].job \in 1..Len(issued) /\ worker[w].job \in JobIds
    BY <1>5, JobInHand DEF Ack, Held
  <2>3. processing' \in [JobIds -> Nat]
    BY <1>0, <1>5, <2>2, LremType DEF Ack
  <2>4. TimeTypes' /\ ListTypes'
    BY <1>0, <1>5, <2>2, <2>3 DEF Ack, timeVars, TimeTypes, ListTypes
  <2> QED
    BY <2>1, <2>4
<1>6. CASE NackRem(w)
  <2>1. ProcTypes' /\ InUse'
    BY <1>0, <1>6, WorkerGoes DEF NackRem, Held, histVars
  <2>2. worker[w].job \in JobIds
    BY <1>6, JobInHand DEF NackRem, Held
  <2>3. processing' \in [JobIds -> Nat]
    BY <1>0, <1>6, <2>2, LremType DEF NackRem
  <2>4. TimeTypes' /\ ListTypes'
    BY <1>0, <1>6, <2>3 DEF NackRem, timeVars, histVars, TimeTypes, ListTypes
  <2> QED
    BY <2>1, <2>4
<1>7. CASE NackPush(w)
  <2>1. ProcTypes' /\ InUse'
    BY <1>7, WorkerGoes DEF NackPush, histVars
  <2>2. worker[w].job \in 1..Len(issued)
    BY <1>7, JobInHand DEF NackPush, Held
  <2>3. jobs' \in Seq(1..Len(issued))
    BY <1>0, <1>7, <2>2, LpushType DEF NackPush
  <2>4. TimeTypes' /\ ListTypes'
    BY <1>0, <1>7, <2>3 DEF NackPush, timeVars, histVars, TimeTypes, ListTypes
  <2> QED
    BY <2>1, <2>4
<1>8. CASE RedisFails(w)
  <2>0. TimeTypes' /\ UNCHANGED <<issued, accepted, enq, resent>>
    BY <1>0, <1>8 DEF RedisFails, timeVars, TimeTypes
  <2>1. CASE /\ worker[w].pc = "idle" /\ jobs # <<>>
             /\ jobs' = SubSeq(jobs, 1, Len(jobs) - 1)
             /\ processing' = [processing EXCEPT ![jobs[Len(jobs)]] = @ + 1]
             /\ UNCHANGED <<worker, done, lost>>
    <3>1. jobs' \in Seq(1..Len(issued)) /\ processing' \in [JobIds -> Nat]
      BY <1>0, <2>1, PopType
    <3> QED
      BY <1>0, <2>0, <2>1, <3>1 DEF ListTypes, ProcTypes, InUse, Held
  <2>2. CASE /\ worker[w].pc = "ack" /\ Goto(w, "nackRem")
             /\ \/ UNCHANGED <<processing, done>>
                \/ Lrem(worker[w].job) /\ done' = done \cup {worker[w].job}
             /\ UNCHANGED <<jobs, lost>>
    <3>1. ProcTypes' /\ InUse'
      BY <1>0, <2>0, <2>2, WorkerGoes DEF Held
    <3>2. worker[w].job \in 1..Len(issued) /\ worker[w].job \in JobIds
      BY <2>2, JobInHand DEF Held
    <3>3. processing' \in [JobIds -> Nat] /\ done' \subseteq 1..Len(issued)
      BY <1>0, <2>2, <3>2, LremType DEF ListTypes
    <3> QED
      BY <1>0, <2>0, <2>2, <3>1, <3>3 DEF ListTypes
  <2>3. CASE /\ worker[w].pc \in {"nackRem", "nackAgain"} /\ Free(w)
             /\ \/ UNCHANGED processing /\ lost' = IF OffList(w) THEN lost \cup {worker[w].job}
                                                  ELSE lost
                \/ Lrem(worker[w].job) /\ lost' = lost \cup {worker[w].job}
             /\ UNCHANGED <<jobs, done>>
    <3>1. ProcTypes' /\ InUse'
      BY <2>0, <2>3, WorkerGoes
    <3>2. worker[w].job \in 1..Len(issued) /\ worker[w].job \in JobIds
      BY <2>3, JobInHand DEF Held
    <3>3. processing' \in [JobIds -> Nat] /\ lost' \subseteq 1..Len(issued)
      BY <1>0, <2>3, <3>2, LremType DEF ListTypes
    <3> QED
      BY <1>0, <2>0, <2>3, <3>1, <3>3 DEF ListTypes
  <2>4. CASE /\ worker[w].pc = "nackPush" /\ Free(w)
             /\ \/ Lpush(worker[w].job) /\ UNCHANGED lost
                \/ UNCHANGED jobs /\ lost' = lost \cup {worker[w].job}
             /\ UNCHANGED <<processing, done>>
    <3>1. ProcTypes' /\ InUse'
      BY <2>0, <2>4, WorkerGoes
    <3>2. worker[w].job \in 1..Len(issued)
      BY <2>4, JobInHand DEF Held
    <3>3. jobs' \in Seq(1..Len(issued)) /\ lost' \subseteq 1..Len(issued)
      BY <1>0, <2>4, <3>2, LpushType DEF ListTypes
    <3> QED
      BY <1>0, <2>0, <2>4, <3>1, <3>3 DEF ListTypes
  <2> QED
    BY <1>8, <2>1, <2>2, <2>3, <2>4 DEF RedisFails
<1>10. CASE Resends(w)
  <2>0. TimeTypes' /\ UNCHANGED <<issued, accepted, enq, lost>>
    BY <1>0, <1>10 DEF Resends, timeVars, TimeTypes
  <2>1. PICK j \in 1..Len(issued) : j = worker[w].job /\ j \in JobIds /\ Held(w)
    BY <1>10, JobInHand DEF Resends, Held
  <2>2. CASE /\ worker[w].pc = "ack"
             /\ Lrem(worker[w].job) /\ done' = done \cup {worker[w].job}
             /\ UNCHANGED <<jobs, worker, resent>>
    <3>1. processing' \in [JobIds -> Nat] /\ done' \subseteq 1..Len(issued)
      BY <1>0, <2>1, <2>2, LremType DEF ListTypes
    <3> QED
      BY <1>0, <2>0, <2>2, <3>1 DEF ListTypes, ProcTypes, InUse, Held
  <2>3. CASE /\ Lrem(worker[w].job) /\ Goto(w, "nackAgain")
             /\ UNCHANGED <<jobs, done, resent>>
    <3>1. ProcTypes' /\ InUse'
      BY <1>0, <2>0, <2>1, <2>3, WorkerGoes
    <3>2. processing' \in [JobIds -> Nat]
      BY <1>0, <2>1, <2>3, LremType
    <3> QED
      BY <1>0, <2>0, <2>3, <3>1, <3>2 DEF ListTypes
  <2>4. CASE /\ worker[w].pc = "nackPush" /\ Len(resent) < MaxResends
             /\ Lpush(worker[w].job)
             /\ resent' = Append(resent, worker[w].job)
             /\ UNCHANGED <<processing, worker, done>>
    <3>1. jobs' \in Seq(1..Len(issued))
      BY <1>0, <2>1, <2>4, LpushType
    <3>2. resent' \in Seq(1..Len(issued)) /\ Len(resent') <= MaxResends
      BY <1>0, <2>1, <2>4, ResentType
    <3> QED
      BY <1>0, <2>0, <2>4, <3>1, <3>2 DEF ListTypes, ProcTypes, InUse, Held
  <2> QED
    BY <1>10, <2>2, <2>3, <2>4 DEF Resends
<1>9. CASE Crash(w)
  <2>1. ProcTypes' /\ InUse'
    BY <1>9, WorkerGoes DEF Crash
  <2>2. worker[w].job \in 1..Len(issued)
    BY <1>9, JobInHand DEF Crash, Held
  <2>3. TimeTypes' /\ ListTypes'
    BY <1>0, <1>9, <2>2 DEF Crash, timeVars, listVars, TimeTypes, ListTypes
  <2> QED
    BY <2>1, <2>3
<1> QED
  BY <1>1, <1>2, <1>3, <1>4, <1>5, <1>6, <1>7, <1>8, <1>9, <1>10 DEF LoopStep

LEMMA TimeStepTypes ==
  ASSUME TypeInv, (\E s \in Sessions : NewMessage(s)) \/ Tick \/ UNCHANGED vars
  PROVE  TypeInv'
<1>1. ASSUME NEW s \in Sessions, NewMessage(s) PROVE TimeTypes'
  BY <1>1, Consts DEF NewMessage, histVars, TypeInv, TimeTypes, Vers
<1>2. CASE Tick
  <2>1. age' \in [Sessions -> 0..4]
    BY <1>2 DEF Tick, TypeInv, TimeTypes, AtMost
  <2>2. ttl' \in [Keys -> 0..KeyTtl]
    BY <1>2, Consts DEF Tick, TypeInv, TimeTypes
  <2> QED
    BY <1>2, <2>1, <2>2 DEF Tick, histVars, TypeInv, TimeTypes, ListTypes, listVars,
                            ProcTypes, InUse, Held
<1>3. CASE UNCHANGED vars
  BY <1>3 DEF vars, TypeInv, TimeTypes, ListTypes, ProcTypes, InUse, Held
<1>4. ASSUME NEW s \in Sessions, NewMessage(s) PROVE TypeInv'
  BY <1>1, <1>4 DEF NewMessage, histVars, listVars, TypeInv, ListTypes, ProcTypes,
                    InUse, Held
<1> QED
  BY <1>2, <1>3, <1>4

LEMMA TypeStep == TypeInv /\ [Next]_vars => TypeInv'
BY EnqStepTypes, WorkerStepTypes, TimeStepTypes DEF Next

LEMMA TypeInit == Init => TypeInv
<1> SUFFICES ASSUME Init PROVE TypeInv
  OBVIOUS
<1>1. Len(issued) = 0 /\ issued \in Seq(Keys) /\ jobs \in Seq(1..0)
  BY DEF Init
<1>2. TimeTypes
  BY Consts DEF Init, TimeTypes, Vers
<1>3. ListTypes
  BY <1>1, Consts DEF Init, ListTypes
<1>4. ProcTypes /\ InUse
  BY <1>1, IdleShapes DEF Init, ProcTypes, InUse, Held
<1> QED
  BY <1>2, <1>3, <1>4 DEF TypeInv

\* The lists, the keys and the processes keep their shapes.
THEOREM TypeTheorem == Spec => []TypeOK
BY TypeInit, TypeStep, TypeParts, PTL DEF Spec

-----------------------------------------------------------------------------
(* One place for each job whose pushes reached Redis once.                  *)

In(j, q) == \E i \in 1..Len(q) : q[i] = j
Single(j, q) == \A i, k \in 1..Len(q) : q[i] = j /\ q[k] = j => i = k

\* A queue with one more job at its left end.
LEMMA LpushQueue ==
  ASSUME NEW S, NEW q \in Seq(S), NEW j \in S, NEW p, p = <<j>> \o q
  PROVE  /\ \A k : In(k, p) <=> k = j \/ In(k, q)
         /\ \A k : Single(k, q) /\ (k = j => ~In(k, q)) => Single(k, p)
<1>1. /\ Len(q) \in Nat /\ Len(p) = Len(q) + 1 /\ p[1] = j
      /\ \A i \in 1..Len(q) : p[i + 1] = q[i]
  OBVIOUS
<1>2. \A i \in 1..Len(p) : i = 1 \/ (i - 1 \in 1..Len(q) /\ p[i] = q[i - 1])
  BY <1>1
<1>3. \A i \in 1..Len(q) : i + 1 \in 1..Len(p)
  BY <1>1
<1>4. \A k : In(k, p) <=> k = j \/ In(k, q)
  BY <1>1, <1>2, <1>3 DEF In
<1>5. ASSUME NEW k, Single(k, q), k = j => ~In(k, q) PROVE Single(k, p)
  BY <1>1, <1>2, <1>5 DEF Single, In
<1> QED
  BY <1>4, <1>5

\* A queue without the job at its right end.
LEMMA PopQueue ==
  ASSUME NEW S, NEW q \in Seq(S), q # <<>>, NEW p, p = SubSeq(q, 1, Len(q) - 1)
  PROVE  /\ In(q[Len(q)], q)
         /\ \A k : In(k, q) <=> k = q[Len(q)] \/ In(k, p)
         /\ \A k : Single(k, q) => Single(k, p) /\ (k = q[Len(q)] => ~In(k, p))
<1>0. Len(q) \in Nat \ {0}
  OBVIOUS
<1>1. Len(p) = Len(q) - 1 /\ \A i \in 1..(Len(q) - 1) : p[i] = q[i]
  <2>1. PICK n \in Nat : n = Len(q) - 1
    BY <1>0
  <2>2. \A i \in 1..n : q[i] \in S
    BY <2>1
  <2>3. p = SubSeq(q, 1, n) /\ n <= Len(q)
    BY <1>0, <2>1
  <2>4. Len(p) = n /\ \A i \in 1..n : p[i] = q[i]
    BY <1>0, <2>2, <2>3
  <2> QED
    BY <2>1, <2>4
<1>2. \A k : In(k, q) <=> k = q[Len(q)] \/ In(k, p)
  BY <1>0, <1>1 DEF In
<1>3. ASSUME NEW k, Single(k, q) PROVE Single(k, p) /\ (k = q[Len(q)] => ~In(k, p))
  BY <1>0, <1>1, <1>3 DEF Single, In
<1> QED
  BY <1>2, <1>3

LEMMA QueuedIn == \A j : Queued(j) <=> In(j, jobs)
BY DEF Queued, In

\* What holds job k: a worker, or a call about to push it for the first time.
Runs(w, k) == Held(w) /\ worker[w].job = k
Pushing(e, k) == enq[e].pc = "push" /\ enq[e].id = k

\* Job k is in one place, counting the workers and the calls that hold it.
Placed(k) ==
  /\ Single(k, jobs) /\ processing[k] <= 1
  /\ In(k, jobs) => processing[k] = 0
  /\ \A w \in Workers : Runs(w, k) =>
       ~In(k, jobs) /\ (OffList(w) => processing[k] = 0)
  /\ \A v, w \in Workers : Runs(v, k) /\ Runs(w, k) => v = w
  /\ \A e \in Enqueuers : Pushing(e, k) =>
       ~In(k, jobs) /\ processing[k] = 0 /\ \A w \in Workers : ~Runs(w, k)

\* So is every job but those whose push was sent again, and one that is not
\* issued yet is nowhere.
PlacesInv ==
  /\ \A k \in JobIds : ~PushedTwice(k) => Placed(k)
  /\ \A k \in JobIds : k > Len(issued) => processing[k] = 0
  /\ \A d, e \in Enqueuers, k \in JobIds : Pushing(d, k) /\ Pushing(e, k) => d = e

LEMMA PlacesImplyOne == TypeInv /\ PlacesInv => OnePlace
<1> SUFFICES ASSUME TypeInv, PlacesInv, NEW j \in JobIds, ~PushedTwice(j)
             PROVE  /\ \A i, k \in Queuings(j) : i = k
                    /\ processing[j] <= 1
                    /\ Queued(j) => processing[j] = 0
                    /\ InHand(j) => ~Queued(j) /\ processing[j] = 0
                    /\ \A v, w \in Runners(j) : v = w
  BY DEF OnePlace
<1>1. Placed(j)
  BY DEF PlacesInv
<1>2. \A i, k \in Queuings(j) : i = k
  BY <1>1 DEF Placed, Queuings, Single
<1>3. InHand(j) => ~Queued(j) /\ processing[j] = 0
  BY <1>1, QueuedIn DEF InHand, Placed, Runs, Held, OffList
<1>4. \A v, w \in Runners(j) : v = w
  BY <1>1 DEF Placed, Runners, Runs
<1> QED
  BY <1>1, <1>2, <1>3, <1>4, QueuedIn DEF Placed

\* What the cases below need of the types.
LEMMA Basics ==
  ASSUME TypeInv
  PROVE  /\ Len(issued) \in Nat /\ jobs \in Seq(1..Len(issued)) /\ jobs \in Seq(JobIds)
         /\ processing \in [JobIds -> Nat]
         /\ \A j \in 1..Len(issued) : j \in JobIds
         /\ \A j : In(j, jobs) => j \in 1..Len(issued)
         /\ DOMAIN enq = Enqueuers /\ DOMAIN worker = Workers
<1>1. Len(issued) \in Nat /\ jobs \in Seq(1..Len(issued))
  BY DEF TypeInv, ListTypes
<1>2. \A j \in 1..Len(issued) : j \in JobIds
  BY <1>1, Consts DEF TypeInv, ListTypes, JobIds
<1>3. jobs \in Seq(JobIds)
  BY <1>1, <1>2, SeqGrows
<1>4. \A j : In(j, jobs) => j \in 1..Len(issued)
  BY <1>1 DEF In
<1> QED
  BY <1>1, <1>2, <1>3, <1>4 DEF TypeInv, ListTypes, ProcTypes

LEMMA LpushJobs ==
  ASSUME TypeInv, NEW i \in JobIds, Lpush(i)
  PROVE  /\ \A k : In(k, jobs') <=> k = i \/ In(k, jobs)
         /\ \A k : Single(k, jobs) /\ (k = i => ~In(k, jobs)) => Single(k, jobs')
<1>1. jobs \in Seq(JobIds)
  BY Basics
<1>2. jobs' = <<i>> \o jobs
  BY DEF Lpush
<1> QED
  BY <1>1, <1>2, LpushQueue, Zenon

LEMMA PopJobs ==
  ASSUME TypeInv, jobs # <<>>, jobs' = SubSeq(jobs, 1, Len(jobs) - 1),
         NEW i, i = jobs[Len(jobs)]
  PROVE  /\ In(i, jobs) /\ \A k : In(k, jobs) <=> k = i \/ In(k, jobs')
         /\ \A k : Single(k, jobs) => Single(k, jobs') /\ (k = i => ~In(k, jobs'))
<1>1. jobs \in Seq(JobIds)
  BY Basics
<1> QED
  BY <1>1, PopQueue, Zenon

\* Job k stays in one place when it comes to no further one.
LEMMA PlacedStays ==
  ASSUME NEW k \in JobIds, Placed(k), processing[k] \in Nat, processing'[k] \in Nat,
         Single(k, jobs'), In(k, jobs') => In(k, jobs), processing'[k] <= processing[k],
         \A w \in Workers : Runs(w, k)' =>
           Runs(w, k) /\ (OffList(w)' => OffList(w) \/ processing'[k] = 0),
         \A e \in Enqueuers : Pushing(e, k)' => Pushing(e, k)
  PROVE  Placed(k)'
BY DEF Placed

\* It is enough to look at one job that was not, and is not, sent again.
LEMMA PlacesStep ==
  ASSUME PlacesInv, Len(issued) \in Nat, Len(issued') \in Nat, Len(issued) <= Len(issued'),
         \A k : PushedTwice(k) => PushedTwice(k)',
         \A k \in JobIds : ~PushedTwice(k)' /\ Placed(k) => Placed(k)',
         \A k \in JobIds : k > Len(issued') /\ processing[k] = 0 => processing'[k] = 0,
         \A d, e \in Enqueuers, k \in JobIds :
           Pushing(d, k)' /\ Pushing(e, k)' => d = e \/ (Pushing(d, k) /\ Pushing(e, k))
  PROVE  PlacesInv'
<1>1. \A k \in JobIds : k > Len(issued') => k > Len(issued)
  BY Consts DEF JobIds
<1> QED
  BY <1>1 DEF PlacesInv

\* An enqueue call goes on without a job to push.
LEMMA PlacesEnqMoves ==
  ASSUME TypeInv, PlacesInv, NEW e \in Enqueuers,
         UNCHANGED <<jobs, processing, issued, worker, resent>>,
         \A d \in Enqueuers : d # e => enq'[d] = enq[d],
         enq'[e].pc # "push"
  PROVE  PlacesInv'
<1>1. \A d \in Enqueuers, k \in JobIds : Pushing(d, k)' => Pushing(d, k)
  BY DEF Pushing
<1>2. \A k : PushedTwice(k)' <=> PushedTwice(k)
  BY DEF PushedTwice
<1>3. Len(issued') = Len(issued) /\ Len(issued) \in Nat /\ processing \in [JobIds -> Nat]
  BY Basics
<1>4. ASSUME NEW k \in JobIds, Placed(k) PROVE Placed(k)'
  <2>1. Single(k, jobs') /\ (In(k, jobs') => In(k, jobs))
    BY <1>4 DEF Placed
  <2>2. \A w \in Workers : Runs(w, k)' => Runs(w, k) /\ (OffList(w)' => OffList(w))
    BY DEF Runs, Held, OffList
  <2> QED
    BY <1>1, <1>3, <1>4, <2>1, <2>2, PlacedStays
<1> QED
  BY <1>1, <1>2, <1>3, <1>4, PlacesStep

\* A new job is issued to e, which no list and no worker knows yet.
LEMMA PlacesIssue ==
  ASSUME TypeInv, PlacesInv, NEW e \in Enqueuers, NEW new, new = Len(issued) + 1,
         new <= MaxJobs, Len(issued') = new,
         UNCHANGED <<jobs, processing, worker, resent>>,
         \A d \in Enqueuers : d # e => enq'[d] = enq[d],
         enq'[e].pc = "push", enq'[e].id = new
  PROVE  PlacesInv'
<1>0. new \in JobIds /\ new > Len(issued) /\ new \notin 1..Len(issued)
  BY Basics, Consts DEF JobIds
<1>1. \A k : PushedTwice(k)' <=> PushedTwice(k)
  BY DEF PushedTwice
<1>2. processing[new] = 0 /\ ~In(new, jobs) /\ processing \in [JobIds -> Nat]
  BY <1>0, Basics DEF PlacesInv
<1>3. \A w \in Workers : ~Runs(w, new)
  BY <1>0, JobInHand DEF Runs
<1>4. \A d \in Enqueuers : ~Pushing(d, new)
  BY <1>0, JobToPush DEF Pushing
<1>5. \A d \in Enqueuers, k \in JobIds :
        Pushing(d, k)' => (Pushing(d, k) /\ k # new) \/ (d = e /\ k = new)
  BY <1>4 DEF Pushing
<1>6. ASSUME NEW k \in JobIds, Placed(k) PROVE Placed(k)'
  <2>1. \A w \in Workers : /\ Runs(w, k)' <=> Runs(w, k)
                           /\ OffList(w)' <=> OffList(w)
    BY DEF Runs, Held, OffList
  <2>2. CASE k = new
    BY <1>2, <1>3, <1>6, <2>1, <2>2 DEF Placed
  <2>3. CASE k # new
    <3>1. Single(k, jobs') /\ (In(k, jobs') => In(k, jobs))
      BY <1>6 DEF Placed
    <3> QED
      BY <1>2, <1>5, <1>6, <2>1, <2>3, <3>1, PlacedStays
  <2> QED
    BY <2>2, <2>3
<1>7. Len(issued) \in Nat /\ Len(issued') \in Nat /\ Len(issued) <= Len(issued')
  BY Basics
<1> QED
  BY <1>1, <1>5, <1>6, <1>7, PlacesStep

\* e pushes its job and goes on without it.
LEMMA PlacesPush ==
  ASSUME TypeInv, PlacesInv, NEW e \in Enqueuers, enq[e].pc = "push",
         Lpush(enq[e].id), UNCHANGED <<processing, issued, worker, resent>>,
         \A d \in Enqueuers : d # e => enq'[d] = enq[d],
         enq'[e].pc # "push"
  PROVE  PlacesInv'
<1>0. PICK i : i = enq[e].id
  OBVIOUS
<1>1. i \in JobIds /\ Pushing(e, i)
  BY <1>0, JobToPush DEF Pushing
<1>2. \A k : PushedTwice(k)' <=> PushedTwice(k)
  BY DEF PushedTwice
<1>3. /\ \A k : In(k, jobs') <=> k = i \/ In(k, jobs)
      /\ \A k : Single(k, jobs) /\ (k = i => ~In(k, jobs)) => Single(k, jobs')
  BY <1>0, <1>1, LpushJobs
<1>4. \A d \in Enqueuers, k \in JobIds : Pushing(d, k)' => Pushing(d, k) /\ k # i
  <2>1. \A d \in Enqueuers, k \in JobIds : Pushing(d, k)' => Pushing(d, k) /\ d # e
    BY DEF Pushing
  <2> QED
    BY <1>1, <2>1 DEF PlacesInv
<1>5. Len(issued') = Len(issued) /\ Len(issued) \in Nat /\ processing \in [JobIds -> Nat]
  BY Basics
<1>6. ASSUME NEW k \in JobIds, Placed(k) PROVE Placed(k)'
  <2>1. \A w \in Workers : /\ Runs(w, k)' <=> Runs(w, k)
                           /\ OffList(w)' <=> OffList(w)
    BY DEF Runs, Held, OffList
  <2>2. CASE k = i
    <3>1. ~In(k, jobs) /\ processing[k] = 0 /\ \A w \in Workers : ~Runs(w, k)
      BY <1>1, <1>6, <2>2 DEF Placed
    <3>2. Single(k, jobs')
      BY <1>3, <1>6, <3>1 DEF Placed
    <3>3. \A d \in Enqueuers : ~Pushing(d, k)'
      BY <1>4, <2>2
    <3> QED
      BY <2>1, <3>1, <3>2, <3>3 DEF Placed
  <2>3. CASE k # i
    <3>1. Single(k, jobs') /\ (In(k, jobs') => In(k, jobs))
      BY <1>3, <1>6, <2>3 DEF Placed
    <3> QED
      BY <1>4, <1>5, <1>6, <2>1, <3>1, PlacedStays
  <2> QED
    BY <2>2, <2>3
<1> QED
  BY <1>2, <1>4, <1>5, <1>6, PlacesStep

\* A push is sent again: its job is not looked at any more.
LEMMA PlacesResend ==
  ASSUME TypeInv, PlacesInv, NEW i \in JobIds, Lpush(i), resent' = Append(resent, i),
         UNCHANGED <<processing, issued, enq, worker>>
  PROVE  PlacesInv'
<1>1. resent \in Seq(1..Len(issued))
  BY DEF TypeInv, ListTypes
<1>2. \A k : PushedTwice(k)' <=> k = i \/ PushedTwice(k)
  <2>1. /\ Len(resent) \in Nat /\ Len(resent') = Len(resent) + 1
        /\ resent'[Len(resent) + 1] = i
        /\ \A n \in 1..Len(resent) : resent'[n] = resent[n]
    BY <1>1
  <2>2. \A n \in 1..Len(resent') : n = Len(resent) + 1 \/ n \in 1..Len(resent)
    BY <2>1
  <2>3. \A n \in 1..Len(resent) : n \in 1..Len(resent')
    BY <2>1
  <2>4. Len(resent) + 1 \in 1..Len(resent')
    BY <2>1
  <2> QED
    BY <2>1, <2>2, <2>3, <2>4 DEF PushedTwice
<1>3. /\ \A k : In(k, jobs') <=> k = i \/ In(k, jobs)
      /\ \A k : Single(k, jobs) /\ (k = i => ~In(k, jobs)) => Single(k, jobs')
  BY LpushJobs
<1>4. \A d \in Enqueuers, k \in JobIds : Pushing(d, k)' => Pushing(d, k)
  BY DEF Pushing
<1>5. Len(issued') = Len(issued) /\ Len(issued) \in Nat /\ processing \in [JobIds -> Nat]
  BY Basics
<1>6. ASSUME NEW k \in JobIds, k # i, Placed(k) PROVE Placed(k)'
  <2>1. Single(k, jobs') /\ (In(k, jobs') => In(k, jobs))
    BY <1>3, <1>6 DEF Placed
  <2>2. \A w \in Workers : Runs(w, k)' => Runs(w, k) /\ (OffList(w)' => OffList(w))
    BY DEF Runs, Held, OffList
  <2> QED
    BY <1>4, <1>5, <1>6, <2>1, <2>2, PlacedStays
<1> QED
  BY <1>2, <1>4, <1>5, <1>6, PlacesStep

\* w goes on with the job it holds, if any, and the lists stay as they are.
LEMMA PlacesWorkerMoves ==
  ASSUME TypeInv, PlacesInv, NEW w \in Workers,
         UNCHANGED <<jobs, processing, issued, enq, resent>>,
         \A v \in Workers : v # w => worker'[v] = worker[v],
         \/ worker'[w].pc = "idle"
         \/ /\ Held(w) /\ worker'[w].job = worker[w].job
            /\ worker'[w].pc \notin {"nackAgain", "nackPush"}
  PROVE  PlacesInv'
<1>1. \A d \in Enqueuers, k \in JobIds : Pushing(d, k)' => Pushing(d, k)
  BY DEF Pushing
<1>2. \A k : PushedTwice(k)' <=> PushedTwice(k)
  BY DEF PushedTwice
<1>3. Len(issued') = Len(issued) /\ Len(issued) \in Nat /\ processing \in [JobIds -> Nat]
  BY Basics
<1>4. ASSUME NEW k \in JobIds, Placed(k) PROVE Placed(k)'
  <2>1. Single(k, jobs') /\ (In(k, jobs') => In(k, jobs))
    BY <1>4 DEF Placed
  <2>2. \A v \in Workers : Runs(v, k)' => Runs(v, k) /\ (OffList(v)' => OffList(v))
    BY DEF Runs, Held, OffList
  <2> QED
    BY <1>1, <1>3, <1>4, <2>1, <2>2, PlacedStays
<1> QED
  BY <1>1, <1>2, <1>3, <1>4, PlacesStep

\* w takes its job off the processing list, and goes on with it or without.
LEMMA PlacesLrem ==
  ASSUME TypeInv, PlacesInv, NEW w \in Workers, Held(w), Lrem(worker[w].job),
         UNCHANGED <<jobs, issued, enq, resent>>,
         \A v \in Workers : v # w => worker'[v] = worker[v],
         worker'[w].pc = "idle" \/ worker'[w].job = worker[w].job
  PROVE  PlacesInv'
<1>0. PICK i : i = worker[w].job
  OBVIOUS
<1>1. i \in JobIds /\ Runs(w, i)
  BY <1>0, JobInHand DEF Runs
<1>2. /\ processing'[i] = IF processing[i] = 0 THEN 0 ELSE processing[i] - 1
      /\ \A k \in JobIds : k # i => processing'[k] = processing[k]
  BY <1>0, <1>1, Basics DEF Lrem
<1>3. \A d \in Enqueuers, k \in JobIds : Pushing(d, k)' => Pushing(d, k)
  BY DEF Pushing
<1>4. \A k : PushedTwice(k)' <=> PushedTwice(k)
  BY DEF PushedTwice
<1>5. Len(issued') = Len(issued) /\ Len(issued) \in Nat /\ processing \in [JobIds -> Nat]
  BY Basics
<1>6. \A v \in Workers, k \in JobIds : Runs(v, k)' =>
        Runs(v, k) /\ (v = w => k = i) /\ (v # w => (OffList(v)' => OffList(v)))
  BY <1>0 DEF Runs, Held, OffList
<1>7. ASSUME NEW k \in JobIds, Placed(k) PROVE Placed(k)'
  <2>1. Single(k, jobs') /\ (In(k, jobs') => In(k, jobs)) /\ processing[k] <= 1
    BY <1>7 DEF Placed
  <2>2. /\ processing[k] \in Nat /\ processing'[k] \in Nat
        /\ processing'[k] <= processing[k] /\ (k = i => processing'[k] = 0)
    BY <1>2, <1>5, <2>1
  <2>3. \A v \in Workers : Runs(v, k)' =>
          Runs(v, k) /\ (OffList(v)' => OffList(v) \/ processing'[k] = 0)
    BY <1>6, <2>2
  <2> QED
    BY <1>3, <1>7, <2>1, <2>2, <2>3, PlacedStays
<1>8. \A k \in JobIds : processing[k] = 0 => processing'[k] = 0
  BY <1>2
<1> QED
  BY <1>3, <1>4, <1>5, <1>7, <1>8, PlacesStep

\* w pushes its job back and is free.
LEMMA PlacesPushBack ==
  ASSUME TypeInv, PlacesInv, NEW w \in Workers, worker[w].pc = "nackPush",
         Lpush(worker[w].job), UNCHANGED <<processing, issued, enq, resent>>,
         \A v \in Workers : v # w => worker'[v] = worker[v],
         worker'[w].pc = "idle"
  PROVE  PlacesInv'
<1>0. PICK i : i = worker[w].job
  OBVIOUS
<1>1. Held(w) /\ Runs(w, i) /\ OffList(w)
  BY <1>0 DEF Held, Runs, OffList
<1>2. i \in JobIds
  BY <1>0, <1>1, JobInHand
<1>3. /\ \A k : In(k, jobs') <=> k = i \/ In(k, jobs)
      /\ \A k : Single(k, jobs) /\ (k = i => ~In(k, jobs)) => Single(k, jobs')
  BY <1>0, <1>2, LpushJobs
<1>4. \A d \in Enqueuers, k \in JobIds : Pushing(d, k)' => Pushing(d, k)
  BY DEF Pushing
<1>5. \A k : PushedTwice(k)' <=> PushedTwice(k)
  BY DEF PushedTwice
<1>6. Len(issued') = Len(issued) /\ Len(issued) \in Nat /\ processing \in [JobIds -> Nat]
  BY Basics
<1>7. \A v \in Workers, k \in JobIds : Runs(v, k)' =>
        v # w /\ Runs(v, k) /\ (OffList(v)' => OffList(v))
  BY DEF Runs, Held, OffList
<1>8. ASSUME NEW k \in JobIds, Placed(k) PROVE Placed(k)'
  <2>1. CASE k = i
    <3>1. ~In(k, jobs) /\ processing[k] = 0
      BY <1>1, <1>8, <2>1 DEF Placed
    <3>2. \A v \in Workers : ~Runs(v, k)'
      BY <1>1, <1>7, <1>8, <2>1 DEF Placed
    <3>3. \A d \in Enqueuers : ~Pushing(d, k)'
      BY <1>1, <1>4, <1>8, <2>1 DEF Placed
    <3>4. Single(k, jobs')
      BY <1>3, <1>8, <3>1 DEF Placed
    <3> QED
      BY <3>1, <3>2, <3>3, <3>4 DEF Placed
  <2>2. CASE k # i
    <3>1. Single(k, jobs') /\ (In(k, jobs') => In(k, jobs))
      BY <1>3, <1>8, <2>2 DEF Placed
    <3> QED
      BY <1>4, <1>6, <1>7, <1>8, <3>1, PlacedStays
  <2> QED
    BY <2>1, <2>2
<1> QED
  BY <1>4, <1>5, <1>6, <1>8, PlacesStep

\* The job at the right end goes to the processing list, and to w if w hears of it.
LEMMA PlacesPop ==
  ASSUME TypeInv, PlacesInv, NEW w \in Workers, worker[w].pc = "idle", jobs # <<>>,
         jobs' = SubSeq(jobs, 1, Len(jobs) - 1),
         processing' = [processing EXCEPT ![jobs[Len(jobs)]] = @ + 1],
         UNCHANGED <<issued, enq, resent>>,
         \A v \in Workers : v # w => worker'[v] = worker[v],
         worker'[w].pc = "idle" \/ (worker'[w].pc = "read" /\ worker'[w].job = jobs[Len(jobs)])
  PROVE  PlacesInv'
<1>0. PICK i : i = jobs[Len(jobs)]
  OBVIOUS
<1>1. /\ In(i, jobs) /\ \A k : In(k, jobs) <=> k = i \/ In(k, jobs')
      /\ \A k : Single(k, jobs) => Single(k, jobs') /\ (k = i => ~In(k, jobs'))
  BY <1>0, PopJobs
<1>2. i \in JobIds /\ i <= Len(issued) /\ processing[i] \in Nat
  BY <1>1, Basics
<1>3. /\ processing'[i] = processing[i] + 1
      /\ \A k \in JobIds : k # i => processing'[k] = processing[k]
  BY <1>0, <1>2, Basics
<1>4. \A d \in Enqueuers, k \in JobIds : Pushing(d, k)' => Pushing(d, k)
  BY DEF Pushing
<1>5. \A k : PushedTwice(k)' <=> PushedTwice(k)
  BY DEF PushedTwice
<1>6. Len(issued') = Len(issued) /\ Len(issued) \in Nat /\ processing \in [JobIds -> Nat]
  BY Basics
<1>7. \A v \in Workers, k \in JobIds : Runs(v, k)' =>
        \/ Runs(v, k) /\ (OffList(v)' => OffList(v))
        \/ v = w /\ k = i /\ ~OffList(v)'
  BY <1>0 DEF Runs, Held, OffList
<1>8. ASSUME NEW k \in JobIds, Placed(k) PROVE Placed(k)'
  <2>1. Single(k, jobs') /\ (In(k, jobs') => In(k, jobs)) /\ (k = i => ~In(k, jobs'))
    BY <1>1, <1>8 DEF Placed
  <2>2. CASE k = i
    <3>1. processing[k] = 0 /\ processing'[k] = 1
      BY <1>1, <1>3, <1>8, <2>2 DEF Placed
    <3>2. \A v \in Workers : ~Runs(v, k)
      BY <1>1, <1>8, <2>2 DEF Placed
    <3>3. \A v \in Workers : Runs(v, k)' => v = w /\ ~OffList(v)'
      BY <1>7, <3>2
    <3>4. \A d \in Enqueuers : ~Pushing(d, k)'
      BY <1>1, <1>4, <1>8, <2>2 DEF Placed
    <3> QED
      BY <2>1, <2>2, <3>1, <3>3, <3>4 DEF Placed
  <2>3. CASE k # i
    <3>1. \A v \in Workers : Runs(v, k)' => Runs(v, k) /\ (OffList(v)' => OffList(v))
      BY <1>7, <2>3
    <3>2. processing'[k] = processing[k] /\ processing[k] \in Nat
      BY <1>3, <1>6, <2>3
    <3> QED
      BY <1>4, <1>8, <2>1, <3>1, <3>2, PlacedStays
  <2> QED
    BY <2>2, <2>3
<1>9. \A k \in JobIds : k > Len(issued') /\ processing[k] = 0 => processing'[k] = 0
  <2>1. \A k \in JobIds : k > Len(issued') => k # i
    BY <1>2, <1>6, Consts DEF JobIds
  <2> QED
    BY <1>3, <2>1
<1> QED
  BY <1>4, <1>5, <1>6, <1>8, <1>9, PlacesStep

\* LoadPath takes e to its SET NX, a compensation with one of its rows.
LEMMA LoadPathEffect ==
  ASSUME TypeInv, NEW e \in Enqueuers, LoadPath(e)
  PROVE  /\ enq'[e].pc = "setNx" /\ enq'[e].trigger = enq[e].trigger
         /\ \A d \in Enqueuers : d # e => enq'[d] = enq[d]
         /\ enq[e].trigger = "compensate" =>
              \E row \in enq[e].rows : /\ enq'[e].rows = enq[e].rows \ {row}
                                       /\ enq'[e].session = row[1] /\ enq'[e].ver = row[2]
<1>0. DOMAIN enq = Enqueuers /\ enq[e] \in EnqRecs(Len(issued))
  BY DEF TypeInv, ProcTypes
<1>1. CASE enq[e].trigger = "compensate"
  <2>1. PICK row \in enq[e].rows :
          enq' = [enq EXCEPT ![e].pc = "setNx", ![e].rows = @ \ {row},
                             ![e].session = row[1], ![e].ver = row[2]]
    BY <1>1 DEF LoadPath
  <2> DEFINE r == [enq[e] EXCEPT !.pc = "setNx", !.rows = @ \ {row},
                                 !.session = row[1], !.ver = row[2]]
  <2>2. enq' = [enq EXCEPT ![e] = r]
    BY <1>0, <2>1
  <2>3. /\ r.pc = "setNx" /\ r.trigger = enq[e].trigger
        /\ r.rows = enq[e].rows \ {row} /\ r.session = row[1] /\ r.ver = row[2]
    BY <1>0 DEF EnqRecs
  <2> HIDE DEF r
  <2> QED
    BY <1>0, <2>2, <2>3
<1>2. CASE enq[e].trigger # "compensate"
  <2>1. PICK v : enq' = [enq EXCEPT ![e].pc = "setNx", ![e].ver = v]
    BY <1>2 DEF LoadPath
  <2> DEFINE r == [enq[e] EXCEPT !.pc = "setNx", !.ver = v]
  <2>2. enq' = [enq EXCEPT ![e] = r]
    BY <1>0, <2>1
  <2>3. r.pc = "setNx" /\ r.trigger = enq[e].trigger
    BY <1>0 DEF EnqRecs
  <2> HIDE DEF r
  <2> QED
    BY <1>0, <1>2, <2>2, <2>3
<1> QED
  BY <1>1, <1>2

LEMMA PlacesAside ==
  ASSUME PlacesInv, UNCHANGED <<jobs, processing, issued, enq, worker, resent>>
  PROVE  PlacesInv'
BY DEF PlacesInv, Placed, Runs, Pushing, PushedTwice, Single, In, Held, OffList

LEMMA PlacesEnqStep ==
  ASSUME TypeInv, PlacesInv, NEW e \in Enqueuers, EnqStep(e) \/ EnqueueFails(e) \/ EnqueueResends(e)
  PROVE  PlacesInv'
<1>0. /\ DOMAIN enq = Enqueuers /\ enq[e] \in EnqRecs(Len(issued))
      /\ Len(issued) \in Nat /\ IdleEnq.pc = "idle"
      /\ enq[e].pc # "idle" => enq[e].trigger # "none"
  BY Basics, IdleShapes DEF TypeInv, ProcTypes, InUse
<1>1. CASE BeginRequest(e)
  <2>1. PICK s \in Sessions, t \in Triggers :
          enq' = [enq EXCEPT ![e] = [IdleEnq EXCEPT !.pc = "load", !.session = s,
                                                    !.trigger = t]]
    BY <1>1 DEF BeginRequest
  <2>2. [IdleEnq EXCEPT !.pc = "load", !.session = s, !.trigger = t].pc = "load"
    BY <1>0, IdleShapes DEF EnqRecs
  <2> QED
    <3>1. enq'[e].pc # "push" /\ \A d \in Enqueuers : d # e => enq'[d] = enq[d]
      BY <1>0, <2>1, <2>2
    <3> QED
      BY <1>1, <3>1, PlacesEnqMoves DEF BeginRequest, listVars, histVars
<1>2. CASE Scan(e)
  <2>1. PICK found \in SUBSET Idle :
          enq' = IF found = {} THEN enq
                 ELSE [enq EXCEPT ![e] =
                         [IdleEnq EXCEPT !.pc = "load", !.trigger = "compensate",
                                         !.rows = {<<s, ver[s]>> : s \in found}]]
    BY <1>2 DEF Scan
  <2> DEFINE rows == {<<s, ver[s]>> : s \in found}
  <2> HIDE DEF rows
  <2>2. [IdleEnq EXCEPT !.pc = "load", !.trigger = "compensate", !.rows = rows].pc = "load"
    BY <1>0, IdleShapes DEF EnqRecs
  <2>3. enq'[e].pc # "push" /\ \A d \in Enqueuers : d # e => enq'[d] = enq[d]
    BY <1>0, <1>2, <2>1, <2>2 DEF Scan, rows
  <2> QED
    BY <1>2, <2>3, PlacesEnqMoves, ZenonT(30) DEF Scan, listVars, histVars
<1>3. CASE LoadPath(e)
  <2>1. enq'[e].pc = "setNx" /\ \A d \in Enqueuers : d # e => enq'[d] = enq[d]
    BY <1>3, LoadPathEffect
  <2> QED
    BY <1>3, <2>1, PlacesEnqMoves DEF LoadPath, listVars, histVars
<1>4. CASE SetNx(e)
  <2>1. CASE ttl[DedupeKey(enq[e])] > 0
    <3>1. EndRow(enq[e]).pc \in {"idle", "load"}
      BY <1>0, <1>4, EndRowShape DEF SetNx
    <3> QED
      BY <1>0, <1>4, <2>1, <3>1, PlacesEnqMoves DEF SetNx, listVars
  <2>2. CASE ~(ttl[DedupeKey(enq[e])] > 0)
    <3>1. PICK new : new = Len(issued) + 1
      OBVIOUS
    <3>2. [enq[e] EXCEPT !.pc = "push", !.id = new].pc = "push"
          /\ [enq[e] EXCEPT !.pc = "push", !.id = new].id = new
      BY <1>0 DEF EnqRecs
    <3>3. enq' = [enq EXCEPT ![e] = [enq[e] EXCEPT !.pc = "push", !.id = new]]
      BY <1>0, <1>4, <2>2, <3>1 DEF SetNx
    <3>4. Len(issued) < MaxJobs
          /\ issued' = Append(issued, <<enq[e].session, enq[e].trigger, enq[e].ver>>)
      BY <1>4, <2>2 DEF SetNx
    <3>5. Len(issued') = new /\ new <= MaxJobs
      BY <1>0, <3>1, <3>4, Consts DEF TypeInv, ListTypes
    <3> QED
      BY <1>0, <1>4, <3>1, <3>2, <3>3, <3>5, PlacesIssue DEF SetNx, listVars
  <2> QED
    BY <2>1, <2>2
<1>5. CASE Push(e)
  <2>1. EndRow(enq[e]).pc \in {"idle", "load"}
    BY <1>0, <1>5, EndRowShape DEF Push
  <2> QED
    BY <1>0, <1>5, <2>1, PlacesPush DEF Push
<1>6. CASE EnqueueFails(e)
  <2>1. enq'[e].pc = "idle" /\ \A d \in Enqueuers : d # e => enq'[d] = enq[d]
    BY <1>0, <1>6 DEF EnqueueFails
  <2>2. CASE jobs' = jobs
    BY <1>6, <2>1, <2>2, PlacesEnqMoves DEF EnqueueFails
  <2>3. CASE enq[e].pc = "push" /\ Lpush(enq[e].id)
    BY <1>6, <2>1, <2>3, PlacesPush DEF EnqueueFails
  <2> QED
    BY <1>6, <2>2, <2>3 DEF EnqueueFails
<1>7. CASE EnqueueResends(e)
  <2>0. UNCHANGED <<processing, issued, enq, worker>>
    BY <1>7 DEF EnqueueResends
  <2>1. CASE UNCHANGED <<jobs, resent>>
    BY <2>0, <2>1, PlacesAside
  <2>2. CASE /\ enq[e].pc = "push" /\ Lpush(enq[e].id)
             /\ resent' = Append(resent, enq[e].id)
    <3>1. PICK i \in JobIds : i = enq[e].id
      BY <2>2, JobToPush
    <3> QED
      BY <2>0, <2>2, <3>1, PlacesResend
  <2> QED
    BY <1>7, <2>1, <2>2 DEF EnqueueResends
<1> QED
  BY <1>1, <1>2, <1>3, <1>4, <1>5, <1>6, <1>7 DEF EnqStep

\* What Goto and Free do to the workers.
LEMMA WorkerGoto ==
  ASSUME TypeInv, NEW w \in Workers, NEW pc, Goto(w, pc)
  PROVE  /\ worker'[w].pc = pc /\ worker'[w].job = worker[w].job
         /\ \A v \in Workers : v # w => worker'[v] = worker[v]
<1>1. DOMAIN worker = Workers /\ worker[w] \in WorkerRecs(Len(issued))
  BY DEF TypeInv, ProcTypes
<1> QED
  BY <1>1 DEF Goto, WorkerRecs

LEMMA WorkerFree ==
  ASSUME TypeInv, NEW w \in Workers, Free(w)
  PROVE  worker'[w].pc = "idle" /\ \A v \in Workers : v # w => worker'[v] = worker[v]
<1>1. DOMAIN worker = Workers /\ IdleWorker.pc = "idle"
  BY Basics DEF IdleWorker
<1> QED
  BY <1>1 DEF Free

LEMMA PlacesWorkerStep ==
  ASSUME TypeInv, PlacesInv, NEW w \in Workers, LoopStep(w) \/ RedisFails(w) \/ Resends(w) \/ Crash(w)
  PROVE  PlacesInv'
<1>0. DOMAIN worker = Workers /\ worker[w] \in WorkerRecs(Len(issued))
  BY Basics DEF TypeInv, ProcTypes
<1>1. CASE Pop(w)
  <2> DEFINE r == [pc |-> "read", job |-> jobs[Len(jobs)], seen |-> 0]
  <2>1. /\ worker[w].pc = "idle" /\ jobs # <<>>
        /\ jobs' = SubSeq(jobs, 1, Len(jobs) - 1)
        /\ processing' = [processing EXCEPT ![jobs[Len(jobs)]] = @ + 1]
        /\ worker' = [worker EXCEPT ![w] = r]
        /\ UNCHANGED <<issued, enq, resent>>
    BY <1>1 DEF Pop, histVars
  <2>2. /\ worker'[w].pc = "read" /\ worker'[w].job = jobs[Len(jobs)]
        /\ \A v \in Workers : v # w => worker'[v] = worker[v]
    BY <1>0, <2>1
  <2> QED
    BY <2>1, <2>2, PlacesPop
<1>2. CASE Read(w)
  <2>1. /\ worker'[w].pc \in {"ack", "save"} /\ worker'[w].job = worker[w].job
        /\ \A v \in Workers : v # w => worker'[v] = worker[v]
    BY <1>0, <1>2 DEF Read, WorkerRecs
  <2> QED
    BY <1>2, <2>1, PlacesWorkerMoves DEF Read, listVars, histVars, Held
<1>3. CASE Save(w)
  BY <1>3, WorkerGoto, PlacesWorkerMoves DEF Save, listVars, Held
<1>4. CASE Fail(w)
  BY <1>4, WorkerGoto, PlacesWorkerMoves DEF Fail, listVars, histVars, Held
<1>5. CASE Ack(w)
  BY <1>5, WorkerFree, PlacesLrem DEF Ack, Held
<1>6. CASE NackRem(w)
  BY <1>6, WorkerGoto, PlacesLrem DEF NackRem, histVars, Held
<1>10. CASE Resends(w)
  <2>0. Held(w) /\ UNCHANGED <<issued, enq>>
    BY <1>10 DEF Resends, Held
  <2>1. CASE /\ worker[w].pc = "ack"
             /\ Lrem(worker[w].job) /\ done' = done \cup {worker[w].job}
             /\ UNCHANGED <<jobs, worker, resent>>
    BY <2>0, <2>1, PlacesLrem
  <2>2. CASE /\ Lrem(worker[w].job) /\ Goto(w, "nackAgain")
             /\ UNCHANGED <<jobs, done, resent>>
    BY <2>0, <2>2, WorkerGoto, PlacesLrem
  <2>3. CASE /\ worker[w].pc = "nackPush" /\ Len(resent) < MaxResends
             /\ Lpush(worker[w].job)
             /\ resent' = Append(resent, worker[w].job)
             /\ UNCHANGED <<processing, worker, done>>
    <3>1. PICK i \in JobIds : i = worker[w].job
      BY <2>0, JobInHand
    <3> QED
      BY <2>0, <2>3, <3>1, PlacesResend
  <2> QED
    BY <1>10, <2>1, <2>2, <2>3 DEF Resends
<1>7. CASE NackPush(w)
  BY <1>7, WorkerFree, PlacesPushBack DEF NackPush, histVars
<1>8. CASE RedisFails(w)
  <2>0. UNCHANGED <<issued, enq, resent>>
    BY <1>8 DEF RedisFails
  <2>1. CASE /\ worker[w].pc = "idle" /\ jobs # <<>>
             /\ jobs' = SubSeq(jobs, 1, Len(jobs) - 1)
             /\ processing' = [processing EXCEPT ![jobs[Len(jobs)]] = @ + 1]
             /\ UNCHANGED <<worker, done, lost>>
    BY <2>0, <2>1, PlacesPop
  <2>2. CASE /\ worker[w].pc = "ack" /\ Goto(w, "nackRem")
             /\ \/ UNCHANGED <<processing, done>>
                \/ Lrem(worker[w].job) /\ done' = done \cup {worker[w].job}
             /\ UNCHANGED <<jobs, lost>>
    <3>1. /\ worker'[w].pc = "nackRem" /\ worker'[w].job = worker[w].job /\ Held(w)
          /\ \A v \in Workers : v # w => worker'[v] = worker[v]
      BY <2>2, WorkerGoto DEF Held
    <3>2. CASE UNCHANGED processing
      BY <2>0, <2>2, <3>1, <3>2, PlacesWorkerMoves
    <3>3. CASE Lrem(worker[w].job)
      BY <2>0, <2>2, <3>1, <3>3, PlacesLrem
    <3> QED
      BY <2>2, <3>2, <3>3
  <2>3. CASE /\ worker[w].pc \in {"nackRem", "nackAgain"} /\ Free(w)
             /\ \/ UNCHANGED processing /\ lost' = IF OffList(w) THEN lost \cup {worker[w].job}
                                                  ELSE lost
                \/ Lrem(worker[w].job) /\ lost' = lost \cup {worker[w].job}
             /\ UNCHANGED <<jobs, done>>
    <3>1. /\ worker'[w].pc = "idle" /\ Held(w)
          /\ \A v \in Workers : v # w => worker'[v] = worker[v]
      BY <2>3, WorkerFree DEF Held
    <3>2. CASE UNCHANGED processing
      BY <2>0, <2>3, <3>1, <3>2, PlacesWorkerMoves
    <3>3. CASE Lrem(worker[w].job)
      BY <2>0, <2>3, <3>1, <3>3, PlacesLrem
    <3> QED
      BY <2>3, <3>2, <3>3
  <2>4. CASE /\ worker[w].pc = "nackPush" /\ Free(w)
             /\ \/ Lpush(worker[w].job) /\ UNCHANGED lost
                \/ UNCHANGED jobs /\ lost' = lost \cup {worker[w].job}
             /\ UNCHANGED <<processing, done>>
    <3>1. /\ worker'[w].pc = "idle"
          /\ \A v \in Workers : v # w => worker'[v] = worker[v]
      BY <2>4, WorkerFree
    <3>2. CASE UNCHANGED jobs
      BY <2>0, <2>4, <3>1, <3>2, PlacesWorkerMoves
    <3>3. CASE Lpush(worker[w].job)
      BY <2>0, <2>4, <3>1, <3>3, PlacesPushBack
    <3> QED
      BY <2>4, <3>2, <3>3
  <2> QED
    BY <1>8, <2>1, <2>2, <2>3, <2>4 DEF RedisFails
<1>9. CASE Crash(w)
  BY <1>9, WorkerFree, PlacesWorkerMoves DEF Crash, listVars
<1> QED
  BY <1>1, <1>2, <1>3, <1>4, <1>5, <1>6, <1>7, <1>8, <1>9, <1>10 DEF LoopStep

\* Whatever calls fail or are sent again and whichever replicas die, a job whose
\* own pushes were not sent again is in one place only.
THEOREM OnePlaceTheorem == Spec => []OnePlace
<1>1. Init => PlacesInv
  <2> SUFFICES ASSUME Init PROVE PlacesInv
    OBVIOUS
  <2>1. /\ Len(jobs) = 0 /\ \A j \in JobIds : processing[j] = 0
        /\ \A e \in Enqueuers : enq[e].pc = "idle"
        /\ \A w \in Workers : worker[w].pc = "idle"
    BY IdleShapes DEF Init
  <2> QED
    BY <2>1 DEF PlacesInv, Placed, Runs, Pushing, Single, In, Held
<1>2. TypeInv /\ PlacesInv /\ [Next]_vars => PlacesInv'
  <2> SUFFICES ASSUME TypeInv, PlacesInv, [Next]_vars PROVE PlacesInv'
    OBVIOUS
  <2>1. ASSUME NEW s \in Sessions, NewMessage(s) PROVE PlacesInv'
    BY <2>1, PlacesAside DEF NewMessage, listVars, histVars
  <2>2. CASE Tick
    BY <2>2, PlacesAside DEF Tick, listVars, histVars
  <2>3. CASE UNCHANGED vars
    BY <2>3, PlacesAside DEF vars
  <2> QED
    BY <2>1, <2>2, <2>3, PlacesEnqStep, PlacesWorkerStep DEF Next
<1> QED
  BY <1>1, <1>2, TypeInit, TypeStep, PlacesImplyOne, PTL DEF Spec

-----------------------------------------------------------------------------
(* No job is lost.                                                          *)

Accounted(j) ==
  j \in done \/ j \in lost \/ In(j, jobs) \/ processing[j] > 0 \/ InHand(j)

LEMMA AccountedIn == JobsConserved <=> \A j \in accepted : Accounted(j)
BY QueuedIn DEF JobsConserved, Accounted

\* An enqueue call takes no job away.
LEMMA ConservedEnqStep ==
  ASSUME TypeInv, NEW e \in Enqueuers, EnqStep(e) \/ EnqueueFails(e) \/ EnqueueResends(e),
         \A j \in accepted : Accounted(j)
  PROVE  \A j \in accepted' : Accounted(j)'
<1>1. ASSUME UNCHANGED <<jobs, processing, worker, accepted, done, lost>>
      PROVE  \A j \in accepted' : Accounted(j)'
  BY <1>1 DEF Accounted, In, InHand, OffList
<1>2. ASSUME enq[e].pc = "push", Lpush(enq[e].id), accepted' = accepted \cup {enq[e].id},
             UNCHANGED <<processing, worker, done, lost>>
      PROVE  \A j \in accepted' : Accounted(j)'
  <2>1. enq[e].id \in JobIds
    BY <1>2, JobToPush
  <2>2. \A k : In(k, jobs') <=> k = enq[e].id \/ In(k, jobs)
    BY <1>2, <2>1, LpushJobs
  <2> QED
    BY <1>2, <2>2 DEF Accounted, InHand, OffList
<1>3. CASE BeginRequest(e)
  BY <1>1, <1>3 DEF BeginRequest, listVars, histVars
<1>4. CASE Scan(e)
  BY <1>1, <1>4 DEF Scan, listVars, histVars
<1>5. CASE LoadPath(e)
  BY <1>1, <1>5 DEF LoadPath, listVars, histVars
<1>6. CASE SetNx(e)
  BY <1>1, <1>6 DEF SetNx, listVars
<1>7. CASE Push(e)
  BY <1>2, <1>7 DEF Push
<1>8. CASE EnqueueFails(e)
  BY <1>1, <1>2, <1>8 DEF EnqueueFails
<1>9. CASE EnqueueResends(e)
  BY <1>1, <1>2, <1>9 DEF EnqueueResends
<1> QED
  BY <1>3, <1>4, <1>5, <1>6, <1>7, <1>8, <1>9 DEF EnqStep

\* What a worker does with the job it holds is accounted for, and the other
\* jobs stay where they were.
LEMMA ConservedWorkerStep ==
  ASSUME TypeInv, NEW w \in Workers, LoopStep(w) \/ RedisFails(w) \/ Resends(w) \/ Crash(w),
         NEW j \in accepted, Accounted(j), accepted' = accepted
  PROVE  Accounted(j)'
<1>0. /\ DOMAIN worker = Workers /\ worker[w] \in WorkerRecs(Len(issued))
      /\ processing \in [JobIds -> Nat] /\ j \in JobIds
  BY Basics DEF TypeInv, ProcTypes, ListTypes
<1>1. ASSUME jobs # <<>>, jobs' = SubSeq(jobs, 1, Len(jobs) - 1),
             processing' = [processing EXCEPT ![jobs[Len(jobs)]] = @ + 1],
             UNCHANGED <<done, lost>>,
             worker[w].pc = "idle", \A v \in Workers : v # w => worker'[v] = worker[v]
      PROVE  Accounted(j)'
  <2>1. PICK i : i = jobs[Len(jobs)]
    OBVIOUS
  <2>2. \A k : In(k, jobs) <=> k = i \/ In(k, jobs')
    BY <1>1, <2>1, PopJobs
  <2>3. processing'[j] >= processing[j] /\ (j = i => processing'[j] > 0)
    BY <1>0, <1>1, <2>1
  <2>4. InHand(j) => InHand(j)'
    BY <1>1 DEF InHand, OffList
  <2> QED
    BY <1>0, <1>1, <2>2, <2>3, <2>4 DEF Accounted
<1>2. ASSUME UNCHANGED <<jobs, processing, done, lost>>, ~OffList(w),
             \A v \in Workers : v # w => worker'[v] = worker[v]
      PROVE  Accounted(j)'
  BY <1>2 DEF Accounted, In, InHand, OffList
<1>3. ASSUME Lrem(worker[w].job), UNCHANGED jobs, Held(w),
             done \subseteq done', lost \subseteq lost',
             \A v \in Workers : v # w => worker'[v] = worker[v],
             \/ worker[w].job \in done' \cup lost'
             \/ OffList(w)' /\ worker'[w].job = worker[w].job
      PROVE  Accounted(j)'
  <2>1. worker[w].job \in JobIds
    BY <1>3, JobInHand
  <2>2. j # worker[w].job => processing'[j] = processing[j]
    BY <1>0, <1>3, <2>1 DEF Lrem
  <2>3. InHand(j) => j = worker[w].job \/ InHand(j)'
    BY <1>3 DEF InHand, OffList
  <2>4. CASE j = worker[w].job
    BY <1>3, <2>4 DEF Accounted, InHand, OffList
  <2>5. CASE j # worker[w].job
    BY <1>3, <2>2, <2>3, <2>5 DEF Accounted, In
  <2> QED
    BY <2>4, <2>5
<1>4. ASSUME Lpush(worker[w].job), UNCHANGED <<processing, done, lost>>, Held(w),
             \A v \in Workers : v # w => worker'[v] = worker[v]
      PROVE  Accounted(j)'
  <2>1. worker[w].job \in JobIds
    BY <1>4, JobInHand
  <2>2. \A k : In(k, jobs') <=> k = worker[w].job \/ In(k, jobs)
    BY <1>4, <2>1, LpushJobs
  <2>3. InHand(j) => j = worker[w].job \/ InHand(j)'
    BY <1>4 DEF InHand, OffList
  <2> QED
    BY <1>4, <2>2, <2>3 DEF Accounted
<1>5. ASSUME UNCHANGED <<jobs, processing, done>>, lost' = lost \cup {worker[w].job},
             \A v \in Workers : v # w => worker'[v] = worker[v]
      PROVE  Accounted(j)'
  <2>1. InHand(j) => j = worker[w].job \/ InHand(j)'
    BY <1>5 DEF InHand, OffList
  <2> QED
    BY <1>5, <2>1 DEF Accounted, In
<1>6. CASE Pop(w)
  <2>1. \A v \in Workers : v # w => worker'[v] = worker[v]
    BY <1>0, <1>6 DEF Pop
  <2> QED
    BY <1>1, <1>6, <2>1 DEF Pop, histVars
<1>7. CASE Read(w)
  <2>1. \A v \in Workers : v # w => worker'[v] = worker[v]
    BY <1>0, <1>7 DEF Read
  <2> QED
    BY <1>2, <1>7, <2>1 DEF Read, listVars, histVars, OffList
<1>8. CASE Save(w)
  BY <1>2, <1>8, WorkerGoto DEF Save, listVars, OffList
<1>9. CASE Fail(w)
  BY <1>2, <1>9, WorkerGoto DEF Fail, listVars, histVars, OffList
<1>10. CASE Ack(w)
  BY <1>3, <1>10, WorkerFree DEF Ack, Held
<1>11. CASE NackRem(w)
  <2>1. OffList(w)' /\ worker'[w].job = worker[w].job
        /\ \A v \in Workers : v # w => worker'[v] = worker[v]
    BY <1>11, WorkerGoto DEF NackRem, OffList
  <2> QED
    BY <1>3, <1>11, <2>1 DEF NackRem, histVars, Held
<1>12. CASE NackPush(w)
  BY <1>4, <1>12, WorkerFree DEF NackPush, histVars, Held
<1>13. CASE RedisFails(w)
  <2>1. CASE /\ worker[w].pc = "idle" /\ jobs # <<>>
             /\ jobs' = SubSeq(jobs, 1, Len(jobs) - 1)
             /\ processing' = [processing EXCEPT ![jobs[Len(jobs)]] = @ + 1]
             /\ UNCHANGED <<worker, done, lost>>
    BY <1>1, <2>1
  <2>2. CASE /\ worker[w].pc = "ack" /\ Goto(w, "nackRem")
             /\ \/ UNCHANGED <<processing, done>>
                \/ Lrem(worker[w].job) /\ done' = done \cup {worker[w].job}
             /\ UNCHANGED <<jobs, lost>>
    BY <1>2, <1>3, <2>2, WorkerGoto DEF Held, OffList
  <2>3. CASE /\ worker[w].pc \in {"nackRem", "nackAgain"} /\ Free(w)
             /\ \/ UNCHANGED processing /\ lost' = IF OffList(w) THEN lost \cup {worker[w].job}
                                                  ELSE lost
                \/ Lrem(worker[w].job) /\ lost' = lost \cup {worker[w].job}
             /\ UNCHANGED <<jobs, done>>
    <3>1. Held(w) /\ \A v \in Workers : v # w => worker'[v] = worker[v]
      BY <2>3, WorkerFree DEF Held
    <3>2. CASE UNCHANGED processing
      BY <1>2, <1>5, <2>3, <3>1, <3>2
    <3>3. CASE Lrem(worker[w].job) /\ lost' = lost \cup {worker[w].job}
      BY <1>3, <2>3, <3>1, <3>3
    <3> QED
      BY <2>3, <3>2, <3>3
  <2>4. CASE /\ worker[w].pc = "nackPush" /\ Free(w)
             /\ \/ Lpush(worker[w].job) /\ UNCHANGED lost
                \/ UNCHANGED jobs /\ lost' = lost \cup {worker[w].job}
             /\ UNCHANGED <<processing, done>>
    BY <1>4, <1>5, <2>4, WorkerFree DEF Held
  <2> QED
    BY <1>13, <2>1, <2>2, <2>3, <2>4 DEF RedisFails
<1>15. CASE Resends(w)
  <2>0. Held(w) /\ lost' = lost
    BY <1>15 DEF Resends, Held
  <2>1. CASE /\ worker[w].pc = "ack"
             /\ Lrem(worker[w].job) /\ done' = done \cup {worker[w].job}
             /\ UNCHANGED <<jobs, worker, resent>>
    BY <1>3, <2>0, <2>1
  <2>2. CASE /\ Lrem(worker[w].job) /\ Goto(w, "nackAgain")
             /\ UNCHANGED <<jobs, done, resent>>
    <3>1. OffList(w)' /\ worker'[w].job = worker[w].job
          /\ \A v \in Workers : v # w => worker'[v] = worker[v]
      BY <2>2, WorkerGoto DEF OffList
    <3> QED
      BY <1>3, <2>0, <2>2, <3>1
  <2>3. CASE /\ worker[w].pc = "nackPush" /\ Len(resent) < MaxResends
             /\ Lpush(worker[w].job)
             /\ resent' = Append(resent, worker[w].job)
             /\ UNCHANGED <<processing, worker, done>>
    BY <1>4, <2>0, <2>3
  <2> QED
    BY <1>15, <2>1, <2>2, <2>3 DEF Resends
<1>14. CASE Crash(w)
  BY <1>2, <1>5, <1>14, WorkerFree DEF Crash, listVars
<1> QED
  BY <1>6, <1>7, <1>8, <1>9, <1>10, <1>11, <1>12, <1>13, <1>14,
     <1>15 DEF LoopStep

\* A pushed job is done, queued, processing or in a worker's hands, unless its
\* worker failed between the LREM and the LPUSH of nackRequeue.
THEOREM ConservedTheorem == Spec => []JobsConserved
<1> DEFINE Conserved == \A j \in accepted : Accounted(j)
<1>1. Init => Conserved
  BY DEF Init
<1>2. TypeInv /\ Conserved /\ [Next]_vars => Conserved'
  <2> SUFFICES ASSUME TypeInv, Conserved, [Next]_vars PROVE Conserved'
    OBVIOUS
  <2>1. ASSUME UNCHANGED <<jobs, processing, worker, accepted, done, lost>>
        PROVE  Conserved'
    BY <2>1 DEF Accounted, In, InHand, OffList
  <2>2. ASSUME NEW s \in Sessions, NewMessage(s) PROVE Conserved'
    BY <2>1, <2>2 DEF NewMessage, listVars, histVars
  <2>3. CASE Tick
    BY <2>1, <2>3 DEF Tick, listVars, histVars
  <2>4. CASE UNCHANGED vars
    BY <2>1, <2>4 DEF vars
  <2>5. ASSUME NEW e \in Enqueuers, EnqStep(e) \/ EnqueueFails(e) \/ EnqueueResends(e) PROVE Conserved'
    BY <2>5, ConservedEnqStep
  <2>6. ASSUME NEW w \in Workers, LoopStep(w) \/ RedisFails(w) \/ Resends(w) \/ Crash(w)
        PROVE  Conserved'
    <3>1. accepted' = accepted
      BY <2>6 DEF LoopStep, Pop, Read, Save, Fail, Ack, NackRem, NackPush, RedisFails,
                  Resends, Crash, histVars
    <3> QED
      BY <2>6, <3>1, ConservedWorkerStep
  <2> QED
    BY <2>2, <2>3, <2>4, <2>5, <2>6 DEF Next
<1>3. Conserved => JobsConserved
  BY AccountedIn
<1> QED
  BY <1>1, <1>2, <1>3, TypeInit, TypeStep, PTL DEF Spec

-----------------------------------------------------------------------------
(* A state of a session is compensated once.                                *)

CompKey(s, v) == <<s, "compensate", v>>
IsIssued(k) == \E i \in 1..Len(issued) : issued[i] = k

\* The rows a compensation has read and not yet done with.
Pending(e) ==
  IF enq[e].pc = "idle" \/ enq[e].trigger # "compensate" THEN {}
  ELSE enq[e].rows \cup
       (IF enq[e].pc = "setNx" THEN {<<enq[e].session, enq[e].ver>>} ELSE {})

\* While the scan still finds a session whose present state was compensated,
\* its key outlives the rest of the day.
PastInv ==
  \A s \in Sessions, v \in Vers : IsIssued(CompKey(s, v)) =>
    /\ v <= ver[s]
    /\ v = ver[s] => age[s] >= 4 \/ ttl[CompKey(s, v)] + age[s] >= 5

\* A row that was read is an old state by now, or has been idle; if its job
\* was issued, here or by another replica, its key is there.
PendingInv ==
  \A e \in Enqueuers, s \in Sessions, v \in Vers : <<s, v>> \in Pending(e) =>
    /\ v <= ver[s]
    /\ v = ver[s] => age[s] >= 1
    /\ IsIssued(CompKey(s, v)) => ttl[CompKey(s, v)] > 0

CompInv == PastInv /\ PendingInv /\ CompensatedOnce

LEMMA Clocks ==
  ASSUME TypeInv
  PROVE  /\ \A s \in Sessions : ver[s] \in Nat /\ age[s] \in Nat /\ age[s] <= 4
         /\ \A s \in Sessions, v \in Vers :
              v \in Nat /\ CompKey(s, v) \in Keys /\ ttl[CompKey(s, v)] \in Nat
<1>1. \A k \in Keys : ttl[k] \in Nat
  BY Consts DEF TypeInv, TimeTypes
<1>2. \A s \in Sessions, v \in Vers : v \in Nat /\ CompKey(s, v) \in Keys
  BY Consts DEF CompKey, Keys, Vers
<1>3. \A s \in Sessions : ver[s] \in Nat /\ age[s] \in Nat /\ age[s] <= 4
  BY Consts DEF TypeInv, TimeTypes, Vers
<1> QED
  BY <1>1, <1>2, <1>3

\* A step that issues nothing, takes no key away and reads no row.
LEMMA CompStays ==
  ASSUME TypeInv, CompInv, UNCHANGED <<ver, age, issued>>,
         \A k \in Keys : ttl'[k] \in Nat /\ ttl'[k] >= ttl[k],
         \A e \in Enqueuers : Pending(e)' \subseteq Pending(e)
  PROVE  CompInv'
<1>1. \A k : IsIssued(k)' <=> IsIssued(k)
  BY DEF IsIssued
<1>2. \A s \in Sessions, v \in Vers : ttl'[CompKey(s, v)] \in Nat
                                      /\ ttl'[CompKey(s, v)] >= ttl[CompKey(s, v)]
  BY Clocks
<1>3. PastInv'
  <2> SUFFICES ASSUME NEW s \in Sessions, NEW v \in Vers, IsIssued(CompKey(s, v))
               PROVE  /\ v <= ver[s]
                      /\ v = ver[s] => age[s] >= 4 \/ ttl'[CompKey(s, v)] + age[s] >= 5
    BY <1>1 DEF PastInv, CompKey
  <2>1. /\ v <= ver[s]
        /\ v = ver[s] => age[s] >= 4 \/ ttl[CompKey(s, v)] + age[s] >= 5
    BY DEF CompInv, PastInv
  <2> QED
    BY <1>2, <2>1, Clocks
<1>4. PendingInv'
  <2> SUFFICES ASSUME NEW e \in Enqueuers, NEW s \in Sessions, NEW v \in Vers,
                      <<s, v>> \in Pending(e)
               PROVE  /\ v <= ver[s]
                      /\ v = ver[s] => age[s] >= 1
                      /\ IsIssued(CompKey(s, v)) => ttl'[CompKey(s, v)] > 0
    BY <1>1 DEF PendingInv, CompKey
  <2>1. /\ v <= ver[s]
        /\ v = ver[s] => age[s] >= 1
        /\ IsIssued(CompKey(s, v)) => ttl[CompKey(s, v)] > 0
    BY DEF CompInv, PendingInv
  <2> QED
    BY <1>2, <2>1, Clocks
<1>5. CompensatedOnce'
  BY DEF CompInv, CompensatedOnce
<1> QED
  BY <1>3, <1>4, <1>5 DEF CompInv

LEMMA CompNewMessage ==
  ASSUME TypeInv, CompInv, NEW t \in Sessions, NewMessage(t)
  PROVE  CompInv'
<1>1. /\ ver'[t] = ver[t] + 1 /\ ver[t] \in Nat
      /\ \A s \in Sessions : s # t => ver'[s] = ver[s] /\ age'[s] = age[s]
      /\ UNCHANGED <<ttl, enq, issued>>
  BY Clocks DEF NewMessage, histVars, TypeInv, TimeTypes
<1>2. PastInv'
  <2> SUFFICES ASSUME NEW s \in Sessions, NEW v \in Vers, IsIssued(CompKey(s, v))
               PROVE  /\ v <= ver'[s]
                      /\ v = ver'[s] => age'[s] >= 4 \/ ttl[CompKey(s, v)] + age'[s] >= 5
    BY <1>1 DEF PastInv, CompKey, IsIssued
  <2>1. /\ v <= ver[s] /\ v \in Nat
        /\ v = ver[s] => age[s] >= 4 \/ ttl[CompKey(s, v)] + age[s] >= 5
    BY Clocks DEF CompInv, PastInv
  <2>2. CASE s = t
    BY <1>1, <2>1, <2>2
  <2>3. CASE s # t
    BY <1>1, <2>1, <2>3
  <2> QED
    BY <2>2, <2>3
<1>3. PendingInv'
  <2> SUFFICES ASSUME NEW e \in Enqueuers, NEW s \in Sessions, NEW v \in Vers,
                      <<s, v>> \in Pending(e)
               PROVE  /\ v <= ver'[s]
                      /\ v = ver'[s] => age'[s] >= 1
                      /\ IsIssued(CompKey(s, v)) => ttl[CompKey(s, v)] > 0
    BY <1>1, ZenonT(30) DEF PendingInv, CompKey, IsIssued, Pending
  <2>1. /\ v <= ver[s] /\ v \in Nat
        /\ v = ver[s] => age[s] >= 1
        /\ IsIssued(CompKey(s, v)) => ttl[CompKey(s, v)] > 0
    BY Clocks DEF CompInv, PendingInv
  <2>2. CASE s = t
    BY <1>1, <2>1, <2>2
  <2>3. CASE s # t
    BY <1>1, <2>1, <2>3
  <2> QED
    BY <2>2, <2>3
<1>4. CompensatedOnce'
  BY <1>1 DEF CompInv, CompensatedOnce
<1> QED
  BY <1>2, <1>3, <1>4 DEF CompInv

\* Six hours take one unit off a key and add one to the age.
LEMMA CompTick ==
  ASSUME TypeInv, CompInv, Tick
  PROVE  CompInv'
<1>1. /\ UNCHANGED <<ver, enq, issued>> /\ \A e \in Enqueuers : enq[e].pc = "idle"
      /\ \A s \in Sessions : age'[s] = AtMost(age[s] + 1, 4)
      /\ \A k \in Keys : ttl'[k] = IF ttl[k] = 0 THEN 0 ELSE ttl[k] - 1
  BY DEF Tick, histVars
<1>2. PastInv'
  <2> SUFFICES ASSUME NEW s \in Sessions, NEW v \in Vers, IsIssued(CompKey(s, v))
               PROVE  /\ v <= ver[s]
                      /\ v = ver[s] => age'[s] >= 4 \/ ttl'[CompKey(s, v)] + age'[s] >= 5
    BY <1>1 DEF PastInv, CompKey, IsIssued
  <2>1. /\ v <= ver[s]
        /\ v = ver[s] => age[s] >= 4 \/ ttl[CompKey(s, v)] + age[s] >= 5
    BY DEF CompInv, PastInv
  <2>2. PICK t \in Nat : t = ttl[CompKey(s, v)]
    BY Clocks
  <2>3. PICK a \in Nat : a = age[s] /\ a <= 4
    BY Clocks
  <2>4. age'[s] = (IF a + 1 <= 4 THEN a + 1 ELSE 4)
        /\ ttl'[CompKey(s, v)] = (IF t = 0 THEN 0 ELSE t - 1)
    BY <1>1, <2>2, <2>3, Clocks DEF AtMost
  <2> QED
    BY <2>1, <2>2, <2>3, <2>4
<1>3. PendingInv'
  <2>1. \A e \in Enqueuers : Pending(e)' = Pending(e)
    BY <1>1 DEF Pending
  <2>2. \A e \in Enqueuers : Pending(e) = {}
    BY <1>1 DEF Pending
  <2> QED
    BY <2>1, <2>2 DEF PendingInv
<1>4. CompensatedOnce'
  BY <1>1 DEF CompInv, CompensatedOnce
<1> QED
  BY <1>2, <1>3, <1>4 DEF CompInv

\* What the scan reads has been idle for six hours and less than a day.
LEMMA CompScan ==
  ASSUME TypeInv, CompInv, NEW e \in Enqueuers, Scan(e)
  PROVE  CompInv'
<1>1. PICK found \in SUBSET Idle :
        enq' = IF found = {} THEN enq
               ELSE [enq EXCEPT ![e] =
                       [IdleEnq EXCEPT !.pc = "load", !.trigger = "compensate",
                                       !.rows = {<<s, ver[s]>> : s \in found}]]
  BY DEF Scan
<1>2. UNCHANGED <<ver, age, ttl, issued>> /\ DOMAIN enq = Enqueuers /\ enq[e].pc = "idle"
  BY DEF Scan, histVars, TypeInv, ProcTypes
<1>3. PastInv' /\ CompensatedOnce'
  BY <1>2 DEF CompInv, PastInv, CompensatedOnce, IsIssued, CompKey
<1>4. ASSUME NEW d \in Enqueuers, NEW s \in Sessions, NEW v \in Vers, <<s, v>> \in Pending(d)'
      PROVE  <<s, v>> \in Pending(d) \/ (s \in Idle /\ v = ver[s])
  <2> DEFINE rows == {<<u, ver[u]>> : u \in found}
             r == [IdleEnq EXCEPT !.pc = "load", !.trigger = "compensate", !.rows = rows]
  <2>1. CASE enq'[d] = enq[d]
    BY <1>4, <2>1 DEF Pending
  <2>2. CASE enq'[d] # enq[d]
    <3>1. d = e /\ enq'[e] = r
      BY <1>1, <1>2, <2>2
    <3>2. r.pc = "load" /\ r.rows = rows
      BY DEF IdleEnq
    <3> HIDE DEF r
    <3>3. <<s, v>> \in rows
      BY <1>4, <3>1, <3>2 DEF Pending
    <3> QED
      BY <3>3
  <2> QED
    BY <2>1, <2>2
<1>5. ASSUME NEW s \in Idle PROVE /\ s \in Sessions /\ ver[s] \in Vers /\ age[s] >= 1
                                  /\ IsIssued(CompKey(s, ver[s])) => ttl[CompKey(s, ver[s])] > 0
  <2>1. s \in Sessions /\ age[s] >= 1 /\ age[s] < 4 /\ ver[s] \in Vers
    BY DEF Idle, TypeInv, TimeTypes
  <2>2. IsIssued(CompKey(s, ver[s])) => ttl[CompKey(s, ver[s])] + age[s] >= 5
    BY <2>1, Clocks DEF CompInv, PastInv
  <2>3. PICK t \in Nat : t = ttl[CompKey(s, ver[s])]
    BY <2>1, Clocks
  <2>4. PICK a \in Nat : a = age[s]
    BY <2>1, Clocks
  <2>5. t + a >= 5 /\ a < 4 => t > 0
    OBVIOUS
  <2> QED
    BY <2>1, <2>2, <2>3, <2>4, <2>5
<1>6. PendingInv'
  <2> SUFFICES ASSUME NEW d \in Enqueuers, NEW s \in Sessions, NEW v \in Vers,
                      <<s, v>> \in Pending(d)'
               PROVE  /\ v <= ver[s]
                      /\ v = ver[s] => age[s] >= 1
                      /\ IsIssued(CompKey(s, v)) => ttl[CompKey(s, v)] > 0
    BY <1>2 DEF PendingInv, CompKey, IsIssued
  <2>1. CASE <<s, v>> \in Pending(d)
    BY <2>1 DEF CompInv, PendingInv
  <2>2. CASE s \in Idle /\ v = ver[s]
    BY <1>5, <2>2, Clocks
  <2> QED
    BY <1>4, <2>1, <2>2
<1> QED
  BY <1>3, <1>6, SMTT(30) DEF CompInv

\* A call that ends, or goes on with its other rows, has no more rows to do.
LEMMA PendingEnds ==
  ASSUME TypeInv, NEW e \in Enqueuers, enq[e].pc # "idle",
         enq' = [enq EXCEPT ![e] = EndRow(@)] \/ enq' = [enq EXCEPT ![e] = IdleEnq]
  PROVE  \A d \in Enqueuers : Pending(d)' \subseteq Pending(d)
<1>1. DOMAIN enq = Enqueuers /\ enq[e] \in EnqRecs(Len(issued))
  BY DEF TypeInv, ProcTypes
<1>2. \A d \in Enqueuers : d # e => Pending(d)' = Pending(d)
  BY <1>1 DEF Pending
<1>3. CASE enq'[e] = IdleEnq
  <2>1. Pending(e)' = {}
    BY <1>3 DEF Pending, IdleEnq
  <2> QED
    BY <1>2, <2>1
<1>4. CASE enq'[e] # IdleEnq
  <2> DEFINE r == [IdleEnq EXCEPT !.pc = "load", !.trigger = enq[e].trigger,
                                  !.rows = enq[e].rows]
  <2>1. enq'[e] = EndRow(enq[e])
    BY <1>1, <1>4
  <2>2. enq'[e] = r /\ enq[e].rows # {}
    BY <1>4, <2>1 DEF EndRow
  <2>3. r.pc = "load" /\ r.trigger = enq[e].trigger /\ r.rows = enq[e].rows
    BY DEF IdleEnq
  <2> HIDE DEF r
  <2>4. Pending(e)' \subseteq Pending(e)
    BY <2>2, <2>3 DEF Pending
  <2> QED
    BY <1>2, <2>4
<1> QED
  BY <1>3, <1>4

\* A job is issued under a key that was not there: the row is not compensated
\* yet, and from now on its key is there for four units.
LEMMA CompIssue ==
  ASSUME TypeInv, CompInv, NEW e \in Enqueuers, SetNx(e), ttl[DedupeKey(enq[e])] = 0
  PROVE  CompInv'
<1> DEFINE key == <<enq[e].session, enq[e].trigger, enq[e].ver>>
<1>1. /\ ttl' = [ttl EXCEPT ![key] = KeyTtl] /\ issued' = Append(issued, key)
      /\ enq' = [enq EXCEPT ![e].pc = "push", ![e].id = Len(issued) + 1]
      /\ UNCHANGED <<ver, age>> /\ enq[e].pc = "setNx" /\ ttl[key] = 0
  BY SMTT(30) DEF SetNx, DedupeKey
<1>2. /\ DOMAIN enq = Enqueuers /\ enq[e] \in EnqRecs(Len(issued)) /\ DOMAIN ttl = Keys
      /\ issued \in Seq(Keys) /\ Len(issued) \in Nat
  BY DEF TypeInv, ProcTypes, TimeTypes, ListTypes
<1>3. key \in Keys
  <2>1. enq[e].session \in Sessions /\ enq[e].ver \in Vers
        /\ enq[e].trigger \in Triggers \cup {"compensate", "none"}
    BY <1>2 DEF EnqRecs
  <2>2. enq[e].trigger # "none"
    BY <1>1 DEF TypeInv, InUse
  <2> QED
    BY <2>1, <2>2 DEF Keys
<1> HIDE DEF key
<1>4. /\ Len(issued') = Len(issued) + 1 /\ issued'[Len(issued) + 1] = key
      /\ \A i \in 1..Len(issued) : issued'[i] = issued[i]
  BY <1>1, <1>2, <1>3
<1>5. \A k : IsIssued(k)' => IsIssued(k) \/ k = key
  <2> SUFFICES ASSUME NEW k, NEW i \in 1..Len(issued'), issued'[i] = k
               PROVE  IsIssued(k) \/ k = key
    BY DEF IsIssued
  <2>1. i \in 1..Len(issued) \/ i = Len(issued) + 1
    BY <1>2, <1>4
  <2> QED
    BY <1>4, <2>1 DEF IsIssued
<1>6. \A k \in Keys : ttl'[k] = IF k = key THEN 4 ELSE ttl[k]
  BY <1>1, <1>2, Consts
<1>7. \A d \in Enqueuers : Pending(d)' \subseteq Pending(d)
  <2>1. \A d \in Enqueuers : d # e => Pending(d)' = Pending(d)
    BY <1>1, <1>2 DEF Pending
  <2> DEFINE r == [enq[e] EXCEPT !.pc = "push", !.id = Len(issued) + 1]
  <2>2. enq'[e] = r
    BY <1>1, <1>2
  <2>3. r.pc = "push" /\ r.trigger = enq[e].trigger /\ r.rows = enq[e].rows
    BY <1>2 DEF EnqRecs
  <2> HIDE DEF r
  <2>4. Pending(e)' \subseteq Pending(e)
    BY <1>1, <2>2, <2>3 DEF Pending
  <2> QED
    BY <2>1, <2>4
<1>8. ASSUME NEW s \in Sessions, NEW v \in Vers, CompKey(s, v) = key
      PROVE  /\ v <= ver[s] /\ (v = ver[s] => age[s] >= 1)
             /\ ~IsIssued(key)
  <2>1. s = enq[e].session /\ v = enq[e].ver /\ enq[e].trigger = "compensate"
    BY <1>8 DEF CompKey, key
  <2>2. <<s, v>> \in Pending(e)
    BY <1>1, <2>1 DEF Pending
  <2>3. /\ v <= ver[s] /\ (v = ver[s] => age[s] >= 1)
        /\ IsIssued(key) => ttl[key] > 0
    BY <1>8, <2>2 DEF CompInv, PendingInv
  <2> QED
    BY <1>1, <2>3
<1>9. PastInv'
  <2> SUFFICES ASSUME NEW s \in Sessions, NEW v \in Vers, IsIssued(CompKey(s, v))'
               PROVE  /\ v <= ver[s]
                      /\ v = ver[s] => age[s] >= 4 \/ ttl'[CompKey(s, v)] + age[s] >= 5
    BY <1>1 DEF PastInv, CompKey, IsIssued
  <2>1. PICK a \in Nat : a = age[s]
    BY Clocks
  <2>2. CASE CompKey(s, v) = key
    <3>1. ttl'[CompKey(s, v)] = 4
      BY <1>3, <1>6, <2>2
    <3>2. a >= 1 => 4 + a >= 5
      OBVIOUS
    <3> QED
      BY <1>8, <2>1, <2>2, <3>1, <3>2
  <2>3. CASE CompKey(s, v) # key
    <3>1. ttl'[CompKey(s, v)] = ttl[CompKey(s, v)]
      BY <1>6, <2>3, Clocks
    <3>2. IsIssued(CompKey(s, v))
      BY <1>5, <2>3
    <3> QED
      BY <3>1, <3>2 DEF CompInv, PastInv
  <2> QED
    BY <2>2, <2>3
<1>10. PendingInv'
  <2> SUFFICES ASSUME NEW d \in Enqueuers, NEW s \in Sessions, NEW v \in Vers,
                      <<s, v>> \in Pending(d)
               PROVE  /\ v <= ver[s]
                      /\ v = ver[s] => age[s] >= 1
                      /\ IsIssued(CompKey(s, v))' => ttl'[CompKey(s, v)] > 0
    BY <1>1, <1>7 DEF PendingInv, CompKey, IsIssued
  <2>1. /\ v <= ver[s] /\ (v = ver[s] => age[s] >= 1)
        /\ IsIssued(CompKey(s, v)) => ttl[CompKey(s, v)] > 0
    BY DEF CompInv, PendingInv
  <2>2. CASE CompKey(s, v) = key
    <3>1. ttl'[CompKey(s, v)] = 4
      BY <1>3, <1>6, <2>2
    <3> QED
      BY <2>1, <3>1
  <2>3. CASE CompKey(s, v) # key
    <3>1. ttl'[CompKey(s, v)] = ttl[CompKey(s, v)]
      BY <1>6, <2>3, Clocks
    <3>2. IsIssued(CompKey(s, v))' => IsIssued(CompKey(s, v))
      BY <1>5, <2>3
    <3> QED
      BY <2>1, <3>1, <3>2
  <2> QED
    BY <2>2, <2>3
<1>11. CompensatedOnce'
  <2> SUFFICES ASSUME NEW i \in 1..Len(issued'), NEW j \in 1..Len(issued'),
                      issued'[i] = issued'[j], issued'[i][2] = "compensate"
               PROVE  i = j
    BY DEF CompensatedOnce
  <2>1. \A n \in 1..Len(issued') : n \in 1..Len(issued) \/ n = Len(issued) + 1
    BY <1>2, <1>4
  <2>2. key[2] = "compensate" => ~IsIssued(key)
    <3>1. PICK s \in Sessions, t \in Triggers \cup {"compensate"}, v \in Vers :
               key = <<s, t, v>>
      BY <1>3 DEF Keys
    <3> QED
      BY <1>8, <3>1 DEF CompKey
  <2>3. ASSUME NEW n \in 1..Len(issued'), NEW m \in 1..Len(issued'),
               n = Len(issued) + 1, m \in 1..Len(issued),
               issued'[n] = issued'[m], issued'[n][2] = "compensate"
        PROVE  FALSE
    <3>1. issued[m] = key /\ key[2] = "compensate"
      BY <1>4, <2>3, Zenon
    <3>2. IsIssued(key)
      BY <2>3, <3>1 DEF IsIssued
    <3> QED
      BY <2>2, <3>1, <3>2
  <2>4. CASE i \in 1..Len(issued) /\ j \in 1..Len(issued)
    BY <1>4, <2>4 DEF CompInv, CompensatedOnce
  <2> QED
    BY <2>1, <2>3, <2>4
<1> QED
  BY <1>9, <1>10, <1>11 DEF CompInv

LEMMA CompEnqStep ==
  ASSUME TypeInv, CompInv, NEW e \in Enqueuers, EnqStep(e) \/ EnqueueFails(e) \/ EnqueueResends(e)
  PROVE  CompInv'
<1>1. DOMAIN enq = Enqueuers /\ enq[e] \in EnqRecs(Len(issued)) /\ DOMAIN ttl = Keys
  BY DEF TypeInv, ProcTypes, TimeTypes
<1>2. ASSUME UNCHANGED ttl
      PROVE  \A k \in Keys : ttl'[k] \in Nat /\ ttl'[k] >= ttl[k]
  BY <1>2, Consts DEF TypeInv, TimeTypes
<1>3. CASE BeginRequest(e)
  <2>1. PICK s \in Sessions, t \in Triggers :
          enq' = [enq EXCEPT ![e] = [IdleEnq EXCEPT !.pc = "load", !.session = s,
                                                    !.trigger = t]]
    BY <1>3 DEF BeginRequest
  <2> DEFINE r == [IdleEnq EXCEPT !.pc = "load", !.session = s, !.trigger = t]
  <2>2. enq'[e] = r /\ \A d \in Enqueuers : d # e => enq'[d] = enq[d]
    BY <1>1, <2>1
  <2>3. r.trigger = t /\ t # "compensate"
    BY QueueAssumption DEF IdleEnq
  <2> HIDE DEF r
  <2>4. \A d \in Enqueuers : Pending(d)' \subseteq Pending(d)
    BY <2>2, <2>3 DEF Pending
  <2> QED
    BY <1>2, <1>3, <2>4, CompStays DEF BeginRequest, timeVars, histVars
<1>4. CASE Scan(e)
  BY <1>4, CompScan
<1>5. CASE LoadPath(e)
  <2>1. /\ enq'[e].pc = "setNx" /\ enq'[e].trigger = enq[e].trigger
        /\ \A d \in Enqueuers : d # e => enq'[d] = enq[d]
        /\ enq[e].trigger = "compensate" =>
             \E row \in enq[e].rows : /\ enq'[e].rows = enq[e].rows \ {row}
                                      /\ enq'[e].session = row[1] /\ enq'[e].ver = row[2]
    BY <1>5, LoadPathEffect
  <2>2. enq[e].pc = "load" /\ enq[e].rows \subseteq Rows
    BY <1>1, <1>5, ZenonT(30) DEF LoadPath, EnqRecs
  <2>3. CASE enq[e].trigger = "compensate"
    <3>1. PICK row \in enq[e].rows : /\ enq'[e].rows = enq[e].rows \ {row}
                                     /\ enq'[e].session = row[1] /\ enq'[e].ver = row[2]
      BY <2>1, <2>3
    <3>2. row = <<row[1], row[2]>>
      BY <2>2 DEF Rows
    <3>3. Pending(e)' = (enq[e].rows \ {row}) \cup {row}
      BY <2>1, <2>3, <3>1, <3>2 DEF Pending
    <3>4. Pending(e) = enq[e].rows
      BY <2>2, <2>3 DEF Pending
    <3> QED
      BY <1>2, <1>5, <2>1, <3>3, <3>4, CompStays DEF LoadPath, timeVars, histVars, Pending
  <2>4. CASE enq[e].trigger # "compensate"
    <3>1. \A d \in Enqueuers : Pending(d)' \subseteq Pending(d)
      BY <2>1, <2>4 DEF Pending
    <3> QED
      BY <1>2, <1>5, <3>1, CompStays DEF LoadPath, timeVars, histVars
  <2> QED
    BY <2>3, <2>4
<1>6. CASE SetNx(e)
  <2>1. CASE ttl[DedupeKey(enq[e])] = 0
    BY <1>6, <2>1, CompIssue
  <2>2. CASE ttl[DedupeKey(enq[e])] # 0
    <3>1. ttl[DedupeKey(enq[e])] > 0
      <4>1. DedupeKey(enq[e]) \in Keys
        <5>1. enq[e].session \in Sessions /\ enq[e].ver \in Vers
              /\ enq[e].trigger \in Triggers \cup {"compensate", "none"}
          BY <1>1 DEF EnqRecs
        <5>2. enq[e].trigger # "none"
          BY <1>6 DEF SetNx, TypeInv, InUse
        <5> QED
          BY <5>1, <5>2 DEF Keys, DedupeKey
      <4>2. ttl[DedupeKey(enq[e])] \in 0..KeyTtl
        BY <4>1 DEF TypeInv, TimeTypes
      <4> QED
        BY <2>2, <4>2, Consts
    <3>2. /\ enq' = [enq EXCEPT ![e] = EndRow(@)] /\ enq[e].pc # "idle"
          /\ UNCHANGED <<ttl, issued, ver, age>>
      BY <1>6, <3>1 DEF SetNx
    <3>3. \A d \in Enqueuers : Pending(d)' \subseteq Pending(d)
      BY <3>2, PendingEnds
    <3> QED
      BY <1>2, <3>2, <3>3, CompStays
  <2> QED
    BY <2>1, <2>2
<1>7. CASE Push(e)
  <2>1. /\ enq' = [enq EXCEPT ![e] = EndRow(@)] /\ enq[e].pc # "idle"
        /\ UNCHANGED <<ttl, issued, ver, age>>
    BY <1>7 DEF Push, timeVars
  <2>2. \A d \in Enqueuers : Pending(d)' \subseteq Pending(d)
    BY <2>1, PendingEnds
  <2> QED
    BY <1>2, <2>1, <2>2, CompStays
<1>8. CASE EnqueueFails(e)
  <2>1. /\ enq' = [enq EXCEPT ![e] = IdleEnq] /\ enq[e].pc # "idle"
        /\ UNCHANGED <<issued, ver, age>>
        /\ ttl' = ttl \/ ( /\ ttl[DedupeKey(enq[e])] = 0
                           /\ ttl' = [ttl EXCEPT ![DedupeKey(enq[e])] = KeyTtl])
    BY <1>8 DEF EnqueueFails
  <2>2. \A d \in Enqueuers : Pending(d)' \subseteq Pending(d)
    BY <2>1, PendingEnds
  <2>3. PICK key : key = DedupeKey(enq[e])
    OBVIOUS
  <2>4. \A k \in Keys : ttl[k] \in 0..4 /\ (ttl'[k] = ttl[k] \/ (ttl[k] = 0 /\ ttl'[k] = 4))
    BY <1>1, <2>1, <2>3, Consts DEF TypeInv, TimeTypes
  <2>5. \A k \in Keys : ttl'[k] \in Nat /\ ttl'[k] >= ttl[k]
    BY <2>4
  <2> QED
    BY <2>1, <2>2, <2>5, CompStays
<1>9. CASE EnqueueResends(e)
  <2>1. /\ UNCHANGED <<issued, ver, age, enq>>
        /\ ttl' = ttl \/ ( /\ ttl[DedupeKey(enq[e])] = 0
                           /\ ttl' = [ttl EXCEPT ![DedupeKey(enq[e])] = KeyTtl])
    BY <1>9 DEF EnqueueResends
  <2>2. \A d \in Enqueuers : Pending(d)' \subseteq Pending(d)
    BY <2>1 DEF Pending
  <2>3. PICK key : key = DedupeKey(enq[e])
    OBVIOUS
  <2>4. \A k \in Keys : ttl[k] \in 0..4 /\ (ttl'[k] = ttl[k] \/ (ttl[k] = 0 /\ ttl'[k] = 4))
    BY <1>1, <2>1, <2>3, Consts DEF TypeInv, TimeTypes
  <2>5. \A k \in Keys : ttl'[k] \in Nat /\ ttl'[k] >= ttl[k]
    BY <2>4
  <2> QED
    BY <2>1, <2>2, <2>5, CompStays
<1> QED
  BY <1>3, <1>4, <1>5, <1>6, <1>7, <1>8, <1>9 DEF EnqStep

\* All replicas together compensate a state of a session at most once: the key
\* of the job outlives the time in which the scan finds the session silent.
THEOREM CompensatedTheorem == Spec => []CompensatedOnce
<1>1. Init => CompInv
  <2> SUFFICES ASSUME Init PROVE CompInv
    OBVIOUS
  <2>1. issued = <<>> /\ \A e \in Enqueuers : enq[e] = IdleEnq
    BY DEF Init
  <2>2. \A k : ~IsIssued(k)
    BY <2>1 DEF IsIssued
  <2>3. \A e \in Enqueuers : Pending(e) = {}
    <3>1. IdleEnq.pc = "idle"
      BY IdleShapes
    <3> QED
      BY <2>1, <3>1 DEF Pending
  <2> QED
    BY <2>1, <2>2, <2>3 DEF CompInv, PastInv, PendingInv, CompensatedOnce
<1>2. TypeInv /\ CompInv /\ [Next]_vars => CompInv'
  <2> SUFFICES ASSUME TypeInv, CompInv, [Next]_vars PROVE CompInv'
    OBVIOUS
  <2>1. ASSUME UNCHANGED <<ver, age, ttl, enq, issued>> PROVE CompInv'
    <3>1. \A e \in Enqueuers : Pending(e)' \subseteq Pending(e)
      BY <2>1 DEF Pending
    <3>2. \A k \in Keys : ttl'[k] \in Nat /\ ttl'[k] >= ttl[k]
      BY <2>1, Consts DEF TypeInv, TimeTypes
    <3> QED
      BY <2>1, <3>1, <3>2, CompStays
  <2>2. ASSUME NEW s \in Sessions, NewMessage(s) PROVE CompInv'
    BY <2>2, CompNewMessage
  <2>3. CASE Tick
    BY <2>3, CompTick
  <2>4. CASE UNCHANGED vars
    BY <2>1, <2>4 DEF vars
  <2>5. ASSUME NEW e \in Enqueuers, EnqStep(e) \/ EnqueueFails(e) \/ EnqueueResends(e) PROVE CompInv'
    BY <2>5, CompEnqStep
  <2>6. ASSUME NEW w \in Workers, LoopStep(w) \/ RedisFails(w) \/ Resends(w) \/ Crash(w)
        PROVE  CompInv'
    <3>1. UNCHANGED <<ver, age, ttl, enq, issued>>
      BY <2>6 DEF LoopStep, Pop, Read, Save, Fail, Ack, NackRem, NackPush, RedisFails,
                  Resends, Crash, histVars, timeVars
    <3> QED
      BY <2>1, <3>1
  <2> QED
    BY <2>2, <2>3, <2>4, <2>5, <2>6 DEF Next
<1>3. CompInv => CompensatedOnce
  BY DEF CompInv
<1> QED
  BY <1>1, <1>2, <1>3, TypeInit, TypeStep, PTL DEF Spec

-----------------------------------------------------------------------------
(* A job that is acknowledged has been extracted.                           *)

\* The messages of job j a worker is to have read.
Owed(j) == AtMost(issued[j][3], ReadTake)

\* No row, call or job speaks of more messages than its session has: messages
\* are never taken away, so what a worker reads later is at least as much.
Spoken(r) == /\ \A row \in r.rows : row[2] <= ver[row[1]]
             /\ r.ver <= ver[r.session]
SpokenInv ==
  /\ \A e \in Enqueuers : Spoken(enq[e])
  /\ \A j \in 1..Len(issued) : issued[j][3] <= ver[SessionOf(j)]

\* A worker about to save has read what it owes, and one about to acknowledge
\* has seen it extracted.
ReadEnough(w) ==
  /\ worker[w].pc = "save" => Owed(worker[w].job) <= worker[w].seen
  /\ worker[w].pc = "ack" =>
       Owed(worker[w].job) <= extracted[SessionOf(worker[w].job)]
PaidInv ==
  /\ \A w \in Workers : ReadEnough(w)
  /\ \A j \in done : Owed(j) <= extracted[SessionOf(j)]

LEMMA AtMostFacts ==
  ASSUME NEW m \in Nat, NEW n \in Nat, NEW b \in Nat, m <= n
  PROVE  AtMost(m, b) \in Nat /\ AtMost(m, b) <= AtMost(n, b) /\ AtMost(0, b) = 0
BY DEF AtMost

LEMMA JobShape ==
  ASSUME TypeInv, NEW j \in 1..Len(issued)
  PROVE  /\ SessionOf(j) \in Sessions /\ issued[j][3] \in Vers /\ issued[j][3] \in Nat
         /\ Owed(j) \in Nat /\ ver[SessionOf(j)] \in Nat /\ ver[SessionOf(j)] \in Vers
         /\ extracted[SessionOf(j)] \in Nat /\ extracted[SessionOf(j)] \in Vers
<1>1. issued[j] \in Keys
  BY DEF TypeInv, ListTypes
<1>2. SessionOf(j) \in Sessions /\ issued[j][3] \in Vers
  BY <1>1 DEF Keys, SessionOf
<1>3. \A n \in Vers : n \in Nat
  BY Consts DEF Vers
<1>4. ver[SessionOf(j)] \in Vers /\ extracted[SessionOf(j)] \in Vers
  BY <1>2 DEF TypeInv, TimeTypes
<1>5. Owed(j) \in Nat
  BY <1>2, <1>3, Consts DEF Owed, AtMost
<1> QED
  BY <1>2, <1>3, <1>4, <1>5

\* Jobs that were issued stay as they are.
LEMMA JobStays ==
  ASSUME TypeInv, NEW j \in 1..Len(issued),
         issued' = issued \/ \E k : issued' = Append(issued, k)
  PROVE  /\ issued'[j] = issued[j] /\ SessionOf(j)' = SessionOf(j) /\ Owed(j)' = Owed(j)
<1>1. issued \in Seq(Keys)
  BY DEF TypeInv, ListTypes
<1>2. issued'[j] = issued[j]
  <2>1. CASE issued' = issued
    BY <2>1
  <2>2. ASSUME NEW k, issued' = Append(issued, k) PROVE issued'[j] = issued[j]
    BY <1>1, <2>2
  <2> QED
    BY <2>1, <2>2
<1> QED
  BY <1>2 DEF SessionOf, Owed, AtMost

\* What is paid stays so while the workers and the extractions do.
LEMMA PaidStays ==
  ASSUME TypeInv, PaidInv, UNCHANGED <<worker, done, extracted>>,
         issued' = issued \/ \E k : issued' = Append(issued, k)
  PROVE  PaidInv'
<1>1. \A j \in 1..Len(issued) : SessionOf(j)' = SessionOf(j) /\ Owed(j)' = Owed(j)
  BY JobStays
<1>2. done \subseteq 1..Len(issued)
  BY DEF TypeInv, ListTypes
<1>3. ASSUME NEW w \in Workers PROVE ReadEnough(w)'
  <2>1. CASE Held(w)
    <3>1. worker[w].job \in 1..Len(issued)
      BY <2>1, JobInHand
    <3> DEFINE j == worker[w].job
    <3>2. /\ worker' = worker /\ extracted' = extracted
          /\ SessionOf(j)' = SessionOf(j) /\ Owed(j)' = Owed(j)
      BY <1>1, <3>1
    <3>3. ReadEnough(w)
      BY DEF PaidInv
    <3> QED
      BY <3>2, <3>3 DEF ReadEnough
  <2>2. CASE ~Held(w)
    BY <2>2 DEF ReadEnough, Held
  <2> QED
    BY <2>1, <2>2
<1>4. \A j \in done' : Owed(j)' <= extracted'[SessionOf(j)']
  BY <1>1, <1>2 DEF PaidInv
<1> QED
  BY <1>3, <1>4 DEF PaidInv

LEMMA SpokenStays ==
  ASSUME SpokenInv, UNCHANGED <<ver, enq, issued>>
  PROVE  SpokenInv'
BY DEF SpokenInv, Spoken, SessionOf

\* A call goes on as r, which speaks of no more than there is.
LEMMA SpokenMoves ==
  ASSUME TypeInv, SpokenInv, NEW e \in Enqueuers, NEW r, Spoken(r),
         enq' = [enq EXCEPT ![e] = r], UNCHANGED <<ver, issued>>
  PROVE  SpokenInv'
<1>1. \A d \in Enqueuers : enq'[d] = IF d = e THEN r ELSE enq[d]
  BY DEF TypeInv, ProcTypes
<1>2. \A d \in Enqueuers : Spoken(enq'[d])
  BY <1>1 DEF SpokenInv
<1> QED
  BY <1>2 DEF SpokenInv, Spoken, SessionOf

LEMMA SpokenIdle ==
  ASSUME TypeInv
  PROVE  Spoken(IdleEnq)
<1>1. IdleEnq.session \in Sessions /\ IdleEnq.rows = {} /\ IdleEnq.ver = 0
  BY IdleShapes, Consts DEF IdleEnq, EnqRecs
<1>2. ver[IdleEnq.session] \in Nat
  BY <1>1, Consts DEF TypeInv, TimeTypes, Vers
<1> QED
  BY <1>1, <1>2 DEF Spoken

\* The rest of a scan speaks of what the scan spoke of.
LEMMA SpokenEnd ==
  ASSUME TypeInv, NEW e \in Enqueuers, Spoken(enq[e])
  PROVE  Spoken(EndRow(enq[e]))
<1>1. CASE enq[e].rows = {}
  BY <1>1, SpokenIdle DEF EndRow
<1>2. CASE enq[e].rows # {}
  <2> DEFINE r == [IdleEnq EXCEPT !.pc = "load", !.trigger = enq[e].trigger,
                                  !.rows = enq[e].rows]
  <2>1. r.session = IdleEnq.session /\ r.ver = IdleEnq.ver /\ r.rows = enq[e].rows
    BY DEF IdleEnq
  <2>2. EndRow(enq[e]) = r
    BY <1>2 DEF EndRow
  <2> HIDE DEF r
  <2>3. Spoken(r)
    BY <2>1, SpokenIdle DEF Spoken
  <2> QED
    BY <2>2, <2>3
<1> QED
  BY <1>1, <1>2

LEMMA DoneEnqStep ==
  ASSUME TypeInv, SpokenInv, NEW e \in Enqueuers, EnqStep(e) \/ EnqueueFails(e) \/ EnqueueResends(e)
  PROVE  SpokenInv' /\ (issued' = issued \/ \E k : issued' = Append(issued, k))
<1>0. /\ Spoken(enq[e]) /\ Spoken(IdleEnq) /\ Spoken(EndRow(enq[e]))
      /\ enq[e] \in EnqRecs(Len(issued)) /\ \A s \in Sessions : ver[s] \in Nat
  BY SpokenIdle, SpokenEnd, Consts DEF SpokenInv, TypeInv, TimeTypes, ProcTypes, Vers
<1>1. CASE BeginRequest(e)
  <2>1. PICK s \in Sessions, t \in Triggers :
          enq' = [enq EXCEPT ![e] = [IdleEnq EXCEPT !.pc = "load", !.session = s,
                                                    !.trigger = t]]
    BY <1>1 DEF BeginRequest
  <2> DEFINE r == [IdleEnq EXCEPT !.pc = "load", !.session = s, !.trigger = t]
  <2>2. r.rows = {} /\ r.session = s /\ r.ver = 0
    BY DEF IdleEnq
  <2>3. enq' = [enq EXCEPT ![e] = r]
    BY <2>1
  <2> HIDE DEF r
  <2>4. Spoken(r)
    BY <1>0, <2>2 DEF Spoken
  <2> QED
    BY <1>1, <2>3, <2>4, SpokenMoves DEF BeginRequest, timeVars, histVars
<1>2. CASE Scan(e)
  <2>1. PICK found \in SUBSET Idle :
          enq' = IF found = {} THEN enq
                 ELSE [enq EXCEPT ![e] =
                         [IdleEnq EXCEPT !.pc = "load", !.trigger = "compensate",
                                         !.rows = {<<s, ver[s]>> : s \in found}]]
    BY <1>2 DEF Scan
  <2>2. CASE found = {}
    BY <1>2, <2>1, <2>2, SpokenStays DEF Scan, histVars
  <2>3. CASE found # {}
    <3> DEFINE rows == {<<s, ver[s]>> : s \in found}
               r == [IdleEnq EXCEPT !.pc = "load", !.trigger = "compensate", !.rows = rows]
    <3>1. \A row \in rows : row[2] <= ver[row[1]]
      BY <1>0 DEF Idle
    <3>2. enq' = [enq EXCEPT ![e] = r]
      BY <2>1, <2>3
    <3> HIDE DEF rows
    <3>3. r.rows = rows /\ r.session = IdleEnq.session /\ r.ver = IdleEnq.ver
      BY DEF IdleEnq
    <3> HIDE DEF r
    <3>4. Spoken(r)
      BY <1>0, <3>1, <3>3 DEF Spoken
    <3> QED
      BY <1>2, <3>2, <3>4, SpokenMoves DEF Scan, histVars
  <2> QED
    BY <2>2, <2>3
<1>3. CASE LoadPath(e)
  <2>1. UNCHANGED <<ver, issued>>
    BY <1>3 DEF LoadPath, timeVars, histVars
  <2>2. \E r : Spoken(r) /\ enq' = [enq EXCEPT ![e] = r]
    <3>1. ASSUME NEW row \in enq[e].rows,
                 enq' = [enq EXCEPT ![e].pc = "setNx", ![e].rows = @ \ {row},
                                    ![e].session = row[1], ![e].ver = row[2]]
          PROVE  \E r : Spoken(r) /\ enq' = [enq EXCEPT ![e] = r]
      <4> DEFINE r == [enq[e] EXCEPT !.pc = "setNx", !.rows = @ \ {row},
                                     !.session = row[1], !.ver = row[2]]
      <4>1. r.rows = enq[e].rows \ {row} /\ r.session = row[1] /\ r.ver = row[2]
        BY <1>0 DEF EnqRecs
      <4>2. enq' = [enq EXCEPT ![e] = r]
        BY <3>1 DEF TypeInv, ProcTypes
      <4> HIDE DEF r
      <4>3. Spoken(r)
        BY <1>0, <4>1 DEF Spoken
      <4> QED
        BY <4>2, <4>3
    <3>2. ASSUME NEW v \in 0..ver[enq[e].session],
                 enq' = [enq EXCEPT ![e].pc = "setNx", ![e].ver = v]
          PROVE  \E r : Spoken(r) /\ enq' = [enq EXCEPT ![e] = r]
      <4> DEFINE r == [enq[e] EXCEPT !.pc = "setNx", !.ver = v]
      <4>1. r.rows = enq[e].rows /\ r.session = enq[e].session /\ r.ver = v
        BY <1>0 DEF EnqRecs
      <4>2. enq' = [enq EXCEPT ![e] = r]
        BY <3>2 DEF TypeInv, ProcTypes
      <4> HIDE DEF r
      <4>3. Spoken(r)
        BY <1>0, <4>1 DEF Spoken
      <4> QED
        BY <4>2, <4>3
    <3>3. ver[enq[e].session] \in 0..ver[enq[e].session]
      BY <1>0 DEF EnqRecs
    <3> QED
      BY <1>3, <3>1, <3>2, <3>3 DEF LoadPath
  <2> QED
    BY <2>1, <2>2, SpokenMoves
<1>4. CASE SetNx(e)
  <2>1. CASE ttl[DedupeKey(enq[e])] > 0
    BY <1>0, <1>4, <2>1, SpokenMoves DEF SetNx
  <2>2. CASE ~(ttl[DedupeKey(enq[e])] > 0)
    <3> DEFINE key == <<enq[e].session, enq[e].trigger, enq[e].ver>>
               r == [enq[e] EXCEPT !.pc = "push", !.id = Len(issued) + 1]
    <3>1. issued' = Append(issued, key) /\ ver' = ver
      BY <1>4, <2>2 DEF SetNx
    <3>2. enq' = [enq EXCEPT ![e] = r]
      BY <1>4, <2>2 DEF SetNx, TypeInv, ProcTypes
    <3>3. r.rows = enq[e].rows /\ r.session = enq[e].session /\ r.ver = enq[e].ver
      BY <1>0 DEF EnqRecs
    <3>4. key[1] = enq[e].session /\ key[3] = enq[e].ver
      OBVIOUS
    <3> HIDE DEF r, key
    <3>5. \A d \in Enqueuers : enq'[d] = IF d = e THEN r ELSE enq[d]
      BY <3>2 DEF TypeInv, ProcTypes
    <3>6. \A d \in Enqueuers : Spoken(enq'[d])
      BY <1>0, <3>3, <3>5 DEF SpokenInv, Spoken
    <3>7. issued \in Seq(Keys) /\ Len(issued) \in Nat
      BY DEF TypeInv, ListTypes
    <3>8. \A j \in 1..Len(issued') :
             IF j = Len(issued) + 1 THEN issued'[j] = key
             ELSE j \in 1..Len(issued) /\ issued'[j] = issued[j]
      BY <3>1, <3>7
    <3>9. ASSUME NEW j \in 1..Len(issued') PROVE issued'[j][3] <= ver'[issued'[j][1]]
      <4>1. CASE j = Len(issued) + 1
        BY <1>0, <3>1, <3>4, <3>8, <4>1 DEF Spoken
      <4>2. CASE j # Len(issued) + 1
        BY <3>1, <3>8, <4>2 DEF SpokenInv, SessionOf
      <4> QED
        BY <4>1, <4>2
    <3>10. \A d \in Enqueuers : Spoken(enq[d])'
      BY <3>1, <3>6 DEF Spoken
    <3> QED
      BY <3>1, <3>9, <3>10 DEF SpokenInv, SessionOf
  <2> QED
    BY <2>1, <2>2
<1>5. CASE Push(e)
  BY <1>0, <1>5, SpokenMoves DEF Push, timeVars
<1>6. CASE EnqueueFails(e)
  BY <1>0, <1>6, SpokenMoves DEF EnqueueFails
<1>7. CASE EnqueueResends(e)
  BY <1>7, SpokenStays DEF EnqueueResends
<1> QED
  BY <1>1, <1>2, <1>3, <1>4, <1>5, <1>6, <1>7 DEF EnqStep

\* Worker w goes on as r, having read enough, with the extractions as they are.
LEMMA PaidMoves ==
  ASSUME TypeInv, PaidInv, NEW w \in Workers, NEW r,
         worker' = [worker EXCEPT ![w] = r], UNCHANGED <<issued, extracted>>,
         r.pc = "save" => Owed(r.job) <= r.seen,
         r.pc = "ack" => Owed(r.job) <= extracted[SessionOf(r.job)],
         done' = done \/ (worker[w].pc = "ack" /\ done' = done \cup {worker[w].job})
  PROVE  PaidInv'
<1>1. \A v \in Workers : worker'[v] = IF v = w THEN r ELSE worker[v]
  BY DEF TypeInv, ProcTypes
<1>2. \A j : Owed(j)' = Owed(j) /\ SessionOf(j)' = SessionOf(j)
  BY DEF Owed, SessionOf, AtMost
<1>3. ASSUME NEW v \in Workers PROVE ReadEnough(v)'
  <2>1. ReadEnough(v)
    BY DEF PaidInv
  <2>2. CASE v = w
    <3>1. /\ worker'[v] = r /\ extracted' = extracted
          /\ Owed(r.job)' = Owed(r.job) /\ SessionOf(r.job)' = SessionOf(r.job)
      BY <1>1, <1>2, <2>2 DEF Owed, SessionOf, AtMost
    <3> QED
      BY <3>1, <2>2 DEF ReadEnough, Owed, SessionOf, AtMost
  <2>3. CASE v # w
    <3>1. worker'[v] = worker[v] /\ extracted' = extracted /\ issued' = issued
      BY <1>1, <2>3
    <3> QED
      BY <2>1, <3>1 DEF ReadEnough, Owed, SessionOf, AtMost
  <2> QED
    BY <2>2, <2>3
<1>4. ASSUME NEW j \in done' PROVE Owed(j)' <= extracted'[SessionOf(j)']
  <2>1. Owed(j) <= extracted[SessionOf(j)]
    BY <1>4 DEF PaidInv, ReadEnough
  <2> QED
    BY <1>2, <2>1
<1> QED
  BY <1>3, <1>4 DEF PaidInv

\* A read finds at least what the job was issued for, an extraction adds what
\* was read to what is extracted, and only what is extracted is acknowledged.
LEMMA DoneWorkerStep ==
  ASSUME TypeInv, SpokenInv, PaidInv, NEW w \in Workers,
         LoopStep(w) \/ RedisFails(w) \/ Resends(w) \/ Crash(w)
  PROVE  SpokenInv' /\ PaidInv'
<1>0. UNCHANGED <<ver, enq, issued>>
  BY DEF LoopStep, Pop, Read, Save, Fail, Ack, NackRem, NackPush, RedisFails, Resends, Crash,
         histVars, timeVars
<1>1. SpokenInv'
  BY <1>0, SpokenStays
<1> SUFFICES PaidInv'
  BY <1>1
<1>2. /\ worker[w] \in WorkerRecs(Len(issued)) /\ IdleWorker.pc = "idle" /\ ReadEnough(w)
      /\ worker \in [Workers -> WorkerRecs(Len(issued))] /\ Len(issued) \in Nat
  BY IdleShapes DEF TypeInv, ProcTypes, ListTypes, PaidInv
<1>3. CASE Free(w) /\ extracted' = extracted
           /\ (done' = done \/ (worker[w].pc = "ack" /\ done' = done \cup {worker[w].job}))
  BY <1>0, <1>2, <1>3, PaidMoves DEF Free
<1>4. ASSUME NEW pc \in WorkerPcs \ {"save", "ack"}, Goto(w, pc), extracted' = extracted,
             done' = done \/ (worker[w].pc = "ack" /\ done' = done \cup {worker[w].job})
      PROVE  PaidInv'
  <2> DEFINE r == [worker[w] EXCEPT !.pc = pc]
  <2>1. r.pc = pc /\ worker' = [worker EXCEPT ![w] = r]
    BY <1>2, <1>4 DEF Goto, WorkerRecs
  <2> HIDE DEF r
  <2> QED
    BY <1>0, <1>4, <2>1, PaidMoves
<1>5. ASSUME UNCHANGED <<worker, done, extracted>> PROVE PaidInv'
  BY <1>0, <1>5, PaidStays
<1>6. CASE Pop(w)
  <2> DEFINE r == [pc |-> "read", job |-> jobs[Len(jobs)], seen |-> 0]
  <2>1. worker' = [worker EXCEPT ![w] = r] /\ UNCHANGED <<done, extracted>>
    BY <1>6 DEF Pop, histVars
  <2>2. r.pc = "read"
    OBVIOUS
  <2> HIDE DEF r
  <2> QED
    BY <1>0, <2>1, <2>2, PaidMoves
<1>7. CASE Read(w)
  <2> DEFINE j == worker[w].job
             n == ver[SessionOf(j)]
             r == [worker[w] EXCEPT !.pc = IF n = 0 THEN "ack" ELSE "save",
                                    !.seen = AtMost(n, ReadTake)]
  <2>1. j \in 1..Len(issued)
    BY <1>7, JobInHand DEF Read, Held
  <2>2. /\ issued[j][3] \in Nat /\ n \in Nat /\ issued[j][3] <= n
        /\ extracted[SessionOf(j)] \in Nat
    BY <2>1, JobShape DEF SpokenInv
  <2>3. Owed(j) <= AtMost(n, ReadTake) /\ AtMost(0, ReadTake) = 0 /\ Owed(j) \in Nat
    BY <2>2, Consts, AtMostFacts DEF Owed
  <2>4. worker' = [worker EXCEPT ![w] = r] /\ UNCHANGED <<done, extracted>>
    BY <1>2, <1>7 DEF Read, histVars
  <2>5. /\ r.pc = (IF n = 0 THEN "ack" ELSE "save") /\ r.job = j
        /\ r.seen = AtMost(n, ReadTake)
    BY <1>2 DEF WorkerRecs
  <2>6. n = 0 => Owed(j) <= extracted[SessionOf(j)]
    BY <2>2, <2>3
  <2> HIDE DEF j, n, r
  <2> QED
    BY <1>0, <2>3, <2>4, <2>5, <2>6, PaidMoves
<1>8. CASE Save(w)
  <2>0. PICK j \in 1..Len(issued) : j = worker[w].job /\ worker[w].pc = "save"
    BY <1>8, JobInHand DEF Save, Held
  <2>1. PICK s \in Sessions : s = SessionOf(j)
    BY JobShape
  <2>2. /\ extracted[s] \in Nat /\ worker[w].seen \in Nat
        /\ Owed(j) <= worker[w].seen /\ Owed(j) \in Nat
    BY <1>2, <2>0, <2>1, JobShape, Consts DEF ReadEnough, WorkerRecs, Vers
  <2>3. /\ extracted' = [extracted EXCEPT ![s] =
                           IF @ < worker[w].seen THEN worker[w].seen ELSE @]
        /\ worker' = [worker EXCEPT ![w].pc = "ack"] /\ done' = done
    BY <1>8, <2>0, <2>1 DEF Save, Goto
  <2>4. extracted \in [Sessions -> Nat]
    BY Consts DEF TypeInv, TimeTypes, Vers
  <2>5. /\ extracted'[s] >= worker[w].seen
        /\ \A t \in Sessions : extracted'[t] >= extracted[t] /\ extracted'[t] \in Nat
    BY <2>2, <2>3, <2>4
  <2>6. \A i \in 1..Len(issued) :
          /\ Owed(i)' = Owed(i) /\ SessionOf(i)' = SessionOf(i)
          /\ Owed(i) \in Nat /\ SessionOf(i) \in Sessions
    BY <1>0, JobStays, JobShape
  <2>7. \A i \in 1..Len(issued) :
          Owed(i) <= extracted[SessionOf(i)] => Owed(i) <= extracted'[SessionOf(i)]
    BY <2>4, <2>5, <2>6
  <2>8. ASSUME NEW v \in Workers PROVE ReadEnough(v)'
    <3>1. CASE v = w
      <4>1. worker'[v].pc = "ack" /\ worker'[v].job = j
        BY <1>2, <2>0, <2>3, <3>1 DEF WorkerRecs
      <4>2. Owed(j) <= extracted'[s] /\ Owed(j)' = Owed(j) /\ SessionOf(j)' = s
        BY <2>1, <2>2, <2>5, <2>6
      <4>3. issued' = issued
        BY <1>0
      <4> QED
        BY <4>1, <4>2, <4>3 DEF ReadEnough, Owed, SessionOf, AtMost
    <3>2. CASE v # w
      <4>1. worker'[v] = worker[v] /\ ReadEnough(v) /\ issued' = issued
        BY <1>0, <2>3, <3>2 DEF PaidInv
      <4>2. CASE Held(v)
        <5>1. worker[v].job \in 1..Len(issued)
          BY <4>2, JobInHand
        <5>2. Owed(worker[v].job) <= extracted[SessionOf(worker[v].job)]
                => Owed(worker[v].job) <= extracted'[SessionOf(worker[v].job)]
          BY <5>1, <2>7
        <5> QED
          BY <4>1, <5>2 DEF ReadEnough, Owed, SessionOf, AtMost
      <4>3. CASE ~Held(v)
        BY <4>1, <4>3 DEF ReadEnough, Held
      <4> QED
        BY <4>2, <4>3
    <3> QED
      BY <3>1, <3>2
  <2>9. \A i \in done' : Owed(i)' <= extracted'[SessionOf(i)']
    <3>1. done \subseteq 1..Len(issued)
      BY DEF TypeInv, ListTypes
    <3> QED
      BY <2>3, <2>6, <2>7, <3>1 DEF PaidInv
  <2> QED
    BY <2>8, <2>9 DEF PaidInv
<1>9. CASE Fail(w)
  BY <1>4, <1>9 DEF Fail, WorkerPcs, histVars
<1>10. CASE Ack(w)
  BY <1>3, <1>10 DEF Ack
<1>11. CASE NackRem(w)
  BY <1>4, <1>11 DEF NackRem, WorkerPcs, histVars
<1>12. CASE NackPush(w)
  BY <1>3, <1>12 DEF NackPush, histVars
<1>13. CASE RedisFails(w)
  BY <1>3, <1>4, <1>5, <1>13 DEF RedisFails, WorkerPcs
<1>15. CASE Resends(w)
  <2>1. CASE Goto(w, "nackAgain") /\ done' = done
    BY <1>4, <1>15, <2>1 DEF Resends, WorkerPcs
  <2>2. CASE worker[w].pc = "ack" /\ worker' = worker /\ done' = done \cup {worker[w].job}
    <3>1. worker' = [worker EXCEPT ![w] = worker[w]] /\ extracted' = extracted
      BY <1>2, <1>15, <2>2 DEF Resends
    <3> QED
      BY <1>0, <1>2, <2>2, <3>1, PaidMoves DEF ReadEnough
  <2>3. CASE worker' = worker /\ done' = done
    BY <1>5, <1>15, <2>3 DEF Resends
  <2> QED
    BY <1>15, <2>1, <2>2, <2>3 DEF Resends
<1>14. CASE Crash(w)
  BY <1>3, <1>14 DEF Crash
<1> QED
  BY <1>1, <1>6, <1>7, <1>8, <1>9, <1>10, <1>11, <1>12, <1>13, <1>14,
     <1>15 DEF LoopStep

\* A job is acknowledged only after an extraction that read every message the
\* session had when the job was asked for, up to the worker's reading limit,
\* whichever calls fail or are repeated and whichever replicas die.
THEOREM DoneTheorem == Spec => []DoneIsExtracted
<1>1. Init => SpokenInv /\ PaidInv
  <2> SUFFICES ASSUME Init PROVE SpokenInv /\ PaidInv
    OBVIOUS
  <2>1. /\ TypeInv /\ issued = <<>> /\ Len(issued) = 0 /\ done = {}
        /\ \A e \in Enqueuers : enq[e] = IdleEnq
        /\ \A w \in Workers : worker[w].pc = "idle"
    BY TypeInit, IdleShapes DEF Init
  <2> QED
    BY <2>1, SpokenIdle DEF SpokenInv, PaidInv, ReadEnough
<1>2. TypeInv /\ SpokenInv /\ PaidInv /\ [Next]_vars => (SpokenInv /\ PaidInv)'
  <2> SUFFICES ASSUME TypeInv, SpokenInv, PaidInv, [Next]_vars
               PROVE  SpokenInv' /\ PaidInv'
    OBVIOUS
  <2>1. ASSUME UNCHANGED <<ver, enq, issued, worker, done, extracted>>
        PROVE  SpokenInv' /\ PaidInv'
    BY <2>1, SpokenStays, PaidStays
  <2>2. ASSUME NEW s \in Sessions, NewMessage(s) PROVE SpokenInv' /\ PaidInv'
    <3>1. /\ UNCHANGED <<enq, issued, worker, done, extracted>>
          /\ ver' = [ver EXCEPT ![s] = @ + 1]
      BY <2>2 DEF NewMessage, histVars
    <3>2. \A t \in Sessions : ver[t] \in Nat /\ ver'[t] \in Nat /\ ver'[t] >= ver[t]
      BY <3>1, Consts DEF TypeInv, TimeTypes, Vers
    <3>3. ASSUME NEW e \in Enqueuers PROVE Spoken(enq[e])'
      <4>1. /\ enq[e].session \in Sessions /\ enq[e].ver \in Nat /\ Spoken(enq[e])
            /\ \A row \in enq[e].rows : row[1] \in Sessions /\ row[2] \in Nat
        BY Consts DEF TypeInv, ProcTypes, EnqRecs, Rows, Vers, SpokenInv
      <4>2. enq'[e] = enq[e]
        BY <3>1
      <4> QED
        BY <3>2, <4>1, <4>2 DEF Spoken
    <3>4. ASSUME NEW j \in 1..Len(issued) PROVE issued[j][3] <= ver'[SessionOf(j)]
      <4>1. issued[j][3] \in Nat /\ SessionOf(j) \in Sessions
        BY JobShape
      <4> QED
        BY <3>2, <4>1 DEF SpokenInv
    <3>5. SpokenInv'
      BY <3>1, <3>3, <3>4 DEF SpokenInv, SessionOf
    <3> QED
      BY <3>1, <3>5, PaidStays
  <2>3. CASE Tick
    BY <2>1, <2>3 DEF Tick, histVars
  <2>4. CASE UNCHANGED vars
    BY <2>1, <2>4 DEF vars
  <2>5. ASSUME NEW e \in Enqueuers, EnqStep(e) \/ EnqueueFails(e) \/ EnqueueResends(e)
        PROVE  SpokenInv' /\ PaidInv'
    <3>1. UNCHANGED <<worker, done, extracted>>
      BY <2>5 DEF EnqStep, EnqueueFails, EnqueueResends, BeginRequest, Scan, LoadPath, SetNx, Push, histVars
    <3> QED
      BY <2>5, <3>1, DoneEnqStep, PaidStays, SMTT(30)
  <2>6. ASSUME NEW w \in Workers, LoopStep(w) \/ RedisFails(w) \/ Resends(w) \/ Crash(w)
        PROVE  SpokenInv' /\ PaidInv'
    BY <2>6, DoneWorkerStep
  <2> QED
    BY <2>2, <2>3, <2>4, <2>5, <2>6 DEF Next
<1>3. TypeInv /\ PaidInv => DoneIsExtracted
  <2> SUFFICES ASSUME TypeInv, PaidInv, NEW j \in done
               PROVE  extracted[SessionOf(j)] >= AtMost(issued[j][3], ReadTake)
    BY DEF DoneIsExtracted
  <2>1. j \in 1..Len(issued)
    BY DEF TypeInv, ListTypes
  <2>2. Owed(j) <= extracted[SessionOf(j)] /\ Owed(j) \in Nat
        /\ extracted[SessionOf(j)] \in Nat
    BY <2>1, JobShape DEF PaidInv
  <2> QED
    BY <2>2 DEF Owed
<1> QED
  BY <1>1, <1>2, <1>3, TypeInit, TypeStep, PTL DEF Spec

-----------------------------------------------------------------------------
(* Compensation in time (the comment on compensateIdleSessions).            *)

\* No process ends and Redis answers, somebody runs the compensation, and one
\* scan takes all the sessions there are.
Steady ==
  /\ Disruptions \cap {"crash", "redis"} = {} /\ Crons # {}
  /\ IsFiniteSet(Sessions) /\ Cardinality(Sessions) <= ScanTake

\* A compensation enqueues nothing else, and no key is there without its job.
CronInv == \A e \in Crons : enq[e].pc # "idle" => enq[e].trigger = "compensate"
KeyInv == \A k \in Keys : ttl[k] > 0 => IsIssued(k)

\* A session silent for two units is queued; one silent for a unit is queued or
\* a row of every replica that has scanned in this unit.
InTime(s, v) ==
  /\ age[s] >= 2 => IsIssued(CompKey(s, v))
  /\ age[s] = 1 => \A e \in Crons :
       scanned[e] => IsIssued(CompKey(s, v)) \/ <<s, v>> \in Pending(e)
SoonInv == \A s \in Sessions : InTime(s, ver[s])

TimelyInv == CronInv /\ KeyInv /\ SoonInv

\* A row of a replica stays one or is issued.
RowsKept(e) ==
  \A s \in Sessions, v \in Vers : <<s, v>> \in Pending(e) =>
    <<s, v>> \in Pending(e)' \/ IsIssued(CompKey(s, v))'

LEMMA SoonStays ==
  ASSUME TypeInv, SoonInv, UNCHANGED <<ver, age, scanned>>,
         \A k : IsIssued(k) => IsIssued(k)',
         \A e \in Crons : RowsKept(e)
  PROVE  SoonInv'
<1>1. ASSUME NEW s \in Sessions PROVE InTime(s, ver[s])'
  <2>1. InTime(s, ver[s]) /\ ver[s] \in Vers
    BY DEF SoonInv, TypeInv, TimeTypes
  <2>2. IsIssued(CompKey(s, ver[s])) => IsIssued(CompKey(s, ver[s]))'
    <3>1. PICK v : v = ver[s]
      OBVIOUS
    <3>2. IsIssued(CompKey(s, v)) => IsIssued(CompKey(s, v))'
      OBVIOUS
    <3> QED
      BY <3>1, <3>2 DEF CompKey, IsIssued
  <2>3. ASSUME NEW e \in Crons, <<s, ver[s]>> \in Pending(e)
        PROVE  <<s, ver[s]>> \in Pending(e)' \/ IsIssued(CompKey(s, ver[s]))'
    <3>1. PICK v \in Vers : v = ver[s]
      BY <2>1
    <3>2. <<s, v>> \in Pending(e)' \/ IsIssued(CompKey(s, v))'
      BY <2>3, <3>1 DEF RowsKept
    <3> QED
      BY <3>1, <3>2 DEF CompKey, IsIssued
  <2> QED
    BY <2>1, <2>2, <2>3 DEF InTime
<1> QED
  BY <1>1 DEF SoonInv

\* What leaves the calls of the compensation alone.
LEMMA TimelyAside ==
  ASSUME TypeInv, TimelyInv, UNCHANGED <<ver, age, ttl, scanned, issued>>,
         \A e \in Crons : enq'[e] = enq[e]
  PROVE  TimelyInv'
<1>1. \A k : IsIssued(k)' = IsIssued(k)
  BY DEF IsIssued
<1>2. \A e \in Crons : Pending(e)' = Pending(e)
  BY DEF Pending
<1>3. SoonInv'
  BY <1>1, <1>2, SoonStays DEF TimelyInv, RowsKept
<1>4. CronInv' /\ KeyInv'
  BY <1>1 DEF TimelyInv, CronInv, KeyInv
<1> QED
  BY <1>3, <1>4 DEF TimelyInv

LEMMA TimelyNewMessage ==
  ASSUME TypeInv, TimelyInv, NEW s \in Sessions, NewMessage(s)
  PROVE  TimelyInv'
<1>1. /\ UNCHANGED <<ttl, scanned, enq, issued>> /\ age' = [age EXCEPT ![s] = 0]
      /\ ver' = [ver EXCEPT ![s] = @ + 1]
  BY DEF NewMessage, histVars
<1>2. CronInv' /\ KeyInv'
  BY <1>1 DEF TimelyInv, CronInv, KeyInv, IsIssued
<1>3. ASSUME NEW t \in Sessions PROVE InTime(t, ver[t])'
  <2>1. CASE t = s
    <3>1. age'[t] = 0
      BY <1>1, <2>1 DEF TypeInv, TimeTypes
    <3> QED
      BY <3>1 DEF InTime
  <2>2. CASE t # s
    <3>1. age'[t] = age[t] /\ ver'[t] = ver[t] /\ InTime(t, ver[t])
      BY <1>1, <2>2 DEF TypeInv, TimeTypes, TimelyInv, SoonInv
    <3> QED
      BY <1>1, <3>1 DEF InTime, IsIssued, CompKey, Pending
  <2> QED
    BY <2>1, <2>2
<1> QED
  BY <1>2, <1>3 DEF TimelyInv, SoonInv

\* A unit ends only when every replica has scanned in it and is done with its
\* rows: what was silent for a unit has been issued.
LEMMA TimelyTick ==
  ASSUME TypeInv, TimelyInv, Steady, Tick
  PROVE  TimelyInv'
<1>1. /\ UNCHANGED <<ver, enq, issued>> /\ \A e \in Crons : scanned[e] /\ ~scanned'[e]
      /\ \A e \in Enqueuers : Pending(e) = {}
  BY DEF Tick, histVars, Pending
<1>2. \A t \in Sessions : age[t] \in 0..4 /\ age'[t] = AtMost(age[t] + 1, 4)
  BY DEF Tick, TypeInv, TimeTypes
<1>3. \A k \in Keys : ttl'[k] > 0 => ttl[k] > 0
  BY Consts DEF Tick, TypeInv, TimeTypes
<1>4. CronInv' /\ KeyInv'
  BY <1>1, <1>3 DEF TimelyInv, CronInv, KeyInv, IsIssued
<1>5. ASSUME NEW t \in Sessions PROVE InTime(t, ver[t])'
  <2>1. age'[t] >= 2 => age[t] >= 1
    BY <1>2 DEF AtMost
  <2>2. PICK e \in Crons : scanned[e]
    BY <1>1 DEF Steady
  <2>3. age[t] >= 1 => IsIssued(CompKey(t, ver[t]))
    <3>1. InTime(t, ver[t]) /\ Pending(e) = {}
      BY <1>1, <2>2 DEF TimelyInv, SoonInv, Enqueuers
    <3> QED
      BY <1>2, <2>2, <3>1 DEF InTime
  <2> QED
    BY <1>1, <2>1, <2>3 DEF InTime, IsIssued, CompKey
<1> QED
  BY <1>4, <1>5 DEF TimelyInv, SoonInv

\* A scan that takes them all has every session that is silent for a unit.
LEMMA TimelyScan ==
  ASSUME TypeInv, TimelyInv, Steady, NEW e \in Enqueuers, Scan(e)
  PROVE  TimelyInv'
<1>1. PICK found \in SUBSET Idle :
        /\ Cardinality(found) = AtMost(Cardinality(Idle), ScanTake)
        /\ enq' = IF found = {} THEN enq
                  ELSE [enq EXCEPT ![e] =
                          [IdleEnq EXCEPT !.pc = "load", !.trigger = "compensate",
                                          !.rows = {<<s, ver[s]>> : s \in found}]]
  BY DEF Scan
<1>2. /\ UNCHANGED <<ver, age, ttl, issued>> /\ scanned' = [scanned EXCEPT ![e] = TRUE]
      /\ e \in Crons /\ enq[e].pc = "idle"
  BY DEF Scan, histVars
<1>3. found = Idle
  <2>1. IsFiniteSet(Idle) /\ Cardinality(Idle) <= Cardinality(Sessions)
    BY FS_Subset DEF Idle, Steady
  <2>2. Cardinality(Idle) \in Nat /\ Cardinality(Sessions) \in Nat
    BY <2>1, FS_CardinalityType DEF Steady
  <2>3. Cardinality(found) = Cardinality(Idle)
    BY <1>1, <2>1, <2>2, Consts DEF Steady, AtMost
  <2> QED
    BY <2>1, <2>3, FS_Subset
<1> DEFINE rows == {<<s, ver[s]>> : s \in found}
           r == [IdleEnq EXCEPT !.pc = "load", !.trigger = "compensate", !.rows = rows]
<1>4. r.pc = "load" /\ r.trigger = "compensate" /\ r.rows = rows
  BY DEF IdleEnq
<1>5. (enq' = enq /\ found = {}) \/ enq' = [enq EXCEPT ![e] = r]
  BY <1>1
<1>6. \A s \in found : <<s, ver[s]>> \in rows
  OBVIOUS
<1> HIDE DEF rows, r
<1>7. DOMAIN enq = Enqueuers /\ DOMAIN scanned = Crons
  BY DEF TypeInv, ProcTypes, TimeTypes
<1>8. \A d \in Enqueuers : d # e => enq'[d] = enq[d]
  BY <1>5, <1>7
<1>9. CronInv'
  BY <1>2, <1>4, <1>5, <1>7, <1>8 DEF TimelyInv, CronInv, Enqueuers
<1>10. KeyInv'
  BY <1>2 DEF TimelyInv, KeyInv, IsIssued
<1>11. ASSUME NEW t \in Sessions PROVE InTime(t, ver[t])'
  <2>1. InTime(t, ver[t]) /\ age'[t] = age[t] /\ ver'[t] = ver[t]
    BY <1>2 DEF TimelyInv, SoonInv
  <2>2. IsIssued(CompKey(t, ver[t]))' = IsIssued(CompKey(t, ver[t]))
    BY <1>2 DEF IsIssued, CompKey
  <2>3. ASSUME age[t] = 1, NEW d \in Crons, scanned'[d]
        PROVE  IsIssued(CompKey(t, ver[t])) \/ <<t, ver[t]>> \in Pending(d)'
    <3>1. CASE d = e
      <4>1. t \in found
        BY <1>3, <2>3 DEF Idle
      <4>2. enq'[e] = r /\ <<t, ver[t]>> \in rows
        BY <1>5, <1>6, <1>7, <4>1
      <4> QED
        BY <1>4, <3>1, <4>2 DEF Pending
    <3>2. CASE d # e
      <4>1. scanned[d] /\ enq'[d] = enq[d]
        BY <1>2, <1>7, <1>8, <2>3, <3>2 DEF Enqueuers
      <4>2. Pending(d)' = Pending(d)
        BY <4>1 DEF Pending
      <4> QED
        BY <2>1, <2>3, <4>1, <4>2 DEF InTime
    <3> QED
      BY <3>1, <3>2
  <2> QED
    BY <2>1, <2>2, <2>3 DEF InTime
<1> QED
  BY <1>9, <1>10, <1>11, SMTT(30) DEF TimelyInv, SoonInv

\* A call goes on with the rows it has: none of them is forgotten.
LEMMA EndRowKeeps ==
  ASSUME TypeInv, NEW e \in Enqueuers, enq[e].pc # "idle",
         enq' = [enq EXCEPT ![e] = EndRow(@)]
  PROVE  /\ \A d \in Enqueuers : d # e => enq'[d] = enq[d]
         /\ enq'[e].pc # "idle" => enq'[e].trigger = enq[e].trigger
         /\ enq[e].trigger = "compensate" => enq[e].rows \subseteq Pending(e)'
<1>1. /\ enq[e] \in EnqRecs(Len(issued)) /\ enq[e].trigger # "none"
      /\ enq'[e] = EndRow(enq[e]) /\ \A d \in Enqueuers : d # e => enq'[d] = enq[d]
  BY DEF TypeInv, ProcTypes, InUse
<1>2. CASE enq[e].rows = {}
  <2>1. enq'[e] = IdleEnq /\ IdleEnq.pc = "idle"
    BY <1>1, <1>2 DEF EndRow, IdleEnq
  <2> QED
    BY <1>1, <1>2, <2>1
<1>3. CASE enq[e].rows # {}
  <2> DEFINE r == [IdleEnq EXCEPT !.pc = "load", !.trigger = enq[e].trigger,
                                  !.rows = enq[e].rows]
  <2>1. r.pc = "load" /\ r.trigger = enq[e].trigger /\ r.rows = enq[e].rows
    BY DEF IdleEnq
  <2>2. enq'[e] = r
    BY <1>1, <1>3 DEF EndRow
  <2> HIDE DEF r
  <2> QED
    BY <1>1, <2>1, <2>2 DEF Pending
<1> QED
  BY <1>2, <1>3

\* A row is dropped because its job is issued: here, or by the replica that
\* set the key.
LEMMA TimelySetNx ==
  ASSUME TypeInv, TimelyInv, NEW e \in Enqueuers, SetNx(e)
  PROVE  TimelyInv'
<1> DEFINE key == DedupeKey(enq[e])
<1>0. /\ UNCHANGED <<ver, age, scanned>> /\ enq[e].pc = "setNx"
      /\ DOMAIN enq = Enqueuers /\ enq[e] \in EnqRecs(Len(issued))
      /\ issued \in Seq(Keys) /\ Len(issued) \in Nat
  BY DEF SetNx, TypeInv, ProcTypes, ListTypes
<1>1. key \in Keys /\ key = <<enq[e].session, enq[e].trigger, enq[e].ver>>
  <2>1. enq[e].session \in Sessions /\ enq[e].ver \in Vers
        /\ enq[e].trigger \in Triggers \cup {"compensate", "none"}
    BY <1>0 DEF EnqRecs
  <2>2. enq[e].trigger # "none"
    BY <1>0 DEF TypeInv, InUse
  <2> QED
    BY <2>1, <2>2 DEF Keys, DedupeKey
<1>2. CASE ttl[key] > 0
  <2>1. enq' = [enq EXCEPT ![e] = EndRow(@)] /\ UNCHANGED <<ttl, issued>>
    BY <1>2 DEF SetNx
  <2>2. /\ \A d \in Enqueuers : d # e => enq'[d] = enq[d]
        /\ enq'[e].pc # "idle" => enq'[e].trigger = enq[e].trigger
        /\ enq[e].trigger = "compensate" => enq[e].rows \subseteq Pending(e)'
    BY <1>0, <2>1, EndRowKeeps
  <2>3. IsIssued(key) /\ \A k : IsIssued(k)' = IsIssued(k)
    BY <1>1, <1>2, <2>1 DEF TimelyInv, KeyInv, IsIssued
  <2>4. CronInv' /\ KeyInv'
    BY <1>0, <2>1, <2>2, <2>3 DEF TimelyInv, CronInv, KeyInv, Enqueuers
  <2>5. ASSUME NEW d \in Crons PROVE RowsKept(d)
    <3>1. CASE d # e
      <4>1. Pending(d)' = Pending(d)
        BY <2>2, <3>1 DEF Pending, Enqueuers
      <4> QED
        BY <4>1 DEF RowsKept
    <3>2. CASE d = e
      <4> SUFFICES ASSUME NEW s \in Sessions, NEW v \in Vers, <<s, v>> \in Pending(e)
                   PROVE  <<s, v>> \in Pending(e)' \/ IsIssued(CompKey(s, v))'
        BY <3>2 DEF RowsKept
      <4>1. /\ enq[e].trigger = "compensate"
            /\ <<s, v>> \in enq[e].rows \/ <<s, v>> = <<enq[e].session, enq[e].ver>>
        BY <1>0 DEF Pending
      <4>2. <<s, v>> = <<enq[e].session, enq[e].ver>> => CompKey(s, v) = key
        BY <1>1, <4>1 DEF CompKey
      <4> QED
        BY <2>2, <2>3, <4>1, <4>2
    <3> QED
      BY <3>1, <3>2
  <2> QED
    BY <1>0, <2>3, <2>4, <2>5, SoonStays DEF TimelyInv
<1>3. CASE ~(ttl[key] > 0)
  <2> DEFINE r == [enq[e] EXCEPT !.pc = "push", !.id = Len(issued) + 1]
             job == <<enq[e].session, enq[e].trigger, enq[e].ver>>
  <2>1. /\ ttl' = [ttl EXCEPT ![key] = KeyTtl] /\ issued' = Append(issued, job)
        /\ job = key /\ enq' = [enq EXCEPT ![e] = r]
    BY <1>0, <1>1, <1>3 DEF SetNx
  <2>2. r.pc = "push" /\ r.trigger = enq[e].trigger /\ r.rows = enq[e].rows
    BY <1>0 DEF EnqRecs
  <2> HIDE DEF r, job, key
  <2>3. /\ Len(issued') = Len(issued) + 1 /\ issued'[Len(issued) + 1] = key
        /\ \A i \in 1..Len(issued) : i \in 1..Len(issued') /\ issued'[i] = issued[i]
    BY <1>0, <1>1, <2>1
  <2>4. /\ \A k : IsIssued(k) => IsIssued(k)'
        /\ \A k : k = key => IsIssued(k)'
    <3>1. Len(issued) + 1 \in 1..Len(issued')
      BY <1>0, <2>3
    <3> QED
      BY <2>3, <3>1 DEF IsIssued
  <2>5. \A d \in Enqueuers : enq'[d] = IF d = e THEN r ELSE enq[d]
    BY <1>0, <2>1
  <2>6. CronInv'
    BY <1>0, <2>2, <2>5 DEF TimelyInv, CronInv, Enqueuers
  <2>7. KeyInv'
    <3>1. \A k \in Keys : k # key => ttl'[k] = ttl[k]
      BY <2>1 DEF TypeInv, TimeTypes
    <3> QED
      BY <2>4, <3>1 DEF TimelyInv, KeyInv
  <2>8. ASSUME NEW d \in Crons PROVE RowsKept(d)
    <3>1. CASE d # e
      <4>1. Pending(d)' = Pending(d)
        BY <2>5, <3>1 DEF Pending, Enqueuers
      <4> QED
        BY <4>1 DEF RowsKept
    <3>2. CASE d = e
      <4> SUFFICES ASSUME NEW s \in Sessions, NEW v \in Vers, <<s, v>> \in Pending(e)
                   PROVE  <<s, v>> \in Pending(e)' \/ IsIssued(CompKey(s, v))'
        BY <3>2 DEF RowsKept
      <4>1. /\ enq[e].trigger = "compensate"
            /\ <<s, v>> \in enq[e].rows \/ <<s, v>> = <<enq[e].session, enq[e].ver>>
        BY <1>0 DEF Pending
      <4>2. CASE <<s, v>> \in enq[e].rows
        BY <2>2, <2>5, <4>1, <4>2 DEF Pending
      <4>3. CASE <<s, v>> = <<enq[e].session, enq[e].ver>>
        <5>1. CompKey(s, v) = key
          BY <1>1, <4>1, <4>3 DEF CompKey
        <5>2. IsIssued(CompKey(s, v))'
          BY <2>4, <5>1
        <5> QED
          BY <5>2
      <4> QED
        BY <4>1, <4>2, <4>3
    <3> QED
      BY <3>1, <3>2
  <2> QED
    BY <1>0, <2>4, <2>6, <2>7, <2>8, SoonStays DEF TimelyInv
<1> QED
  BY <1>2, <1>3

LEMMA TimelyEnqStep ==
  ASSUME TypeInv, TimelyInv, Steady, NEW e \in Enqueuers, EnqStep(e) \/ EnqueueFails(e) \/ EnqueueResends(e)
  PROVE  TimelyInv'
<1>0. DOMAIN enq = Enqueuers /\ enq[e] \in EnqRecs(Len(issued))
  BY DEF TypeInv, ProcTypes
<1>1. CASE BeginRequest(e)
  <2>1. \A d \in Crons : enq'[d] = enq[d]
    BY <1>0, <1>1, QueueAssumption DEF BeginRequest, Enqueuers
  <2> QED
    BY <1>1, <2>1, TimelyAside DEF BeginRequest, timeVars, histVars
<1>2. CASE Scan(e)
  BY <1>2, TimelyScan
<1>3. CASE LoadPath(e)
  <2>1. UNCHANGED <<ver, age, ttl, scanned, issued>> /\ enq[e].pc = "load"
    BY <1>3 DEF LoadPath, timeVars, histVars
  <2>2. /\ enq'[e].pc = "setNx" /\ enq'[e].trigger = enq[e].trigger
        /\ \A d \in Enqueuers : d # e => enq'[d] = enq[d]
    BY <1>3, LoadPathEffect
  <2>3. \A k : IsIssued(k)' = IsIssued(k)
    BY <2>1 DEF IsIssued
  <2>4. CronInv' /\ KeyInv'
    BY <2>1, <2>2, <2>3 DEF TimelyInv, CronInv, KeyInv, Enqueuers
  <2>5. Pending(e) \subseteq Pending(e)'
    <3>1. CASE enq[e].trigger = "compensate"
      <4>1. PICK row \in enq[e].rows :
              /\ enq'[e].rows = enq[e].rows \ {row}
              /\ enq'[e].session = row[1] /\ enq'[e].ver = row[2]
        BY <1>3, <3>1, LoadPathEffect
      <4>2. row = <<row[1], row[2]>>
        BY <1>0 DEF EnqRecs, Rows
      <4> QED
        BY <2>1, <2>2, <3>1, <4>1, <4>2 DEF Pending
    <3>2. CASE enq[e].trigger # "compensate"
      BY <3>2 DEF Pending
    <3> QED
      BY <3>1, <3>2
  <2>6. \A d \in Crons : RowsKept(d)
    <3>1. \A d \in Enqueuers : d # e => Pending(d)' = Pending(d)
      BY <2>2 DEF Pending
    <3> QED
      BY <2>5, <3>1 DEF RowsKept, Enqueuers
  <2> QED
    BY <2>1, <2>3, <2>4, <2>6, SoonStays DEF TimelyInv
<1>4. CASE SetNx(e)
  BY <1>4, TimelySetNx
<1>5. CASE Push(e)
  <2>1. /\ UNCHANGED <<ver, age, ttl, scanned, issued>> /\ enq[e].pc = "push"
        /\ enq' = [enq EXCEPT ![e] = EndRow(@)]
    BY <1>5 DEF Push, timeVars
  <2>2. /\ \A d \in Enqueuers : d # e => enq'[d] = enq[d]
        /\ enq'[e].pc # "idle" => enq'[e].trigger = enq[e].trigger
        /\ enq[e].trigger = "compensate" => enq[e].rows \subseteq Pending(e)'
    BY <2>1, EndRowKeeps
  <2>3. \A k : IsIssued(k)' = IsIssued(k)
    BY <2>1 DEF IsIssued
  <2>4. CronInv' /\ KeyInv'
    BY <2>1, <2>2, <2>3 DEF TimelyInv, CronInv, KeyInv, Enqueuers
  <2>5. Pending(e) \subseteq Pending(e)'
    BY <2>1, <2>2 DEF Pending
  <2>6. \A d \in Crons : RowsKept(d)
    <3>1. \A d \in Enqueuers : d # e => Pending(d)' = Pending(d)
      BY <2>2 DEF Pending
    <3> QED
      BY <2>5, <3>1 DEF RowsKept, Enqueuers
  <2> QED
    BY <2>1, <2>3, <2>4, <2>6, SoonStays DEF TimelyInv
<1>6. CASE EnqueueFails(e)
  BY <1>6 DEF EnqueueFails, Steady
<1>7. CASE EnqueueResends(e)
  BY <1>7 DEF EnqueueResends, Steady
<1> QED
  BY <1>1, <1>2, <1>3, <1>4, <1>5, <1>6, <1>7 DEF EnqStep

\* A session that has been silent is compensated within a day of its last
\* message, provided the calls go through and a scan takes every silent session
\* (the code takes 100, in no order: beyond that the promise does not hold).
THEOREM InTimeTheorem == ASSUME Steady PROVE Spec => []CompensatedInTime
<1>1. Init => TimelyInv
  <2> SUFFICES ASSUME Init PROVE TimelyInv
    OBVIOUS
  <2>1. /\ \A e \in Enqueuers : enq[e] = IdleEnq
        /\ \A k \in Keys : ttl[k] = 0
        /\ \A s \in Sessions : age[s] = 0
    BY DEF Init
  <2> QED
    BY <2>1, IdleShapes DEF TimelyInv, CronInv, KeyInv, SoonInv, InTime, Enqueuers
<1>2. TypeInv /\ TimelyInv /\ [Next]_vars => TimelyInv'
  <2> SUFFICES ASSUME TypeInv, TimelyInv, [Next]_vars PROVE TimelyInv'
    OBVIOUS
  <2>1. ASSUME NEW s \in Sessions, NewMessage(s) PROVE TimelyInv'
    BY <2>1, TimelyNewMessage
  <2>2. CASE Tick
    BY <2>2, TimelyTick
  <2>3. ASSUME NEW e \in Enqueuers, EnqStep(e) \/ EnqueueFails(e) \/ EnqueueResends(e) PROVE TimelyInv'
    BY <2>3, TimelyEnqStep
  <2>4. ASSUME NEW w \in Workers, LoopStep(w) \/ RedisFails(w) \/ Resends(w) \/ Crash(w)
        PROVE  TimelyInv'
    <3>1. UNCHANGED <<ver, age, ttl, scanned, enq, issued>>
      BY <2>4 DEF LoopStep, Pop, Read, Save, Fail, Ack, NackRem, NackPush, RedisFails,
                  Resends, Crash, histVars, timeVars
    <3> QED
      BY <3>1, TimelyAside
  <2>5. CASE UNCHANGED vars
    BY <2>5, TimelyAside DEF vars
  <2> QED
    BY <2>1, <2>2, <2>3, <2>4, <2>5 DEF Next
<1>3. TimelyInv => CompensatedInTime
  <2> SUFFICES ASSUME TimelyInv, NEW s \in Sessions, age[s] = 4
               PROVE  \E j \in 1..Len(issued) : issued[j] = <<s, "compensate", ver[s]>>
    BY DEF CompensatedInTime
  <2>1. InTime(s, ver[s])
    BY DEF TimelyInv, SoonInv
  <2>2. age[s] >= 2
    OBVIOUS
  <2>3. IsIssued(CompKey(s, ver[s]))
    BY <2>1, <2>2, Zenon DEF InTime
  <2> QED
    BY <2>3 DEF IsIssued, CompKey
<1> QED
  BY <1>1, <1>2, <1>3, TypeInit, TypeStep, PTL DEF Spec

=============================================================================
