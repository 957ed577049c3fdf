--------------------------- MODULE AccountsProofs ---------------------------
(***************************************************************************)
(* Theorems about Accounts and the identifiers of its rows (Snowflake),    *)
(* for any number of devices, phones, processes and requests in flight.    *)
(*                                                                         *)
(* First the identifiers, for any sequence size that fits its twelve bits  *)
(* and a clock that is set back at any time: what one process returns      *)
(* grows from one such step to the next, and two processes with different  *)
(* worker ids never return the same.  Every step of Accounts is a step of  *)
(* Snowflake or leaves it alone, so that what is proved of identifiers     *)
(* holds there.                                                            *)
(***************************************************************************)
EXTENDS Accounts, TLAPS

\* Every identifier carries the worker id of its process between two fields
\* that keep to their bits.
Fields ==
  \A p \in Procs : \A i \in 1..Len(ids[p]) :
    \E ts \in Nat, s \in SeqNumbers : ids[p][i] = Pack(ts, WorkerId[p], s)

\* What a process has returned since the clock was last set back lies below
\* what it can return next: below the present millisecond when it remembers
\* none, below the end of the one it remembers while it waits, and up to its
\* sequence otherwise.  A millisecond remembered from before that step may lie
\* ahead, as long as nothing has been returned after it.
Ceiling ==
  \A p \in Procs :
    /\ lastMs[p] <= clock \/ Recent(p) = {}
    /\ lastMs[p] = -1 =>
         \A i \in Recent(p) : ids[p][i] < Pack(clock, WorkerId[p], 0)
    /\ lastMs[p] # -1 =>
         \A i \in Recent(p) : ids[p][i] < Pack(lastMs[p] + 1, WorkerId[p], 0)
    /\ lastMs[p] # -1 /\ ~waits[p] =>
         \A i \in Recent(p) : ids[p][i] <= Pack(lastMs[p], WorkerId[p], seq[p])

IInv == TypeOK /\ Fields /\ Ceiling /\ Increasing

-----------------------------------------------------------------------------

LEMMA Numbers == SeqNumbers \subseteq Nat /\ 0 \in SeqNumbers /\ WorkerIds \subseteq Nat
  BY DEF SeqNumbers, WorkerIds

LEMMA PackNat ==
  ASSUME NEW t \in Nat, NEW v \in WorkerIds, NEW r \in SeqNumbers
  PROVE  Pack(t, v, r) \in Nat
  BY SMT DEF Pack, WorkerIds, SeqNumbers

\* Identifiers are ordered by their fields: first the millisecond, then the
\* worker, then the sequence.
LEMMA ByTime ==
  ASSUME NEW t \in Nat, NEW u \in Nat, NEW v \in WorkerIds, NEW w \in WorkerIds,
         NEW r \in SeqNumbers, NEW s \in SeqNumbers, t < u
  PROVE  Pack(t, v, r) < Pack(u, w, s)
  BY SMT DEF Pack, WorkerIds, SeqNumbers

LEMMA ByWorker ==
  ASSUME NEW t \in Nat, NEW v \in WorkerIds, NEW w \in WorkerIds,
         NEW r \in SeqNumbers, NEW s \in SeqNumbers, v < w
  PROVE  Pack(t, v, r) < Pack(t, w, s)
  BY SMT DEF Pack, WorkerIds, SeqNumbers

LEMMA BySeq ==
  ASSUME NEW t \in Nat, NEW v \in WorkerIds,
         NEW r \in SeqNumbers, NEW s \in SeqNumbers, r < s
  PROVE  Pack(t, v, r) < Pack(t, v, s)
  BY SMT DEF Pack, WorkerIds, SeqNumbers

\* Identifiers of different workers differ whatever their other fields are.
LEMMA PackSeparates ==
  ASSUME NEW t \in Nat, NEW u \in Nat, NEW v \in WorkerIds, NEW w \in WorkerIds,
         NEW r \in SeqNumbers, NEW s \in SeqNumbers, v # w
  PROVE  Pack(t, v, r) # Pack(u, w, s)
  <1>1. Pack(t, v, r) \in Nat /\ Pack(u, w, s) \in Nat /\ v \in Nat /\ w \in Nat
    BY PackNat, Numbers
  <1>2. CASE t < u
    BY <1>1, <1>2, ByTime
  <1>3. CASE u < t
    BY <1>1, <1>3, ByTime
  <1>4. CASE u = t /\ v < w
    <2>1. Pack(t, v, r) < Pack(t, w, s)
      BY <1>4, ByWorker
    <2> QED
      BY <1>1, <1>4, <2>1
  <1>5. CASE u = t /\ w < v
    <2>1. Pack(t, w, s) < Pack(t, v, r)
      BY <1>5, ByWorker
    <2> QED
      BY <1>1, <1>5, <2>1
  <1> QED
    BY <1>1, <1>2, <1>3, <1>4, <1>5

\* The state of one process, as the provers need it.
LEMMA OneProcess ==
  ASSUME TypeOK, NEW p \in Procs
  PROVE  /\ clock \in Nat
         /\ lastMs[p] \in Int /\ lastMs[p] >= -1
         /\ seq[p] \in 0..(SeqMod - 1) /\ seq[p] \in SeqNumbers
         /\ WorkerId[p] \in WorkerIds
         /\ ids[p] \in Seq(Nat) /\ Len(ids[p]) \in Nat
         /\ \A i \in 1..Len(ids[p]) : ids[p][i] \in Nat
         /\ since[p] \in Nat
         /\ \A i \in Recent(p) : i \in 1..Len(ids[p]) /\ ids[p][i] \in Nat
  <1>1. /\ clock \in Nat
        /\ lastMs[p] \in Int /\ lastMs[p] >= -1
        /\ seq[p] \in 0..(SeqMod - 1) /\ seq[p] \in SeqNumbers
        /\ WorkerId[p] \in WorkerIds
        /\ ids[p] \in Seq(Nat) /\ Len(ids[p]) \in Nat
        /\ \A i \in 1..Len(ids[p]) : ids[p][i] \in Nat
        /\ since[p] \in Nat
    BY SeqAssumption, WorkerAssumption DEF TypeOK
  <1>2. \A i \in Recent(p) : i \in 1..Len(ids[p])
    BY <1>1 DEF Recent
  <1> QED
    BY <1>1, <1>2

\* One returned identifier that lies above all earlier ones of its process
\* keeps the invariant; every branch of nextId that returns uses this.
LEMMA ReturnKeeps ==
  ASSUME IInv, NEW p \in Procs, NEW ms \in Nat, NEW s \in 0..(SeqMod - 1),
         Return(p, ms, s), ms <= clock, UNCHANGED time,
         waits' \in [Procs -> BOOLEAN],
         \A q \in Procs : q # p => waits'[q] = waits[q],
         \A i \in Recent(p) : ids[p][i] < Pack(ms, WorkerId[p], s)
  PROVE  IInv'
  <1> DEFINE new == Pack(ms, WorkerId[p], s)
  <1>0. /\ s \in SeqNumbers /\ 0 \in SeqNumbers
        /\ WorkerId[p] \in WorkerIds
        /\ ids[p] \in Seq(Nat) /\ Len(ids[p]) \in Nat
        /\ \A i \in 1..Len(ids[p]) : ids[p][i] \in Nat
        /\ since[p] \in Nat
        /\ clock' = clock /\ since' = since
    BY SeqAssumption, Numbers, OneProcess DEF IInv, time
  <1>1. new \in Nat
    BY <1>0, PackNat
  <1> HIDE DEF new
  <1>2. /\ ids'[p] = Append(ids[p], new)
        /\ \A q \in Procs : q # p => ids'[q] = ids[q]
        /\ lastMs'[p] = ms /\ \A q \in Procs : q # p => lastMs'[q] = lastMs[q]
        /\ seq'[p] = s /\ \A q \in Procs : q # p => seq'[q] = seq[q]
    BY DEF IInv, TypeOK, Return, new
  <1>3. TypeOK'
    <2>1. ids' = [ids EXCEPT ![p] = Append(@, new)]
      BY DEF Return, new
    <2>2. ids' \in [Procs -> Seq(Nat)]
      BY <1>0, <1>1, <2>1 DEF IInv, TypeOK
    <2> QED
      BY <2>2 DEF IInv, TypeOK, Return, time
  <1>4. /\ Len(ids'[p]) = Len(ids[p]) + 1
        /\ ids'[p][Len(ids[p]) + 1] = new
        /\ \A i \in 1..Len(ids[p]) : ids'[p][i] = ids[p][i]
    BY <1>0, <1>1, <1>2
  <1>r. /\ \A i \in Recent(p)' : i = Len(ids[p]) + 1 \/ i \in Recent(p)
        /\ \A i \in Recent(p) : i \in 1..Len(ids[p])
        /\ \A q \in Procs : q # p => Recent(q)' = Recent(q)
    <2>1. Recent(p)' = (since[p] + 1)..(Len(ids[p]) + 1)
      BY <1>0, <1>4 DEF Recent
    <2>2. Recent(p) = (since[p] + 1)..Len(ids[p])
      BY DEF Recent
    <2> QED
      BY <1>0, <1>2, <2>1, <2>2 DEF Recent
  <1>5. Fields'
    <2> SUFFICES ASSUME NEW q \in Procs, NEW i \in 1..Len(ids'[q])
                 PROVE  \E ts \in Nat, r \in SeqNumbers :
                          ids'[q][i] = Pack(ts, WorkerId[q], r)
      BY DEF Fields
    <2>1. CASE q = p /\ i = Len(ids[p]) + 1
      BY <2>1, <1>0, <1>4 DEF new
    <2>2. CASE q = p /\ i # Len(ids[p]) + 1
      <3>1. i \in 1..Len(ids[p]) /\ ids'[q][i] = ids[p][i]
        BY <2>2, <1>0, <1>4, SMTT(30)
      <3> QED
        BY <2>2, <3>1 DEF IInv, Fields
    <2>3. CASE q # p
      BY <2>3, <1>2 DEF IInv, Fields
    <2> QED
      BY <2>1, <2>2, <2>3
  <1>6. Ceiling'
    <2> SUFFICES ASSUME NEW q \in Procs
                 PROVE  /\ lastMs'[q] <= clock' \/ Recent(q)' = {}
                        /\ lastMs'[q] = -1 =>
                             \A i \in Recent(q)' :
                               ids'[q][i] < Pack(clock', WorkerId[q], 0)
                        /\ lastMs'[q] # -1 =>
                             \A i \in Recent(q)' :
                               ids'[q][i] < Pack(lastMs'[q] + 1, WorkerId[q], 0)
                        /\ lastMs'[q] # -1 /\ ~waits'[q] =>
                             \A i \in Recent(q)' :
                               ids'[q][i] <= Pack(lastMs'[q], WorkerId[q], seq'[q])
      BY DEF Ceiling
    <2>1. CASE q = p
      <3>1. new < Pack(ms + 1, WorkerId[p], 0) /\ Pack(ms + 1, WorkerId[p], 0) \in Nat
        <4>1. ms + 1 \in Nat /\ ms < ms + 1
          OBVIOUS
        <4>2. Pack(ms, WorkerId[p], s) < Pack(ms + 1, WorkerId[p], 0)
          BY <1>0, <4>1, ByTime
        <4> QED
          BY <1>0, <4>1, <4>2, PackNat DEF new
      <3>2. \A i \in Recent(p)' : ids'[p][i] \in Nat /\ ids'[p][i] <= new
        <4> SUFFICES ASSUME NEW i \in Recent(p)'
                     PROVE  ids'[p][i] \in Nat /\ ids'[p][i] <= new
          OBVIOUS
        <4>1. CASE i = Len(ids[p]) + 1
          BY <1>1, <1>4, <4>1
        <4>2. CASE i # Len(ids[p]) + 1
          <5>1. i \in Recent(p) /\ i \in 1..Len(ids[p])
            BY <1>r, <4>2
          <5>2. ids'[p][i] = ids[p][i] /\ ids[p][i] \in Nat /\ ids[p][i] < new
            BY <1>0, <1>4, <5>1 DEF new
          <5> QED
            BY <1>1, <5>2
        <4> QED
          BY <4>1, <4>2
      <3>3. \A i \in Recent(p)' : ids'[p][i] < Pack(ms + 1, WorkerId[p], 0)
        BY <1>1, <3>1, <3>2
      <3> QED
        <4>1. Recent(q)' = Recent(p)'
          BY <2>1
        <4>2. lastMs'[q] = ms /\ ms # -1 /\ seq'[q] = s /\ ids'[q] = ids'[p]
          BY <2>1, <1>2
        <4>3. \A i \in Recent(q)' : ids'[q][i] <= Pack(ms, WorkerId[q], s)
          BY <2>1, <3>2, <4>1, <4>2 DEF new
        <4>4. \A i \in Recent(q)' : ids'[q][i] < Pack(ms + 1, WorkerId[q], 0)
          BY <2>1, <3>3, <4>1, <4>2
        <4> QED
          BY <1>0, <4>2, <4>3, <4>4
    <2>2. CASE q # p
      BY <1>0, <1>2, <1>r, <2>2 DEF IInv, Ceiling
    <2> QED
      BY <2>1, <2>2
  <1>7. Increasing'
    <2> SUFFICES ASSUME NEW q \in Procs, NEW i \in Recent(q)',
                        NEW k \in Recent(q)', i < k
                 PROVE  ids'[q][i] < ids'[q][k]
      BY DEF Increasing
    <2>1. CASE q # p
      <3>1. i \in Recent(q) /\ k \in Recent(q) /\ ids'[q] = ids[q]
        BY <2>1, <1>2, <1>r
      <3> QED
        BY <3>1 DEF IInv, Increasing
    <2>2. CASE q = p /\ k = Len(ids[p]) + 1
      <3>0. i \in Recent(p)' /\ i # Len(ids[p]) + 1
        BY <2>2, <1>0
      <3>1. i \in Recent(p) /\ i \in 1..Len(ids[p])
        BY <3>0, <1>r
      <3>2. ids'[q][i] = ids[p][i] /\ ids'[q][k] = new
        BY <2>2, <1>4, <3>1
      <3> QED
        BY <3>1, <3>2 DEF new
    <2>3. CASE q = p /\ k # Len(ids[p]) + 1
      <3>0. k \in Recent(p)' /\ i \in Recent(p)' /\ k # Len(ids[p]) + 1
        BY <2>3
      <3>1. k \in Recent(p) /\ k \in 1..Len(ids[p])
        BY <3>0, <1>r
      <3>4. i # Len(ids[p]) + 1
        BY <1>0, <2>3, <3>1
      <3>3. i \in Recent(p) /\ i \in 1..Len(ids[p])
        BY <3>0, <3>4, <1>r
      <3>2. ids[p][i] < ids[p][k]
        BY <3>1, <3>3 DEF IInv, Increasing
      <3> QED
        BY <2>3, <1>4, <3>1, <3>2, <3>3
    <2> QED
      BY <2>1, <2>2, <2>3
  <1> QED
    BY <1>3, <1>5, <1>6, <1>7 DEF IInv

LEMMA InitIInv == Init => IInv
  <1> SUFFICES ASSUME Init PROVE IInv
    OBVIOUS
  <1>1. TypeOK
    <2>1. Start \in Nat /\ 0 \in 0..(SeqMod - 1) /\ <<>> \in Seq(Nat)
      BY SeqAssumption, BoundAssumption
    <2> QED
      BY <2>1 DEF Init, TypeOK
  <1>2. ASSUME NEW p \in Procs
        PROVE  ids[p] = <<>> /\ lastMs[p] = -1 /\ Recent(p) = {}
    <2>1. ids[p] = <<>> /\ lastMs[p] = -1 /\ since[p] = 0
      BY DEF Init
    <2>2. Len(ids[p]) = 0
      BY <2>1
    <2> QED
      BY <2>1, <2>2 DEF Recent
  <1>3. clock \in Nat
    BY <1>1 DEF TypeOK
  <1> QED
    BY <1>1, <1>2, <1>3 DEF IInv, TypeOK, Fields, Ceiling, Increasing

\* What a process has returned recently does not depend on the present.
LEMMA RecentStays ==
  ASSUME NEW p \in Procs, ids'[p] = ids[p], since' = since
  PROVE  Recent(p)' = Recent(p)
  BY DEF Recent

\* When the clock moves forward, every bound moves with it.
LEMMA TickKeeps == ASSUME IInv, Tick PROVE IInv'
  <1>1. /\ clock \in Nat /\ clock' = clock + 1 /\ steps' = steps /\ since' = since
        /\ lastMs' = lastMs /\ seq' = seq /\ waits' = waits /\ ids' = ids
    BY DEF IInv, TypeOK, Tick, generators
  <1>2. \A p \in Procs : Recent(p)' = Recent(p)
    BY <1>1, RecentStays
  <1>3. TypeOK' /\ Fields'
    BY <1>1 DEF IInv, TypeOK, Fields
  <1>4. Increasing'
    BY <1>1, <1>2 DEF IInv, Increasing
  <1>5. Ceiling'
    <2> SUFFICES ASSUME NEW p \in Procs
                 PROVE  /\ lastMs[p] <= clock + 1 \/ Recent(p) = {}
                        /\ lastMs[p] = -1 =>
                             \A i \in Recent(p) :
                               ids[p][i] < Pack(clock + 1, WorkerId[p], 0)
      BY <1>1, <1>2 DEF IInv, Ceiling
    <2>0. lastMs[p] <= clock \/ Recent(p) = {}
      BY DEF IInv, Ceiling
    <2>1. /\ lastMs[p] \in Int /\ (lastMs[p] <= clock \/ Recent(p) = {})
          /\ WorkerId[p] \in WorkerIds /\ 0 \in SeqNumbers
          /\ \A i \in Recent(p) : ids[p][i] \in Nat
      BY <2>0, OneProcess, Numbers DEF IInv
    <2>2. /\ Pack(clock, WorkerId[p], 0) < Pack(clock + 1, WorkerId[p], 0)
          /\ Pack(clock, WorkerId[p], 0) \in Nat
          /\ Pack(clock + 1, WorkerId[p], 0) \in Nat
      <3>1. clock \in Nat /\ clock + 1 \in Nat /\ clock < clock + 1
        BY <1>1
      <3>2. Pack(clock, WorkerId[p], 0) < Pack(clock + 1, WorkerId[p], 0)
        BY <2>1, <3>1, ByTime
      <3> QED
        BY <2>1, <3>1, <3>2, PackNat
    <2>3. lastMs[p] = -1 =>
            \A i \in Recent(p) : ids[p][i] < Pack(clock, WorkerId[p], 0)
      BY DEF IInv, Ceiling
    <2> QED
      BY <1>1, <2>1, <2>2, <2>3
  <1> QED
    BY <1>3, <1>4, <1>5 DEF IInv

\* When the clock is set back, nothing has been returned since.
LEMMA StepBackKeeps == ASSUME IInv, StepBack PROVE IInv'
  <1>1. /\ clock' \in Nat /\ steps' \in Nat
        /\ lastMs' = lastMs /\ seq' = seq /\ waits' = waits /\ ids' = ids
        /\ since' = [p \in Procs |-> Len(ids[p])]
    BY DEF IInv, TypeOK, StepBack, generators
  <1>2. \A p \in Procs : Len(ids[p]) \in Nat
    BY OneProcess DEF IInv
  <1>3. \A p \in Procs : Recent(p)' = {}
    BY <1>1, <1>2 DEF Recent
  <1>4. TypeOK' /\ Fields'
    BY <1>1, <1>2 DEF IInv, TypeOK, Fields
  <1>5. Increasing' /\ Ceiling'
    BY <1>3 DEF Increasing, Ceiling
  <1> QED
    BY <1>4, <1>5 DEF IInv

\* All that a process has returned recently lies below the present millisecond
\* once the clock has left the one it remembers.
LEMMA BelowClock ==
  ASSUME IInv, NEW p \in Procs, lastMs[p] < clock \/ Recent(p) = {}
  PROVE  \A i \in Recent(p) : ids[p][i] < Pack(clock, WorkerId[p], 0)
  <1>1. /\ clock \in Nat /\ lastMs[p] \in Int /\ lastMs[p] >= -1
        /\ WorkerId[p] \in WorkerIds /\ 0 \in SeqNumbers
        /\ \A i \in Recent(p) : ids[p][i] \in Nat
    BY OneProcess, Numbers DEF IInv
  <1>2. CASE lastMs[p] = -1
    BY <1>2 DEF IInv, Ceiling
  <1>4. CASE Recent(p) = {}
    BY <1>4
  <1>3. CASE lastMs[p] # -1 /\ lastMs[p] < clock
    <2>1. \A i \in Recent(p) : ids[p][i] < Pack(lastMs[p] + 1, WorkerId[p], 0)
      BY <1>3 DEF IInv, Ceiling
    <2>2. /\ Pack(lastMs[p] + 1, WorkerId[p], 0) \in Nat
          /\ Pack(clock, WorkerId[p], 0) \in Nat
      BY <1>1, <1>3, PackNat
    <2>3. CASE lastMs[p] + 1 = clock
      BY <2>1, <2>3
    <2>4. CASE lastMs[p] + 1 < clock
      <3>1. Pack(lastMs[p] + 1, WorkerId[p], 0) < Pack(clock, WorkerId[p], 0)
        BY <1>1, <1>3, <2>4, ByTime
      <3> QED
        BY <1>1, <2>1, <2>2, <3>1
    <2> QED
      BY <1>1, <2>3, <2>4
  <1> QED
    BY <1>2, <1>3, <1>4

\* nextId, called.
LEMMA NextIdKeeps == ASSUME IInv, NEW p \in Procs, NextId(p) PROVE IInv'
  <1>0. /\ clock \in Nat /\ lastMs[p] \in Int /\ lastMs[p] >= -1
        /\ seq[p] \in 0..(SeqMod - 1) /\ seq[p] \in SeqNumbers
        /\ WorkerId[p] \in WorkerIds
        /\ \A i \in Recent(p) : ids[p][i] \in Nat
        /\ SeqMod \in Nat \ {0} /\ 0..(SeqMod - 1) \subseteq SeqNumbers
        /\ lastMs[p] <= clock \/ Recent(p) = {}
        /\ ~waits[p] /\ waits \in [Procs -> BOOLEAN]
        /\ UNCHANGED time /\ clock' = clock /\ since' = since /\ steps' = steps
    BY OneProcess, SeqAssumption DEF IInv, TypeOK, Ceiling, NextId, time
  <1>1. CASE clock # lastMs[p] /\ Return(p, clock, 0) /\ UNCHANGED waits
    <2>1. \A i \in Recent(p) : ids[p][i] < Pack(clock, WorkerId[p], 0)
      BY <1>0, <1>1, BelowClock
    <2>2. 0 \in 0..(SeqMod - 1) /\ clock <= clock
      BY <1>0
    <2> QED
      BY <1>0, <1>1, <2>1, <2>2, ReturnKeeps
  <1>2. CASE /\ clock = lastMs[p] /\ (seq[p] + 1) % SeqMod # 0
             /\ Return(p, clock, seq[p] + 1) /\ UNCHANGED waits
    <2>1. seq[p] + 1 # SeqMod
      BY <1>0, <1>2
    <2>2. seq[p] + 1 \in 0..(SeqMod - 1) /\ seq[p] + 1 \in SeqNumbers /\ seq[p] < seq[p] + 1
      BY <1>0, <2>1
    <2>3. \A i \in Recent(p) : ids[p][i] <= Pack(clock, WorkerId[p], seq[p])
      BY <1>0, <1>2 DEF IInv, Ceiling
    <2>4. /\ Pack(clock, WorkerId[p], seq[p]) < Pack(clock, WorkerId[p], seq[p] + 1)
          /\ Pack(clock, WorkerId[p], seq[p]) \in Nat
          /\ Pack(clock, WorkerId[p], seq[p] + 1) \in Nat
      BY <1>0, <2>2, BySeq, PackNat
    <2>5. \A i \in Recent(p) : ids[p][i] < Pack(clock, WorkerId[p], seq[p] + 1)
      BY <1>0, <2>3, <2>4
    <2>6. clock <= clock
      BY <1>0
    <2> QED
      BY <1>0, <1>2, <2>2, <2>5, <2>6, ReturnKeeps
  <1>3. CASE /\ clock = lastMs[p]
             /\ seq' = [seq EXCEPT ![p] = 0]
             /\ waits' = [waits EXCEPT ![p] = TRUE]
             /\ UNCHANGED <<lastMs, ids>>
    <2>0. \A q \in Procs : Recent(q)' = Recent(q)
      BY <1>0, <1>3, RecentStays
    <2>1. TypeOK' /\ Fields' /\ Increasing'
      BY <1>0, <1>3, <2>0 DEF IInv, TypeOK, Fields, Increasing
    <2>2. \A q \in Procs : waits'[q] = (IF q = p THEN TRUE ELSE waits[q])
                           /\ (q # p => seq'[q] = seq[q])
      BY <1>0, <1>3 DEF IInv, TypeOK
    <2>3. Ceiling'
      BY <1>0, <1>3, <2>0, <2>2 DEF IInv, Ceiling
    <2> QED
      BY <2>1, <2>3 DEF IInv
  <1> QED
    BY <1>1, <1>2, <1>3 DEF NextId

\* nextId, after its loop.
LEMMA EndWaitKeeps == ASSUME IInv, NEW p \in Procs, EndWait(p) PROVE IInv'
  <1>1. clock \in Nat /\ lastMs[p] < clock /\ clock <= clock
    BY OneProcess DEF IInv, EndWait
  <1>2. \A i \in Recent(p) : ids[p][i] < Pack(clock, WorkerId[p], 0)
    BY <1>1, BelowClock
  <1>3. 0 \in 0..(SeqMod - 1)
    BY SeqAssumption
  <1>4. /\ UNCHANGED time /\ waits' \in [Procs -> BOOLEAN]
        /\ \A q \in Procs : q # p => waits'[q] = waits[q]
    BY DEF EndWait, IInv, TypeOK
  <1> QED
    BY <1>1, <1>2, <1>3, <1>4, ReturnKeeps DEF EndWait

\* A new process starts below the clock.
LEMMA RestartKeeps == ASSUME IInv, NEW p \in Procs, Restart(p) PROVE IInv'
  <1>0. /\ clock' = clock /\ steps' = steps /\ since' = since /\ ids' = ids
        /\ lastMs[p] < clock \/ Recent(p) = {}
    BY OneProcess DEF Restart, IInv, time, Recent
  <1>r. \A q \in Procs : Recent(q)' = Recent(q)
    BY <1>0, RecentStays
  <1>1. TypeOK' /\ Fields' /\ Increasing'
    BY <1>0, <1>r, SeqAssumption DEF Restart, IInv, TypeOK, Fields, Increasing
  <1>2. \A i \in Recent(p) : ids[p][i] < Pack(clock, WorkerId[p], 0)
    BY <1>0, BelowClock
  <1>3. /\ clock' = clock /\ ids' = ids /\ clock \in Nat /\ lastMs'[p] = -1
        /\ \A q \in Procs : q # p => /\ lastMs'[q] = lastMs[q]
                                     /\ seq'[q] = seq[q]
                                     /\ waits'[q] = waits[q]
    BY <1>0 DEF Restart, IInv, TypeOK
  <1>4. Ceiling'
    <2> SUFFICES ASSUME NEW q \in Procs
                 PROVE  /\ lastMs'[q] <= clock' \/ Recent(q)' = {}
                        /\ lastMs'[q] = -1 =>
                             \A i \in Recent(q)' :
                               ids'[q][i] < Pack(clock', WorkerId[q], 0)
                        /\ lastMs'[q] # -1 =>
                             \A i \in Recent(q)' :
                               ids'[q][i] < Pack(lastMs'[q] + 1, WorkerId[q], 0)
                        /\ lastMs'[q] # -1 /\ ~waits'[q] =>
                             \A i \in Recent(q)' :
                               ids'[q][i] <= Pack(lastMs'[q], WorkerId[q], seq'[q])
      BY DEF Ceiling
    <2>1. CASE q = p
      BY <1>2, <1>3, <1>r, <2>1
    <2>2. CASE q # p
      BY <1>3, <1>r, <2>2 DEF IInv, Ceiling
    <2> QED
      BY <2>1, <2>2
  <1> QED
    BY <1>1, <1>4 DEF IInv

\* Every step keeps the invariant.
LEMMA StepIInv == IInv /\ [Next]_vars => IInv'
  <1> SUFFICES ASSUME IInv, [Next]_vars PROVE IInv'
    OBVIOUS
  <1>1. CASE UNCHANGED vars
    <2>1. \A q \in Procs : Recent(q)' = Recent(q)
      BY <1>1, RecentStays DEF vars, time, generators
    <2> QED
      BY <1>1, <2>1 DEF vars, time, generators, IInv, TypeOK, Fields, Ceiling, Increasing
  <1> QED
    BY <1>1, TickKeeps, StepBackKeeps, NextIdKeeps, EndWaitKeeps, RestartKeeps DEF Next

\* What every process returns grows from one setting back of the clock to the
\* next, so no identifier is returned twice by one process in between, wrap of
\* the sequence and restarts included.
THEOREM IncreasingTheorem == Spec => []Increasing
  <1>1. IInv => Increasing
    BY DEF IInv
  <1> QED
    BY InitIInv, StepIInv, <1>1, PTL DEF Spec

\* Processes with different worker ids never return the same identifier.
THEOREM DistinctTheorem == Spec => []Distinct
  <1>1. IInv => Distinct
    <2> SUFFICES ASSUME IInv, NEW p \in Procs, NEW q \in Procs,
                        WorkerId[p] # WorkerId[q],
                        NEW i \in 1..Len(ids[p]), NEW k \in 1..Len(ids[q])
                 PROVE  ids[p][i] # ids[q][k]
      BY DEF Distinct
    <2>1. PICK t \in Nat, r \in SeqNumbers : ids[p][i] = Pack(t, WorkerId[p], r)
      BY DEF IInv, Fields
    <2>2. PICK u \in Nat, s \in SeqNumbers : ids[q][k] = Pack(u, WorkerId[q], s)
      BY DEF IInv, Fields
    <2>3. WorkerId[p] \in WorkerIds /\ WorkerId[q] \in WorkerIds
      BY WorkerAssumption
    <2> QED
      BY <2>1, <2>2, <2>3, PackSeparates
  <1> QED
    BY InitIInv, StepIInv, <1>1, PTL DEF Spec

\* The fields keep to their bits in every reachable state.
THEOREM TypeTheorem == Spec => []TypeOK
  <1>1. IInv => TypeOK
    BY DEF IInv
  <1> QED
    BY InitIInv, StepIInv, <1>1, PTL DEF Spec

-----------------------------------------------------------------------------

\* Every step draws an identifier, restarts a process, moves the clock or
\* leaves the identifiers alone.
LEMMA StepOfIds ==
  ASSUME [AccountsNext]_accountsVars
  PROVE  [Next]_vars
  <1>1. CASE UNCHANGED accountsVars
    BY <1>1 DEF accountsVars
  <1>2. ASSUME NEW r \in Slots, Begin(r)
        PROVE  [Next]_vars
    <2>1. ASSUME NEW d \in Devices, BeginRefresh(r, d) PROVE UNCHANGED vars
      BY <2>1 DEF BeginRefresh
    <2>2. ASSUME NEW d \in Devices, NEW c \in codes, BeginLogin(r, d, c) PROVE UNCHANGED vars
      BY <2>2 DEF BeginLogin
    <2>3. ASSUME NEW q \in Phones, BeginCreate(r, q) PROVE Next
      <3>1. ProcOf[r] \in Procs /\ NextId(ProcOf[r])
        BY <2>3, SlotsAssumption DEF BeginCreate
      <3> QED BY <3>1 DEF Next
    <2>4. ASSUME NEW q \in Phones, NEW u \in users, BeginUpdate(r, u, q) PROVE UNCHANGED vars
      BY <2>4 DEF BeginUpdate
    <2>5. ASSUME NEW u \in users, BeginRemove(r, u) PROVE UNCHANGED vars
      BY <2>5 DEF BeginRemove
    <2> QED
      BY <1>2, <2>1, <2>2, <2>3, <2>4, <2>5 DEF Begin
  <1>3. ASSUME NEW r \in Slots, Handler(r)
        PROVE  [Next]_vars
    <2>1. ASSUME FindUser(r) PROVE [Next]_vars
      <3>1. ProcOf[r] \in Procs
        BY SlotsAssumption
      <3>2. NextId(ProcOf[r]) \/ UNCHANGED vars
        BY <2>1 DEF FindUser, DrawId
      <3> QED BY <3>1, <3>2 DEF Next
    <2>2. ASSUME EndDraw(r) PROVE Next
      <3>1. ProcOf[r] \in Procs /\ EndWait(ProcOf[r])
        BY <2>2, SlotsAssumption DEF EndDraw
      <3> QED BY <3>1 DEF Next
    <2>3. ASSUME \/ DelCode(r) \/ InsertUser(r) \/ FindById(r) \/ SetToken(r) \/ Answer(r)
                 \/ Abort(r) \/ CheckClash(r) \/ UpdateUser(r) \/ DeleteUser(r)
          PROVE  UNCHANGED vars
      BY <2>3 DEF DelCode, InsertUser, FindById, SetToken, Answer, Abort, CheckClash,
                  UpdateUser, DeleteUser
    <2> QED
      BY <1>3, <2>1, <2>2, <2>3 DEF Handler
  <1>4. ASSUME Environment
        PROVE  [Next]_vars
    <2>1. ASSUME NEW q \in UNION {PhonesOf[d] : d \in Devices}, SendCode(q) PROVE UNCHANGED vars
      BY <2>1 DEF SendCode
    <2>2. ASSUME NEW c \in codes, ExpireCode(c) PROVE UNCHANGED vars
      BY <2>2 DEF ExpireCode
    <2>3. ASSUME NEW t \in stored, ExpireToken(t) PROVE UNCHANGED vars
      BY <2>3 DEF ExpireToken
    <2>4. ASSUME NEW p \in Procs, RestartProcess(p) PROVE Next
      BY <2>4 DEF RestartProcess, Next
    <2> QED
      BY <1>4, <2>1, <2>2, <2>3, <2>4 DEF Environment, Next
  <1> QED
    BY <1>1, <1>2, <1>3, <1>4 DEF AccountsNext

\* What Snowflake promises holds of the identifiers here.
THEOREM IdsTheorem == AccountsSpec => Spec
  <1>1. AccountsInit => Init
    BY DEF AccountsInit
  <1> QED
    BY <1>1, StepOfIds, PTL DEF AccountsSpec, Spec

LEMMA IdsInit == AccountsInit => IInv
  BY InitIInv DEF AccountsInit

LEMMA IdsStep ==
  ASSUME IInv, [AccountsNext]_accountsVars
  PROVE  IInv'
  BY StepOfIds, StepIInv

-----------------------------------------------------------------------------
(* Types.  What a request has set depends on where it is.                   *)

Asks(x, n) ==
  /\ x.pc \in {"del", "find", "wait", "insert", "clash", "update"} => x.phone \in Phones
  /\ x.pc \in {"findById", "set", "answer"} => x.token \in Tokens /\ x.dev \in Devices
  /\ x.pc \in {"del", "find"} => x.kind = "login"
  /\ x.kind = "login" => x.dev \in Devices /\ x.code \in 1..n

AType == TypeOK /\ AccountsTypeOK /\ \A r \in Slots : Asks(req[r], sent)

LEMMA IdleAsks ==
  ASSUME NEW n \in Nat
  PROVE  IdleReq \in Requests(n) /\ Asks(IdleReq, n)
  BY DEF IdleReq, Requests, Asks, Kinds

LEMMA MoreCodes ==
  ASSUME NEW n \in Nat, NEW x \in Requests(n), Asks(x, n)
  PROVE  x \in Requests(n + 1) /\ Asks(x, n + 1)
  BY DEF Requests, Asks

\* A request that goes on as one that keeps to its fields.
LEMMA GotoAsks ==
  ASSUME AType, NEW r \in Slots, NEW x \in Requests(sent), Asks(x, sent), Goto(r, x)
  PROVE  req' \in [Slots -> Requests(sent)] /\ \A q \in Slots : Asks(req'[q], sent)
  BY DEF AType, AccountsTypeOK, Goto

LEMMA GotoOthers ==
  ASSUME AType, NEW r \in Slots, NEW x, Goto(r, x)
  PROVE  req'[r] = x /\ \A q \in Slots : q # r => req'[q] = req[q]
  BY DEF AType, AccountsTypeOK, Goto

LEMMA FinishAsks ==
  ASSUME AType, NEW r \in Slots, Finish(r)
  PROVE  req' \in [Slots -> Requests(sent)] /\ \A q \in Slots : Asks(req'[q], sent)
  BY GotoAsks, IdleAsks DEF AType, AccountsTypeOK, Finish

LEMMA SignedAsks ==
  ASSUME AType, NEW r \in Slots, req[r].dev \in Devices, NEW u,
         u.id \in Nat, u.phone \in Phones
  PROVE  Signed(r, u) \in Requests(sent) /\ Asks(Signed(r, u), sent)
  <1>1. clock \div Second \in Nat
    <2>1. clock \in Nat /\ Second \in Nat \ {0}
      BY SecondAssumption DEF AType, TypeOK
    <2> QED
      BY <2>1, SMT
  <1>2. [sub |-> u.id, phone |-> u.phone, iat |-> clock \div Second] \in Tokens
    BY <1>1 DEF Tokens
  <1>3. req[r] \in Requests(sent) /\ Asks(req[r], sent)
    BY DEF AType, AccountsTypeOK
  <1> QED
    BY <1>2, <1>3 DEF Signed, Requests, Asks

\* The identifier that has just been drawn is a number.
LEMMA LastIdNat ==
  ASSUME TypeOK, TypeOK', NEW p \in Procs, NEW n, ids' = [ids EXCEPT ![p] = Append(@, n)]
  PROVE  LastId(p) \in Nat /\ LastId(p) = n
  <1>1. ids[p] \in Seq(Nat) /\ ids'[p] = Append(ids[p], n) /\ ids'[p] \in Seq(Nat)
    BY DEF TypeOK
  <1>2. Len(ids'[p]) = Len(ids[p]) + 1 /\ ids'[p][Len(ids[p]) + 1] = n
    BY <1>1
  <1> QED
    BY <1>1, <1>2 DEF LastId

LEMMA OvertakenAsks ==
  ASSUME NEW n \in Nat, NEW x \in Requests(n), Asks(x, n)
  PROVE  /\ [x EXCEPT !.overtaken = TRUE] \in Requests(n) /\ Asks([x EXCEPT !.overtaken = TRUE], n)
         /\ x.pc = "set" => [x EXCEPT !.pc = "answer"] \in Requests(n) /\ Asks([x EXCEPT !.pc = "answer"], n)
  BY DEF Requests, Asks

LEMMA HandlerCases ==
  ASSUME NEW r, Handler(r)
  PROVE  \/ DelCode(r) \/ FindUser(r) \/ EndDraw(r) \/ InsertUser(r) \/ FindById(r)
         \/ SetToken(r) \/ Answer(r) \/ Abort(r)
         \/ CheckClash(r) \/ UpdateUser(r) \/ DeleteUser(r)
  BY DEF Handler

\* Handlers that end leave the others as they are.
LEMMA EndAsks ==
  ASSUME AType, NEW rs, End(rs)
  PROVE  /\ req' \in [Slots -> Requests(sent)] /\ \A q \in Slots : Asks(req'[q], sent)
         /\ settled' \in [Devices -> BOOLEAN]
  <1>1. sent \in Nat /\ IdleReq \in Requests(sent) /\ Asks(IdleReq, sent)
    BY IdleAsks DEF AType, AccountsTypeOK
  <1>2. req' \in [Slots -> Requests(sent)] /\ \A q \in Slots : Asks(req'[q], sent)
    BY <1>1 DEF End, AType, AccountsTypeOK
  <1>3. settled' \in [Devices -> BOOLEAN]
    BY Zenon DEF End, AType, AccountsTypeOK
  <1> QED BY <1>2, <1>3

\* Two places in which a handler draws the identifier of a row.
LEMMA DrawAsks ==
  ASSUME AType, TypeOK', NEW r \in Slots, NEW x \in Requests(sent), Asks(x, sent),
         x.phone \in Phones, NextId(ProcOf[r]),
         \/ waits'[ProcOf[r]] /\ Goto(r, [x EXCEPT !.pc = "wait"])
         \/ ~waits'[ProcOf[r]] /\ Goto(r, [x EXCEPT !.pc = "insert", !.id = LastId(ProcOf[r])])
  PROVE  req' \in [Slots -> Requests(sent)] /\ \A q \in Slots : Asks(req'[q], sent)
  <1>1. CASE Goto(r, [x EXCEPT !.pc = "wait"])
    <2>1. [x EXCEPT !.pc = "wait"] \in Requests(sent) /\ Asks([x EXCEPT !.pc = "wait"], sent)
      BY DEF Requests, Asks
    <2> QED BY <1>1, <2>1, GotoAsks
  <1>2. CASE ~waits'[ProcOf[r]] /\ Goto(r, [x EXCEPT !.pc = "insert", !.id = LastId(ProcOf[r])])
    <2> DEFINE y == [x EXCEPT !.pc = "insert", !.id = LastId(ProcOf[r])]
    <2>1. ProcOf[r] \in Procs
      BY SlotsAssumption
    <2>2. PICK n : ids' = [ids EXCEPT ![ProcOf[r]] = Append(@, n)]
      <3>1. waits'[ProcOf[r]] \/ \E ms, s : Return(ProcOf[r], ms, s)
        BY <2>1 DEF NextId, AType, TypeOK
      <3> QED BY <1>2, <3>1 DEF Return
    <2>3. LastId(ProcOf[r]) \in Nat
      BY <2>1, <2>2, LastIdNat DEF AType
    <2>4. y \in Requests(sent) /\ Asks(y, sent)
      BY <2>3 DEF Requests, Asks
    <2> QED BY <1>2, <2>4, GotoAsks
  <1> QED BY <1>1, <1>2

LEMMA InitAType == AccountsInit => AType
  <1> SUFFICES ASSUME AccountsInit PROVE AType
    OBVIOUS
  <1>1. TypeOK
    BY IdsInit DEF IInv
  <1>2. IdleReq \in Requests(0) /\ Asks(IdleReq, 0)
    BY IdleAsks
  <1>3. req \in [Slots -> Requests(sent)] /\ \A r \in Slots : Asks(req[r], sent)
    BY <1>2 DEF AccountsInit
  <1> QED
    BY <1>1, <1>3 DEF AccountsInit, AType, AccountsTypeOK

\* The steps of a request before its last call keep types.
LEMMA BeginKeepsTypes ==
  ASSUME AType, TypeOK', NEW r \in Slots, Begin(r)
  PROVE  AType'
  <1> USE DEF AType
  <1>1. ASSUME NEW d \in Devices, BeginRefresh(r, d) PROVE AType'
    <2>1. PICK t \in held[d] \cap stored :
            Goto(r, [IdleReq EXCEPT !.pc = "findById", !.kind = "refresh", !.dev = d, !.token = t])
      BY <1>1 DEF BeginRefresh
    <2> DEFINE x == [IdleReq EXCEPT !.pc = "findById", !.kind = "refresh", !.dev = d, !.token = t]
    <2>2. t \in Tokens
      BY DEF AccountsTypeOK
    <2>3. x \in Requests(sent) /\ Asks(x, sent)
      <3>1. IdleReq \in Requests(sent)
        BY IdleAsks DEF AccountsTypeOK
      <3>2. x \in Requests(sent)
        BY <2>2, <3>1 DEF Requests, Kinds
      <3>3. Asks(x, sent)
        BY <2>2 DEF Asks, IdleReq
      <3> QED BY <3>2, <3>3
    <2>4. req' \in [Slots -> Requests(sent)] /\ \A q \in Slots : Asks(req'[q], sent)
      BY <2>1, <2>3, GotoAsks
    <2> QED BY <1>1, <2>4 DEF BeginRefresh, AccountsTypeOK, dataVars, deviceVars
  <1>2. ASSUME NEW d \in Devices, NEW c \in codes, BeginLogin(r, d, c) PROVE AType'
    <2> DEFINE x == [IdleReq EXCEPT !.pc = "del", !.kind = "login", !.dev = d,
                                    !.phone = c.phone, !.code = c.no]
    <2>1. c.phone \in Phones /\ c.no \in 1..sent /\ sent \in Nat
      BY DEF AccountsTypeOK
    <2>2. c.phone \in Phones /\ c.no \in 1..sent /\ c.no \in 0..sent /\ sent \in Nat
      BY <2>1
    <2>3. x \in Requests(sent) /\ Asks(x, sent)
      <3>1. IdleReq \in Requests(sent)
        BY IdleAsks DEF AccountsTypeOK
      <3>2. x \in Requests(sent)
        BY <2>2, <3>1 DEF Requests, Kinds
      <3>3. Asks(x, sent)
        BY <2>2 DEF Asks, IdleReq
      <3> QED BY <3>2, <3>3
    <2>4. req' \in [Slots -> Requests(sent)] /\ \A q \in Slots : Asks(req'[q], sent)
      BY <1>2, <2>3, GotoAsks DEF BeginLogin
    <2> QED BY <1>2, <2>4 DEF BeginLogin, AccountsTypeOK, dataVars, deviceVars
  <1>3. ASSUME NEW q \in Phones, BeginCreate(r, q) PROVE AType'
    <2> DEFINE x == [IdleReq EXCEPT !.kind = "create", !.phone = q]
    <2>1. sent \in Nat
      BY DEF AccountsTypeOK
    <2>3. x \in Requests(sent) /\ Asks(x, sent) /\ x.phone \in Phones
      <3>1. IdleReq \in Requests(sent)
        BY IdleAsks DEF AccountsTypeOK
      <3>2. x \in Requests(sent)
        BY <2>1, <3>1 DEF Requests, Kinds
      <3>3. Asks(x, sent) /\ x.phone \in Phones
        BY <2>1 DEF Asks, IdleReq
      <3> QED BY <3>2, <3>3
    <2>4. /\ NextId(ProcOf[r])
          /\ \/ waits'[ProcOf[r]] /\ Goto(r, [x EXCEPT !.pc = "wait"])
             \/ ~waits'[ProcOf[r]] /\ Goto(r, [x EXCEPT !.pc = "insert", !.id = LastId(ProcOf[r])])
      BY <1>3 DEF BeginCreate
    <2>5. req' \in [Slots -> Requests(sent)] /\ \A s \in Slots : Asks(req'[s], sent)
      BY <2>3, <2>4, DrawAsks
    <2> QED BY <1>3, <2>5 DEF BeginCreate, AccountsTypeOK, dataVars, deviceVars
  <1>4. ASSUME NEW q \in Phones, NEW u \in users, BeginUpdate(r, u, q) PROVE AType'
    <2> DEFINE x == [IdleReq EXCEPT !.pc = IF q = u.phone THEN "update" ELSE "clash",
                                    !.kind = "update", !.id = u.id, !.phone = q]
    <2>2. u.id \in Nat /\ sent \in Nat
      BY DEF AccountsTypeOK
    <2>3. x \in Requests(sent) /\ Asks(x, sent)
      <3>1. IdleReq \in Requests(sent)
        BY IdleAsks DEF AccountsTypeOK
      <3>2. x \in Requests(sent)
        BY <2>2, <3>1 DEF Requests, Kinds
      <3>3. Asks(x, sent)
        BY <2>2 DEF Asks, IdleReq
      <3> QED BY <3>2, <3>3
    <2>4. req' \in [Slots -> Requests(sent)] /\ \A s \in Slots : Asks(req'[s], sent)
      BY <1>4, <2>3, GotoAsks DEF BeginUpdate
    <2> QED BY <1>4, <2>4 DEF BeginUpdate, AccountsTypeOK, dataVars, deviceVars
  <1>5. ASSUME NEW u \in users, BeginRemove(r, u) PROVE AType'
    <2> DEFINE x == [IdleReq EXCEPT !.pc = "delete", !.kind = "remove", !.id = u.id]
    <2>2. u.id \in Nat /\ sent \in Nat
      BY DEF AccountsTypeOK
    <2>3. x \in Requests(sent) /\ Asks(x, sent)
      <3>1. IdleReq \in Requests(sent)
        BY IdleAsks DEF AccountsTypeOK
      <3>2. x \in Requests(sent)
        BY <2>2, <3>1 DEF Requests, Kinds
      <3>3. Asks(x, sent)
        BY <2>2 DEF Asks, IdleReq
      <3> QED BY <3>2, <3>3
    <2>4. req' \in [Slots -> Requests(sent)] /\ \A s \in Slots : Asks(req'[s], sent)
      BY <1>5, <2>3, GotoAsks DEF BeginRemove
    <2> QED BY <1>5, <2>4 DEF BeginRemove, AccountsTypeOK, dataVars, deviceVars
  <1> QED
    BY <1>1, <1>2, <1>3, <1>4, <1>5 DEF Begin

LEMMA HandlerKeepsTypes ==
  ASSUME AType, TypeOK', NEW r \in Slots, Handler(r)
  PROVE  AType'
  <1> USE DEF AType
  <1>0. req[r] \in Requests(sent) /\ Asks(req[r], sent) /\ sent \in Nat /\ made \in Nat
    BY DEF AccountsTypeOK
  <1>1. CASE DelCode(r)
    <2>1. [req[r] EXCEPT !.pc = "find"] \in Requests(sent)
          /\ Asks([req[r] EXCEPT !.pc = "find"], sent)
      BY <1>0, <1>1 DEF DelCode, At, Requests, Asks
    <2>2. req' \in [Slots -> Requests(sent)] /\ \A q \in Slots : Asks(req'[q], sent)
      BY <1>1, <2>1, GotoAsks DEF DelCode
    <2> QED BY <1>1, <2>2 DEF DelCode, AccountsTypeOK, deviceVars
  <1>2. CASE FindUser(r)
    <2>0. req[r].phone \in Phones /\ req[r].dev \in Devices
      BY <1>0, <1>2 DEF FindUser, At, Asks
    <2>1. CASE DrawId(r) /\ UNCHANGED entered
      <3>1. req' \in [Slots -> Requests(sent)] /\ \A q \in Slots : Asks(req'[q], sent)
        BY <1>0, <2>0, <2>1, DrawAsks DEF DrawId
      <3> QED BY <1>2, <2>1, <3>1 DEF FindUser, AccountsTypeOK, deviceVars
    <2>2. ASSUME NEW u \in users, Goto(r, Signed(r, u)), entered' = entered \cup {<<req[r].dev, u.no>>}
          PROVE  AType'
      <3>1. u.id \in Nat /\ u.phone \in Phones /\ u.no \in 1..made
        BY DEF AccountsTypeOK
      <3>2. req' \in [Slots -> Requests(sent)] /\ \A q \in Slots : Asks(req'[q], sent)
        BY <2>0, <2>2, <3>1, SignedAsks, GotoAsks
      <3> QED BY <1>2, <2>0, <2>2, <3>1, <3>2 DEF FindUser, AccountsTypeOK, deviceVars
    <2> QED BY <1>2, <2>1, <2>2 DEF FindUser, WithPhone
  <1>3. CASE EndDraw(r)
    <2> DEFINE y == [req[r] EXCEPT !.pc = "insert", !.id = LastId(ProcOf[r])]
    <2>1. ProcOf[r] \in Procs
      BY SlotsAssumption
    <2>2. PICK n : ids' = [ids EXCEPT ![ProcOf[r]] = Append(@, n)]
      BY <1>3 DEF EndDraw, EndWait, Return
    <2>3. LastId(ProcOf[r]) \in Nat
      BY <2>1, <2>2, LastIdNat
    <2>4. y \in Requests(sent) /\ Asks(y, sent)
      BY <1>0, <1>3, <2>3 DEF EndDraw, Requests, Asks
    <2>5. req' \in [Slots -> Requests(sent)] /\ \A q \in Slots : Asks(req'[q], sent)
      BY <1>3, <2>4, GotoAsks DEF EndDraw
    <2> QED BY <1>3, <2>5 DEF EndDraw, AccountsTypeOK, dataVars, deviceVars
  <1>4. CASE InsertUser(r)
    <2>0. req[r].phone \in Phones /\ req[r].id \in Nat
      BY <1>0, <1>4 DEF InsertUser, At, Asks, Requests
    <2>1. CASE Finish(r) /\ UNCHANGED <<users, made, entered>>
      BY <1>4, <2>1, FinishAsks DEF InsertUser, AccountsTypeOK, deviceVars
    <2>2. CASE made' = made + 1
      <3> DEFINE u == [id |-> req[r].id, phone |-> req[r].phone, no |-> made + 1]
      <3>1. users' = users \cup {u} /\ users' \subseteq [id : Nat, phone : Phones, no : 1..made']
        BY <1>0, <1>4, <2>0, <2>2 DEF InsertUser, AccountsTypeOK
      <3>2. CASE req[r].kind = "login" /\ Goto(r, Signed(r, u))
                 /\ entered' = entered \cup {<<req[r].dev, u.no>>}
        <4>1. req[r].dev \in Devices
          BY <1>0, <3>2 DEF Asks
        <4>2. req' \in [Slots -> Requests(sent)] /\ \A q \in Slots : Asks(req'[q], sent)
          BY <2>0, <3>2, <4>1, SignedAsks, GotoAsks
        <4>3. entered' \subseteq Devices \X (1..made')
          BY <1>0, <2>2, <3>2, <4>1 DEF AccountsTypeOK
        <4> QED BY <1>0, <1>4, <2>2, <3>1, <4>2, <4>3 DEF InsertUser, AccountsTypeOK, deviceVars
      <3>3. CASE Finish(r) /\ UNCHANGED entered
        <4>1. req' \in [Slots -> Requests(sent)] /\ \A q \in Slots : Asks(req'[q], sent)
          BY <3>3, FinishAsks
        <4>2. entered' \subseteq Devices \X (1..made')
          BY <1>0, <2>2, <3>3 DEF AccountsTypeOK
        <4> QED BY <1>0, <1>4, <2>2, <3>1, <4>1, <4>2 DEF InsertUser, AccountsTypeOK, deviceVars
      <3> QED BY <1>0, <1>4, <2>2, <3>2, <3>3 DEF InsertUser
    <2> QED BY <1>4, <2>1, <2>2 DEF InsertUser
  <1>5. CASE FindById(r)
    <2>1. CASE Finish(r)
      BY <1>5, <2>1, FinishAsks DEF FindById, AccountsTypeOK, dataVars, deviceVars
    <2>2. ASSUME NEW u \in users, Goto(r, Signed(r, u)) PROVE AType'
      <3>1. u.id \in Nat /\ u.phone \in Phones /\ req[r].dev \in Devices
        BY <1>0, <1>5 DEF FindById, At, Asks, AccountsTypeOK
      <3>2. req' \in [Slots -> Requests(sent)] /\ \A q \in Slots : Asks(req'[q], sent)
        BY <2>2, <3>1, SignedAsks, GotoAsks
      <3> QED BY <1>5, <3>2 DEF FindById, AccountsTypeOK, dataVars, deviceVars
    <2> QED BY <1>5, <2>1, <2>2 DEF FindById
  <1>6. CASE SetToken(r)
    <2>0. req[r].token \in Tokens /\ req[r].pc = "set"
      BY <1>0, <1>6 DEF SetToken, At, Asks
    <2>1. stored' \subseteq Tokens /\ \A s, t \in stored' : s.sub = t.sub => s = t
      BY <1>6, <2>0 DEF SetToken, AccountsTypeOK
    <2>2. used' \subseteq 1..sent
      BY <1>0, <1>6 DEF SetToken, AccountsTypeOK, Asks
    <2>3. req' \in [Slots -> Requests(sent)] /\ \A q \in Slots : Asks(req'[q], sent)
      BY <1>0, <1>6, <2>0, OvertakenAsks DEF SetToken, Displace, AccountsTypeOK
    <2>4. settled' \in [Devices -> BOOLEAN]
      BY <1>6, Zenon DEF SetToken, Displace, AccountsTypeOK
    <2> QED BY <1>6, <2>1, <2>2, <2>3, <2>4 DEF SetToken, AccountsTypeOK
  <1>7. CASE Answer(r)
    <2>0. req[r].token \in Tokens /\ req[r].overtaken \in BOOLEAN
      BY <1>0, <1>7 DEF Answer, At, Asks, Requests
    <2>1. held' \in [Devices -> SUBSET Tokens]
      BY <1>7, <2>0 DEF Answer, AccountsTypeOK
    <2>2. settled' \in [Devices -> BOOLEAN]
      BY <1>7, <2>0 DEF Answer, AccountsTypeOK
    <2>3. req' \in [Slots -> Requests(sent)] /\ \A q \in Slots : Asks(req'[q], sent)
      BY <1>7, FinishAsks DEF Answer
    <2> QED BY <1>7, <2>1, <2>2, <2>3 DEF Answer, AccountsTypeOK, dataVars
  <1>8. CASE Abort(r)
    BY <1>8, EndAsks DEF Abort, End, AccountsTypeOK, dataVars
  <1>9. CASE CheckClash(r)
    <2>1. CASE Finish(r)
      BY <1>9, <2>1, FinishAsks DEF CheckClash, AccountsTypeOK, dataVars, deviceVars
    <2>2. CASE Goto(r, [req[r] EXCEPT !.pc = "update"])
      <3>1. [req[r] EXCEPT !.pc = "update"] \in Requests(sent)
            /\ Asks([req[r] EXCEPT !.pc = "update"], sent)
        BY <1>0, <1>9 DEF CheckClash, At, Requests, Asks
      <3>2. req' \in [Slots -> Requests(sent)] /\ \A q \in Slots : Asks(req'[q], sent)
        BY <2>2, <3>1, GotoAsks
      <3> QED BY <1>9, <3>2 DEF CheckClash, AccountsTypeOK, dataVars, deviceVars
    <2> QED BY <1>9, <2>1, <2>2 DEF CheckClash
  <1>10. CASE UpdateUser(r)
    <2>1. req[r].phone \in Phones
      BY <1>0, <1>10 DEF UpdateUser, At, Asks
    <2>2. users' \subseteq [id : Nat, phone : Phones, no : 1..made]
      BY <1>10, <2>1 DEF UpdateUser, AccountsTypeOK
    <2>3. req' \in [Slots -> Requests(sent)] /\ \A q \in Slots : Asks(req'[q], sent)
      BY <1>10, FinishAsks DEF UpdateUser
    <2> QED BY <1>10, <2>2, <2>3 DEF UpdateUser, AccountsTypeOK, deviceVars
  <1>11. CASE DeleteUser(r)
    <2>3. req' \in [Slots -> Requests(sent)] /\ \A q \in Slots : Asks(req'[q], sent)
      BY <1>11, FinishAsks DEF DeleteUser
    <2> QED BY <1>11, <2>3 DEF DeleteUser, AccountsTypeOK, deviceVars
  <1> QED
    BY <1>1, <1>2, <1>3, <1>4, <1>5, <1>6, <1>7, <1>8, <1>9, <1>10, <1>11, HandlerCases

LEMMA EnvironmentKeepsTypes ==
  ASSUME AType, TypeOK', Environment
  PROVE  AType'
  <1> USE DEF AType
  <1>1. ASSUME NEW q \in UNION {PhonesOf[d] : d \in Devices}, SendCode(q) PROVE AType'
    <2>1. q \in Phones /\ sent \in Nat
      BY PhonesAssumption DEF AccountsTypeOK
    <2>2. codes' \subseteq [phone : Phones, no : 1..sent']
      BY <1>1, <2>1 DEF SendCode, AccountsTypeOK
    <2>3. req' \in [Slots -> Requests(sent')] /\ \A r \in Slots : Asks(req'[r], sent')
      BY <1>1, <2>1, MoreCodes DEF SendCode, AccountsTypeOK
    <2>4. used' \subseteq 1..sent' /\ sent' \in Nat
      BY <1>1, <2>1 DEF SendCode, AccountsTypeOK
    <2> QED BY <1>1, <2>2, <2>3, <2>4 DEF SendCode, AccountsTypeOK, deviceVars
  <1>2. ASSUME NEW c \in codes, ExpireCode(c) PROVE AType'
    BY <1>2 DEF ExpireCode, AccountsTypeOK, deviceVars
  <1>3. ASSUME NEW t \in stored, ExpireToken(t) PROVE AType'
    <2>1. req' \in [Slots -> Requests(sent)] /\ \A q \in Slots : Asks(req'[q], sent)
      BY <1>3, OvertakenAsks DEF ExpireToken, AccountsTypeOK
    <2>2. settled' \in [Devices -> BOOLEAN]
      BY <1>3, Zenon DEF ExpireToken, AccountsTypeOK
    <2> QED BY <1>3, <2>1, <2>2 DEF ExpireToken, AccountsTypeOK
  <1>4. ASSUME NEW p \in Procs, RestartProcess(p) PROVE AType'
    BY <1>4, EndAsks DEF RestartProcess, End, AccountsTypeOK, dataVars
  <1>5. CASE (Tick \/ StepBack) /\ UNCHANGED <<dataVars, deviceVars, req>>
    BY <1>5 DEF AccountsTypeOK, dataVars, deviceVars
  <1> QED
    BY <1>1, <1>2, <1>3, <1>4, <1>5 DEF Environment

LEMMA StepAType ==
  ASSUME IInv, AType, [AccountsNext]_accountsVars
  PROVE  AType'
  <1>1. TypeOK'
    BY IdsStep DEF IInv
  <1>2. CASE UNCHANGED accountsVars
    BY <1>1, <1>2 DEF accountsVars, dataVars, deviceVars, AType, AccountsTypeOK
  <1> QED
    BY <1>1, <1>2, BeginKeepsTypes, HandlerKeepsTypes, EnvironmentKeepsTypes DEF AccountsNext

\* Requests keep to their fields at every point of every handler, and Redis has
\* one refresh token for a user.
THEOREM AccountsTypeTheorem == AccountsSpec => []AccountsTypeOK
  <1>1. IInv /\ AType => AccountsTypeOK
    BY DEF AType
  <1>2. IInv /\ AType /\ [AccountsNext]_accountsVars => (IInv /\ AType)'
    BY IdsStep, StepAType
  <1>3. AccountsInit => IInv /\ AType
    BY IdsInit, InitAType
  <1> QED
    BY <1>1, <1>2, <1>3, PTL DEF AccountsSpec

-----------------------------------------------------------------------------
(* One account for a phone and for an identifier, as the table sees to it:  *)
(* what NoStranger rests on.                                                *)

OneAccount ==
  \A u, v \in users : u.phone = v.phone \/ u.id = v.id => u = v

\* The steps that write the table of users.
LEMMA UsersSteps ==
  ASSUME [AccountsNext]_accountsVars
  PROVE  \/ users' = users
         \/ \E r \in Slots : InsertUser(r) \/ UpdateUser(r) \/ DeleteUser(r)
  <1>1. CASE UNCHANGED accountsVars
    BY <1>1, SMTT(30) DEF accountsVars, dataVars
  <1>2. ASSUME NEW r \in Slots, Begin(r) PROVE users' = users
    BY <1>2 DEF Begin, BeginRefresh, BeginLogin, BeginCreate, BeginUpdate, BeginRemove, dataVars
  <1>3. ASSUME NEW r \in Slots, Handler(r)
        PROVE  users' = users \/ InsertUser(r) \/ UpdateUser(r) \/ DeleteUser(r)
    BY <1>3, HandlerCases DEF DelCode, FindUser, EndDraw, FindById, SetToken, Answer, Abort,
                              End, CheckClash, dataVars
  <1>4. ASSUME Environment PROVE users' = users
    BY <1>4 DEF Environment, SendCode, ExpireCode, ExpireToken, RestartProcess, End, dataVars
  <1> QED
    BY <1>1, <1>2, <1>3, <1>4 DEF AccountsNext

LEMMA StepOneAccount ==
  ASSUME AType, OneAccount, [AccountsNext]_accountsVars
  PROVE  OneAccount'
  <1>0. \A u \in users : u.id \in Nat /\ u.phone \in Phones
    BY DEF AType, AccountsTypeOK
  <1>1. ASSUME NEW r \in Slots, InsertUser(r) PROVE OneAccount'
    <2>1. CASE users' = users
      BY <2>1 DEF OneAccount
    <2>2. CASE ~Taken(r) /\ users' = users \cup
                 {[id |-> req[r].id, phone |-> req[r].phone, no |-> made + 1]}
      BY <2>2 DEF OneAccount, Taken
    <2> QED BY <1>1, <2>1, <2>2 DEF InsertUser
  <1>2. ASSUME NEW r \in Slots, UpdateUser(r) PROVE OneAccount'
    <2>1. CASE users' = users
      BY <2>1 DEF OneAccount
    <2>2. CASE /\ \A u \in users : u.id = req[r].id \/ u.phone # req[r].phone
               /\ users' = {IF u.id = req[r].id THEN [u EXCEPT !.phone = req[r].phone] ELSE u
                              : u \in users}
      <3> SUFFICES ASSUME NEW u \in users', NEW v \in users', u.phone = v.phone \/ u.id = v.id
                   PROVE  u = v
        BY DEF OneAccount
      <3>1. PICK a \in users :
              u = IF a.id = req[r].id THEN [a EXCEPT !.phone = req[r].phone] ELSE a
        BY <2>2
      <3>2. PICK b \in users :
              v = IF b.id = req[r].id THEN [b EXCEPT !.phone = req[r].phone] ELSE b
        BY <2>2
      <3>3. \A w \in users : w \in [id : Nat, phone : Phones, no : 1..made]
        BY DEF AType, AccountsTypeOK
      <3>4. u.id = a.id /\ v.id = b.id
        BY <3>1, <3>2, <3>3
      <3>5. a.id = b.id
        <4>1. CASE a.id = req[r].id /\ b.id # req[r].id
          BY <2>2, <3>1, <3>2, <3>3, <3>4, <4>1
        <4>2. CASE a.id # req[r].id /\ b.id = req[r].id
          BY <2>2, <3>1, <3>2, <3>3, <3>4, <4>2
        <4>3. CASE a.id # req[r].id /\ b.id # req[r].id
          BY <3>1, <3>2, <3>4, <4>3 DEF OneAccount
        <4> QED BY <4>1, <4>2, <4>3
      <3> QED BY <3>1, <3>2, <3>5 DEF OneAccount
    <2> QED BY <1>2, <2>1, <2>2 DEF UpdateUser
  <1>3. ASSUME NEW r \in Slots, DeleteUser(r) PROVE OneAccount'
    BY <1>3 DEF DeleteUser, OneAccount
  <1>4. CASE users' = users
    BY <1>4 DEF OneAccount
  <1> QED
    BY <1>1, <1>2, <1>3, <1>4, UsersSteps

-----------------------------------------------------------------------------
(* Codes.  A login that has read a code either is about to drop it, or the  *)
(* code is gone: a code sent since then has another number.                 *)

CodesInv ==
  /\ \A c, e \in codes : c.no = e.no => c = e
  /\ \A r \in Slots, c \in codes :
       req[r].kind = "login" /\ c.no = req[r].code
         => req[r].pc = "del" /\ c.phone = req[r].phone
  /\ CodeOnce

\* The request y is x gone on, as far as its code matters.
SameCode(x, y) ==
  y.kind = "login" =>
    /\ x.kind = "login" /\ y.code = x.code /\ y.phone = x.phone
    /\ x.pc = "del" => y.pc = "del"

LEMMA QuietCodes ==
  ASSUME CodesInv, codes' \subseteq codes, used' = used,
         \A r \in Slots : SameCode(req[r], req'[r])
  PROVE  CodesInv'
  BY DEF CodesInv, CodeOnce, SameCode

LEMMA GotoCode ==
  ASSUME AType, NEW r \in Slots, NEW x, Goto(r, x), SameCode(req[r], x)
  PROVE  \A q \in Slots : SameCode(req[q], req'[q])
  <1>1. req'[r] = x /\ \A q \in Slots : q # r => req'[q] = req[q]
    BY GotoOthers
  <1> QED BY <1>1 DEF SameCode

LEMMA FinishCode ==
  ASSUME AType, NEW r \in Slots, Finish(r)
  PROVE  \A q \in Slots : SameCode(req[q], req'[q])
  <1>1. SameCode(req[r], IdleReq)
    BY DEF SameCode, IdleReq
  <1> QED BY <1>1, GotoCode DEF Finish

LEMMA StepCodes ==
  ASSUME AType, CodesInv, [AccountsNext]_accountsVars
  PROVE  CodesInv'
  <1> USE DEF AType
  <1>0. /\ sent \in Nat /\ req \in [Slots -> Requests(sent)]
        /\ \A r \in Slots : Asks(req[r], sent)
        /\ \A c \in codes : c.no \in 1..sent
    BY DEF AccountsTypeOK
  <1>1. CASE UNCHANGED accountsVars
    BY <1>1, QuietCodes DEF accountsVars, dataVars, SameCode
  <1>2. ASSUME NEW r \in Slots, Begin(r) PROVE CodesInv'
    <2>1. ASSUME NEW d \in Devices, NEW c \in codes, BeginLogin(r, d, c) PROVE CodesInv'
      <3>1. codes' = codes /\ used' = used
        BY <2>1 DEF BeginLogin, dataVars
      <3> DEFINE x == [IdleReq EXCEPT !.pc = "del", !.kind = "login", !.dev = d,
                                      !.phone = c.phone, !.code = c.no]
      <3>2. req'[r] = x /\ \A q \in Slots : q # r => req'[q] = req[q]
        BY <2>1, GotoOthers DEF BeginLogin
      <3>3. x.pc = "del" /\ x.kind = "login" /\ x.phone = c.phone /\ x.code = c.no
        BY DEF IdleReq
      <3> HIDE DEF x
      <3>4. ASSUME NEW q \in Slots, NEW e \in codes', req'[q].kind = "login", e.no = req'[q].code
            PROVE  req'[q].pc = "del" /\ e.phone = req'[q].phone
        <4>1. CASE q = r
          BY <2>1, <3>1, <3>2, <3>3, <3>4, <4>1 DEF CodesInv
        <4>2. CASE q # r
          BY <3>1, <3>2, <3>4, <4>2 DEF CodesInv
        <4> QED BY <4>1, <4>2
      <3> QED BY <3>1, <3>4 DEF CodesInv, CodeOnce
    <2>2. CASE \/ \E d \in Devices : BeginRefresh(r, d)
               \/ \E q \in Phones : BeginCreate(r, q) \/ \E u \in users : BeginUpdate(r, u, q)
               \/ \E u \in users : BeginRemove(r, u)
      <3>1. codes' = codes /\ used' = used
        BY <2>2 DEF BeginRefresh, BeginCreate, BeginUpdate, BeginRemove, dataVars
      <3>3. \A q \in Slots : SameCode(req[q], req'[q])
        <4>1. ASSUME NEW d \in Devices, BeginRefresh(r, d)
              PROVE  \A q \in Slots : SameCode(req[q], req'[q])
          <5>1. PICK t \in held[d] : Goto(r, [IdleReq EXCEPT !.pc = "findById", !.kind = "refresh",
                                                           !.dev = d, !.token = t])
            BY <4>1 DEF BeginRefresh
          <5> QED BY <5>1, GotoCode DEF SameCode, IdleReq
        <4>2. ASSUME NEW q \in Phones, BeginCreate(r, q)
              PROVE  \A s \in Slots : SameCode(req[s], req'[s])
          <5> DEFINE x == [IdleReq EXCEPT !.kind = "create", !.phone = q]
          <5>1. CASE Goto(r, [x EXCEPT !.pc = "wait"])
            BY <5>1, GotoCode DEF SameCode, IdleReq
          <5>2. CASE Goto(r, [x EXCEPT !.pc = "insert", !.id = LastId(ProcOf[r])])
            BY <5>2, GotoCode DEF SameCode, IdleReq
          <5> QED BY <4>2, <5>1, <5>2 DEF BeginCreate
        <4>3. ASSUME NEW q \in Phones, NEW u \in users, BeginUpdate(r, u, q)
              PROVE  \A s \in Slots : SameCode(req[s], req'[s])
          BY <4>3, GotoCode DEF BeginUpdate, SameCode, IdleReq
        <4>4. ASSUME NEW u \in users, BeginRemove(r, u)
              PROVE  \A q \in Slots : SameCode(req[q], req'[q])
          BY <4>4, GotoCode DEF BeginRemove, SameCode, IdleReq
        <4> QED BY <2>2, <4>1, <4>2, <4>3, <4>4
      <3> QED BY <3>1, <3>3, QuietCodes, SMTT(30)
    <2> QED BY <1>2, <2>1, <2>2 DEF Begin
  <1>3. ASSUME NEW r \in Slots, Handler(r) PROVE CodesInv'
    <2>1. CASE DelCode(r)
      <3>1. codes' = {c \in codes : c.phone # req[r].phone} /\ used' = used
        BY <2>1 DEF DelCode
      <3> DEFINE x == [req[r] EXCEPT !.pc = "find"]
      <3>2. req'[r] = x /\ \A q \in Slots : q # r => req'[q] = req[q]
        BY <2>1, GotoOthers DEF DelCode
      <3>3. x.kind = req[r].kind /\ x.phone = req[r].phone /\ x.code = req[r].code
        BY <1>0 DEF Requests
      <3> HIDE DEF x
      <3>4. ASSUME NEW q \in Slots, NEW e \in codes', req'[q].kind = "login", e.no = req'[q].code
            PROVE  req'[q].pc = "del" /\ e.phone = req'[q].phone
        <4>1. CASE q = r
          BY <1>0, <3>1, <3>2, <3>3, <3>4, <4>1 DEF CodesInv
        <4>2. CASE q # r
          BY <3>1, <3>2, <3>4, <4>2 DEF CodesInv
        <4> QED BY <4>1, <4>2
      <3> QED BY <3>1, <3>4 DEF CodesInv, CodeOnce
    <2>2. CASE SetToken(r)
      <3>1. /\ codes' = codes /\ req[r].pc = "set"
            /\ used' = IF req[r].kind = "login" THEN used \cup {req[r].code} ELSE used
        BY <2>2 DEF SetToken, At
      <3>2. \A q \in Slots : SameCode(req[q], req'[q])
        BY <1>0, <2>2, <3>1 DEF SetToken, Displace, SameCode, Requests
      <3> QED BY <3>1, <3>2 DEF CodesInv, CodeOnce, SameCode
    <2>3. CASE \/ FindUser(r) \/ EndDraw(r) \/ InsertUser(r) \/ FindById(r)
               \/ CheckClash(r) \/ UpdateUser(r) \/ DeleteUser(r) \/ Answer(r)
      <3>1. codes' = codes /\ used' = used
        BY <2>3 DEF FindUser, EndDraw, InsertUser, FindById, CheckClash, UpdateUser,
                    DeleteUser, Answer, dataVars
      <3>3. \A q \in Slots : SameCode(req[q], req'[q])
        <4>0. req[r] \in Requests(sent)
          BY <1>0
        <4>1. ASSUME Goto(r, [req[r] EXCEPT !.pc = "wait"]), req[r].pc # "del"
              PROVE  \A q \in Slots : SameCode(req[q], req'[q])
          BY <4>0, <4>1, GotoCode DEF SameCode, Requests
        <4>2. ASSUME NEW u, req[r].pc # "del", Goto(r, Signed(r, u))
              PROVE  \A q \in Slots : SameCode(req[q], req'[q])
          BY <4>0, <4>2, GotoCode DEF Signed, SameCode, Requests
        <4>3. ASSUME req[r].pc # "del", NEW n, Goto(r, [req[r] EXCEPT !.pc = "insert", !.id = n])
              PROVE  \A q \in Slots : SameCode(req[q], req'[q])
          BY <4>0, <4>3, GotoCode DEF SameCode, Requests
        <4>4. ASSUME req[r].pc # "del", Goto(r, [req[r] EXCEPT !.pc = "update"])
              PROVE  \A q \in Slots : SameCode(req[q], req'[q])
          BY <4>0, <4>4, GotoCode DEF SameCode, Requests
        <4>5. CASE FindUser(r)
          BY <4>1, <4>2, <4>3, <4>5 DEF FindUser, DrawId, At
        <4>6. CASE EndDraw(r)
          BY <4>3, <4>6 DEF EndDraw
        <4>7. CASE InsertUser(r)
          BY <4>2, <4>7, FinishCode DEF InsertUser, At
        <4>8. CASE FindById(r)
          BY <4>2, <4>8, FinishCode DEF FindById, At
        <4>9. CASE CheckClash(r)
          BY <4>4, <4>9, FinishCode DEF CheckClash, At
        <4>10. CASE UpdateUser(r) \/ DeleteUser(r) \/ Answer(r)
          BY <4>10, FinishCode DEF UpdateUser, DeleteUser, Answer
        <4> QED BY <2>3, <4>5, <4>6, <4>7, <4>8, <4>9, <4>10
      <3> QED BY <3>1, <3>3, QuietCodes
    <2>4. CASE Abort(r)
      <3>1. codes' = codes /\ used' = used /\ \A q \in Slots : SameCode(req[q], req'[q])
        BY <2>4 DEF Abort, End, dataVars, SameCode, IdleReq
      <3> QED BY <3>1, QuietCodes
    <2> QED BY <1>3, <2>1, <2>2, <2>3, <2>4, HandlerCases
  <1>4. ASSUME Environment PROVE CodesInv'
    <2>1. ASSUME NEW q, SendCode(q) PROVE CodesInv'
      <3>1. /\ codes' = {c \in codes : c.phone # q} \cup {[phone |-> q, no |-> sent + 1]}
            /\ used' = used /\ req' = req
        BY <2>1 DEF SendCode
      <3>2. used \subseteq 1..sent /\ \A r \in Slots : req[r].kind = "login" => req[r].code \in 1..sent
        BY <1>0 DEF AccountsTypeOK, Asks
      <3> QED BY <1>0, <3>1, <3>2 DEF CodesInv, CodeOnce
    <2>2. ASSUME NEW c \in codes, ExpireCode(c) PROVE CodesInv'
      BY <2>2, QuietCodes DEF ExpireCode, SameCode
    <2>3. ASSUME NEW t \in stored, ExpireToken(t) PROVE CodesInv'
      <3>1. codes' = codes /\ used' = used /\ \A q \in Slots : SameCode(req[q], req'[q])
        BY <1>0, <2>3 DEF ExpireToken, SameCode, Requests
      <3> QED BY <3>1, QuietCodes
    <2>4. ASSUME NEW p \in Procs, RestartProcess(p) PROVE CodesInv'
      <3>1. codes' = codes /\ used' = used /\ \A q \in Slots : SameCode(req[q], req'[q])
        BY <2>4 DEF RestartProcess, End, dataVars, SameCode, IdleReq
      <3> QED BY <3>1, QuietCodes
    <2>5. CASE (Tick \/ StepBack) /\ UNCHANGED <<dataVars, deviceVars, req>>
      BY <2>5, QuietCodes DEF dataVars, SameCode
    <2> QED BY <1>4, <2>1, <2>2, <2>3, <2>4, <2>5 DEF Environment
  <1> QED
    BY <1>1, <1>2, <1>3, <1>4 DEF AccountsNext

\* A code on which a login was granted is gone for good, whatever codes have
\* been sent to the phone since, and however logins with one code overlap.
THEOREM CodeOnceTheorem == AccountsSpec => []CodeOnce
  <1>1. AccountsInit => IInv /\ AType /\ CodesInv
    BY IdsInit, InitAType DEF AccountsInit, CodesInv, CodeOnce
  <1>2. IInv /\ AType /\ CodesInv /\ [AccountsNext]_accountsVars => (IInv /\ AType /\ CodesInv)'
    BY IdsStep, StepAType, StepCodes
  <1>3. CodesInv => CodeOnce
    BY DEF CodesInv
  <1> QED
    BY <1>1, <1>2, <1>3, PTL DEF AccountsSpec

-----------------------------------------------------------------------------
(* A device stays in.  An answer on its way that nothing has overtaken is   *)
(* the stored token.                                                        *)

Undisturbed ==
  \A r \in Slots : req[r].pc = "answer" /\ ~req[r].overtaken => req[r].token \in stored

KeptInv == KeptIn /\ Undisturbed

\* The requests x and y are the same, or neither is about to answer.
SameAnswer(x, y) == y = x \/ (x.pc # "answer" /\ y.pc # "answer")

LEMMA QuietAnswers ==
  ASSUME KeptInv, UNCHANGED <<stored, held, settled>>,
         \A r \in Slots : SameAnswer(req[r], req'[r])
  PROVE  KeptInv'
  <1>1. Undisturbed'
    BY DEF KeptInv, Undisturbed, SameAnswer
  <1>2. \A r \in Slots : \A d : (req'[r].pc = "answer" /\ req'[r].dev = d)
                              <=> (req[r].pc = "answer" /\ req[r].dev = d)
    BY DEF SameAnswer
  <1>3. KeptIn'
    BY <1>2 DEF KeptInv, KeptIn
  <1> QED BY <1>1, <1>3 DEF KeptInv

LEMMA GotoAnswer ==
  ASSUME AType, NEW r \in Slots, NEW x, Goto(r, x), req[r].pc # "answer", x.pc # "answer"
  PROVE  \A q \in Slots : SameAnswer(req[q], req'[q])
  <1>1. req'[r] = x /\ \A q \in Slots : q # r => req'[q] = req[q]
    BY GotoOthers
  <1> QED BY <1>1 DEF SameAnswer

LEMMA FinishAnswer ==
  ASSUME AType, NEW r \in Slots, Finish(r), req[r].pc # "answer"
  PROVE  \A q \in Slots : SameAnswer(req[q], req'[q])
  <1>1. IdleReq.pc # "answer"
    BY DEF IdleReq
  <1> QED BY <1>1, GotoAnswer DEF Finish

\* The requests of a step that grants no token and ends none on its way.
LEMMA BeginAnswers ==
  ASSUME AType, NEW r \in Slots, Begin(r)
  PROVE  /\ \A q \in Slots : SameAnswer(req[q], req'[q])
         /\ UNCHANGED <<stored, held, settled>>
  <1>1. ASSUME NEW d \in Devices, BeginRefresh(r, d)
        PROVE  \A q \in Slots : SameAnswer(req[q], req'[q])
    <2>1. PICK t \in held[d] : Goto(r, [IdleReq EXCEPT !.pc = "findById", !.kind = "refresh",
                                                       !.dev = d, !.token = t])
      BY <1>1 DEF BeginRefresh
    <2> QED BY <1>1, <2>1, GotoAnswer DEF BeginRefresh, Begins, At, IdleReq
  <1>2. ASSUME NEW d \in Devices, NEW c \in codes, BeginLogin(r, d, c)
        PROVE  \A q \in Slots : SameAnswer(req[q], req'[q])
    BY <1>2, GotoAnswer DEF BeginLogin, Begins, At, IdleReq
  <1>3. ASSUME NEW q \in Phones, BeginCreate(r, q)
        PROVE  \A s \in Slots : SameAnswer(req[s], req'[s])
    <2> DEFINE x == [IdleReq EXCEPT !.kind = "create", !.phone = q]
    <2>1. CASE Goto(r, [x EXCEPT !.pc = "wait"])
      BY <1>3, <2>1, GotoAnswer DEF BeginCreate, Begins, At, IdleReq
    <2>2. CASE Goto(r, [x EXCEPT !.pc = "insert", !.id = LastId(ProcOf[r])])
      BY <1>3, <2>2, GotoAnswer DEF BeginCreate, Begins, At, IdleReq
    <2> QED BY <1>3, <2>1, <2>2 DEF BeginCreate
  <1>4. ASSUME NEW q \in Phones, NEW u \in users, BeginUpdate(r, u, q)
        PROVE  \A s \in Slots : SameAnswer(req[s], req'[s])
    BY <1>4, GotoAnswer DEF BeginUpdate, Begins, At, IdleReq
  <1>5. ASSUME NEW u \in users, BeginRemove(r, u)
        PROVE  \A q \in Slots : SameAnswer(req[q], req'[q])
    BY <1>5, GotoAnswer DEF BeginRemove, Begins, At, IdleReq
  <1>6. UNCHANGED <<stored, held, settled>>
    BY DEF Begin, BeginRefresh, BeginLogin, BeginCreate, BeginUpdate, BeginRemove,
           dataVars, deviceVars
  <1> QED
    BY <1>1, <1>2, <1>3, <1>4, <1>5, <1>6 DEF Begin

LEMMA HandlerAnswers ==
  ASSUME AType, NEW r \in Slots,
         \/ DelCode(r) \/ FindUser(r) \/ EndDraw(r) \/ InsertUser(r) \/ FindById(r)
         \/ CheckClash(r) \/ UpdateUser(r) \/ DeleteUser(r)
  PROVE  /\ \A q \in Slots : SameAnswer(req[q], req'[q])
         /\ UNCHANGED <<stored, held, settled>>
  <1>0. req[r] \in Requests(sent)
    BY DEF AType, AccountsTypeOK
  <1>1. ASSUME NEW pc, pc # "answer", req[r].pc # "answer", Goto(r, [req[r] EXCEPT !.pc = pc])
        PROVE  \A q \in Slots : SameAnswer(req[q], req'[q])
    BY <1>0, <1>1, GotoAnswer DEF Requests
  <1>2. ASSUME NEW n, req[r].pc # "answer", Goto(r, [req[r] EXCEPT !.pc = "insert", !.id = n])
        PROVE  \A q \in Slots : SameAnswer(req[q], req'[q])
    BY <1>0, <1>2, GotoAnswer DEF Requests
  <1>3. ASSUME NEW u, req[r].pc # "answer", Goto(r, Signed(r, u))
        PROVE  \A q \in Slots : SameAnswer(req[q], req'[q])
    BY <1>0, <1>3, GotoAnswer DEF Signed, Requests
  <1>4. CASE DelCode(r)
    BY <1>1, <1>4 DEF DelCode, At, deviceVars
  <1>5. CASE FindUser(r)
    BY <1>1, <1>2, <1>3, <1>5 DEF FindUser, DrawId, At, deviceVars
  <1>6. CASE EndDraw(r)
    BY <1>2, <1>6 DEF EndDraw, dataVars, deviceVars
  <1>7. CASE InsertUser(r)
    BY <1>3, <1>7, FinishAnswer DEF InsertUser, At, deviceVars
  <1>8. CASE FindById(r)
    BY <1>3, <1>8, FinishAnswer DEF FindById, At, dataVars, deviceVars
  <1>9. CASE CheckClash(r)
    BY <1>1, <1>9, FinishAnswer DEF CheckClash, At, dataVars, deviceVars
  <1>10. CASE UpdateUser(r) \/ DeleteUser(r)
    BY <1>10, FinishAnswer DEF UpdateUser, DeleteUser, At, deviceVars
  <1> QED
    BY <1>4, <1>5, <1>6, <1>7, <1>8, <1>9, <1>10

LEMMA EndKeepsKept ==
  ASSUME AType, KeptInv, NEW rs, End(rs)
  PROVE  KeptInv'
  <1>0. /\ \A r \in Slots : req'[r] = IF r \in rs THEN IdleReq ELSE req[r]
        /\ \A d \in Devices : settled'[d] =
             (settled[d] /\ \A r \in rs : ~(req[r].pc = "answer" /\ req[r].dev = d))
        /\ stored' = stored /\ held' = held
    BY DEF End, dataVars, AType, AccountsTypeOK
  <1>1. IdleReq.pc # "answer"
    BY DEF IdleReq
  <1>2. Undisturbed'
    BY <1>0, <1>1 DEF KeptInv, Undisturbed
  <1>3. ASSUME NEW d \in Devices, settled'[d],
               \A r \in Slots : ~(req'[r].pc = "answer" /\ req'[r].dev = d)
        PROVE  held[d] # {} /\ held[d] \subseteq stored
    <2>1. \A r \in Slots : ~(req[r].pc = "answer" /\ req[r].dev = d)
      BY <1>0, <1>3
    <2> QED BY <1>0, <1>3, <2>1 DEF KeptInv, KeptIn
  <1> QED BY <1>0, <1>2, <1>3 DEF KeptInv, KeptIn

LEMMA SetTokenKeepsKept ==
  ASSUME AType, KeptInv, NEW r \in Slots, SetToken(r)
  PROVE  KeptInv'
  <1> DEFINE sub == req[r].token.sub
  <1>0. /\ req[r].pc = "set" /\ held' = held
        /\ stored' = {t \in stored : t.sub # sub} \cup {req[r].token}
        /\ req[r].token \in Tokens /\ req[r].dev \in Devices
    BY DEF SetToken, At, AType, Asks
  <1>1. \A q \in Slots : req[q] \in Requests(sent)
    BY DEF AType, AccountsTypeOK
  <1>2. /\ req'[r].pc = "answer" /\ req'[r].dev = req[r].dev /\ req'[r].token = req[r].token
        /\ \A q \in Slots : q # r =>
             /\ req'[q].pc = req[q].pc /\ req'[q].dev = req[q].dev
             /\ req'[q].token = req[q].token
             /\ req[q].pc = "answer" /\ ~req'[q].overtaken
                  => ~req[q].overtaken /\ req[q].token.sub # sub
    BY <1>1 DEF SetToken, Displace, Requests
  <1>3. \A d \in Devices : settled'[d] = (settled[d] /\ (d = req[r].dev \/ \A t \in held[d] : t.sub # sub))
    BY DEF SetToken, Displace
  <1> HIDE DEF sub
  <1>4. Undisturbed'
    <2> SUFFICES ASSUME NEW q \in Slots, req'[q].pc = "answer", ~req'[q].overtaken
                 PROVE  req'[q].token \in stored'
      BY DEF Undisturbed
    <2>1. CASE q = r
      BY <1>0, <1>2, <2>1
    <2>2. CASE q # r
      BY <1>0, <1>2, <2>2 DEF KeptInv, Undisturbed
    <2> QED BY <2>1, <2>2
  <1>5. KeptIn'
    <2> SUFFICES ASSUME NEW d \in Devices, settled'[d],
                        \A q \in Slots : ~(req'[q].pc = "answer" /\ req'[q].dev = d)
                 PROVE  held[d] # {} /\ held[d] \subseteq stored'
      BY <1>0 DEF KeptIn
    <2>1. d # req[r].dev
      BY <1>2
    <2>2. settled[d] /\ \A t \in held[d] : t.sub # sub
      BY <1>3, <2>1
    <2>3. \A q \in Slots : ~(req[q].pc = "answer" /\ req[q].dev = d)
      BY <1>0, <1>2
    <2>4. held[d] # {} /\ held[d] \subseteq stored
      BY <2>2, <2>3 DEF KeptInv, KeptIn
    <2> QED BY <1>0, <2>2, <2>4
  <1> QED BY <1>4, <1>5 DEF KeptInv

LEMMA AnswerKeepsKept ==
  ASSUME AType, KeptInv, NEW r \in Slots, Answer(r)
  PROVE  KeptInv'
  <1>0. /\ req[r].pc = "answer" /\ stored' = stored
        /\ \A d \in Devices : held'[d] = IF d = req[r].dev THEN {req[r].token} ELSE held[d]
        /\ \A d \in Devices : settled'[d] = IF d = req[r].dev THEN ~req[r].overtaken ELSE settled[d]
    BY DEF Answer, At, AType, AccountsTypeOK, dataVars
  <1>1. req'[r] = IdleReq /\ \A q \in Slots : q # r => req'[q] = req[q]
    BY GotoOthers DEF Answer, Finish
  <1>2. IdleReq.pc # "answer"
    BY DEF IdleReq
  <1>3. Undisturbed'
    BY <1>0, <1>1, <1>2 DEF KeptInv, Undisturbed
  <1>4. KeptIn'
    <2> SUFFICES ASSUME NEW d \in Devices, settled'[d],
                        \A q \in Slots : ~(req'[q].pc = "answer" /\ req'[q].dev = d)
                 PROVE  held'[d] # {} /\ held'[d] \subseteq stored'
      BY DEF KeptIn
    <2>1. CASE d = req[r].dev
      <3>1. held'[d] = {req[r].token} /\ ~req[r].overtaken
        BY <1>0, <2>1
      <3>2. req[r].token \in stored
        BY <1>0, <3>1 DEF KeptInv, Undisturbed
      <3> QED BY <1>0, <3>1, <3>2
    <2>2. CASE d # req[r].dev
      <3>1. held'[d] = held[d] /\ settled[d]
        BY <1>0, <2>2
      <3>2. \A q \in Slots : ~(req[q].pc = "answer" /\ req[q].dev = d)
        BY <1>1, <2>2
      <3>3. held[d] # {} /\ held[d] \subseteq stored
        BY <3>1, <3>2 DEF KeptInv, KeptIn
      <3> QED BY <1>0, <3>1, <3>3
    <2> QED BY <2>1, <2>2
  <1> QED BY <1>3, <1>4 DEF KeptInv

LEMMA ExpireTokenKeepsKept ==
  ASSUME AType, KeptInv, NEW t \in stored, ExpireToken(t)
  PROVE  KeptInv'
  <1>0. /\ stored' = stored \ {t} /\ held' = held
        /\ \A d \in Devices : settled'[d] = (settled[d] /\ t \notin held[d])
    BY DEF ExpireToken
  <1>1. \A q \in Slots : req[q] \in Requests(sent)
    BY DEF AType, AccountsTypeOK
  <1>2. \A q \in Slots :
          /\ req'[q].pc = req[q].pc /\ req'[q].dev = req[q].dev /\ req'[q].token = req[q].token
          /\ req[q].pc = "answer" /\ ~req'[q].overtaken => ~req[q].overtaken /\ req[q].token # t
    BY <1>1 DEF ExpireToken, Requests
  <1>3. Undisturbed'
    BY <1>0, <1>2 DEF KeptInv, Undisturbed
  <1>4. KeptIn'
    BY <1>0, <1>2, ZenonT(30) DEF KeptInv, KeptIn
  <1> QED BY <1>3, <1>4 DEF KeptInv

LEMMA StepKept ==
  ASSUME AType, KeptInv, [AccountsNext]_accountsVars
  PROVE  KeptInv'
  <1>1. CASE UNCHANGED accountsVars
    BY <1>1, QuietAnswers DEF accountsVars, dataVars, deviceVars, SameAnswer
  <1>2. ASSUME NEW r \in Slots, Begin(r) PROVE KeptInv'
    BY <1>2, BeginAnswers, QuietAnswers
  <1>3. ASSUME NEW r \in Slots, Handler(r) PROVE KeptInv'
    <2>1. CASE SetToken(r)
      BY <2>1, SetTokenKeepsKept
    <2>2. CASE Answer(r)
      BY <2>2, AnswerKeepsKept
    <2>3. CASE Abort(r)
      BY <2>3, EndKeepsKept DEF Abort
    <2> QED BY <1>3, <2>1, <2>2, <2>3, HandlerCases, HandlerAnswers, QuietAnswers
  <1>4. ASSUME Environment PROVE KeptInv'
    <2>1. ASSUME NEW q, SendCode(q) PROVE KeptInv'
      BY <2>1, QuietAnswers DEF SendCode, deviceVars, SameAnswer
    <2>2. ASSUME NEW c \in codes, ExpireCode(c) PROVE KeptInv'
      BY <2>2, QuietAnswers DEF ExpireCode, deviceVars, SameAnswer
    <2>3. ASSUME NEW p \in Procs, RestartProcess(p) PROVE KeptInv'
      BY <2>3, EndKeepsKept DEF RestartProcess
    <2>4. CASE (Tick \/ StepBack) /\ UNCHANGED <<dataVars, deviceVars, req>>
      BY <2>4, QuietAnswers DEF dataVars, deviceVars, SameAnswer
    <2> QED BY <1>4, <2>1, <2>2, <2>3, <2>4, ExpireTokenKeepsKept DEF Environment
  <1> QED
    BY <1>1, <1>2, <1>3, <1>4 DEF AccountsNext

\* A device whose last answer came before any other grant of its account, and
\* which nobody has displaced since, still has the token the server accepts,
\* whatever requests of its own or of others have failed on the way.
THEOREM KeptInTheorem == AccountsSpec => []KeptIn
  <1>1. AccountsInit => IInv /\ AType /\ KeptInv
    BY IdsInit, InitAType DEF AccountsInit, KeptInv, KeptIn, Undisturbed, IdleReq
  <1>2. IInv /\ AType /\ KeptInv /\ [AccountsNext]_accountsVars => (IInv /\ AType /\ KeptInv)'
    BY IdsStep, StepAType, StepKept
  <1>3. KeptInv => KeptIn
    BY DEF KeptInv
  <1> QED
    BY <1>1, <1>2, <1>3, PTL DEF AccountsSpec

-----------------------------------------------------------------------------
(* Nobody gets into an account he has not logged in to: the token of an     *)
(* account that is gone names no later one, but for one whose identifier    *)
(* had been drawn before.                                                   *)

Drawn == {n \in Nat : \E p \in Procs : \E i \in 1..Len(ids[p]) : ids[p][i] = n}

HasToken(x) == x.pc \in {"findById", "set", "answer"}

Again == {n \in Nat : Repeated(n)}

\* Device d may come in by a token of the account with identifier n, with the
\* identifiers D drawn, A of them again, the rows U and the logins E.
Known(D, A, U, E, d, n) ==
  n \in D /\ (n \in A \/ \A u \in U : u.id = n => <<d, u.no>> \in E)

\* Nothing has the identifier n but a request that is about to insert it.
Fresh(U, H, R, n) ==
  /\ \A u \in U : u.id # n
  /\ \A d \in Devices : \A t \in H[d] : t.sub # n
  /\ \A r \in Slots : HasToken(R[r]) => R[r].token.sub # n

OwnedBy(D, A, U, H, E, R) ==
  /\ \A u \in U : u.id \in D
  /\ \A d \in Devices : \A t \in H[d] : Known(D, A, U, E, d, t.sub)
  /\ \A r \in Slots : HasToken(R[r]) => Known(D, A, U, E, R[r].dev, R[r].token.sub)
  /\ \A r \in Slots : R[r].pc = "insert" => R[r].id \in D
  /\ \A r \in Slots : R[r].pc = "insert" /\ R[r].id \notin A =>
       /\ Fresh(U, H, R, R[r].id)
       /\ \A q \in Slots : R[q].pc = "insert" /\ R[q].id = R[r].id => q = r

Owned == OwnedBy(Drawn, Again, users, held, entered, req)
OwnedNext == OwnedBy(Drawn', Again', users', held', entered', req')

\* The same of the present and of the next state.
KnownNow(d, n) == Known(Drawn, Again, users, entered, d, n)
KnownNext(d, n) == Known(Drawn', Again', users', entered', d, n)
FreshNow(n) == Fresh(users, held, req, n)
FreshNext(n) == Fresh(users', held', req', n)

LEMMA OwnedLater == OwnedNext => Owned'
  BY DEF OwnedNext, Owned, OwnedBy, Known, Fresh, HasToken, Drawn, Again, Repeated

LEMMA NowOwned ==
  Owned <=>
    /\ \A u \in users : u.id \in Drawn
    /\ \A d \in Devices : \A t \in held[d] : KnownNow(d, t.sub)
    /\ \A r \in Slots : HasToken(req[r]) => KnownNow(req[r].dev, req[r].token.sub)
    /\ \A r \in Slots : req[r].pc = "insert" => req[r].id \in Drawn
    /\ \A r \in Slots : req[r].pc = "insert" /\ req[r].id \notin Again =>
         /\ FreshNow(req[r].id)
         /\ \A q \in Slots : req[q].pc = "insert" /\ req[q].id = req[r].id => q = r
  BY DEF Owned, OwnedBy, KnownNow, FreshNow

LEMMA NextOwned ==
  OwnedNext <=>
    /\ \A u \in users' : u.id \in Drawn'
    /\ \A d \in Devices : \A t \in held'[d] : KnownNext(d, t.sub)
    /\ \A r \in Slots : HasToken(req'[r]) => KnownNext(req'[r].dev, req'[r].token.sub)
    /\ \A r \in Slots : req'[r].pc = "insert" => req'[r].id \in Drawn'
    /\ \A r \in Slots : req'[r].pc = "insert" /\ req'[r].id \notin Again' =>
         /\ FreshNext(req'[r].id)
         /\ \A q \in Slots : req'[q].pc = "insert" /\ req'[q].id = req'[r].id => q = r
  BY DEF OwnedNext, OwnedBy, KnownNext, FreshNext

\* What has been drawn stays where it is.
LEMMA IdsStay ==
  ASSUME TypeOK, [Next]_vars, NEW p \in Procs, NEW i \in 1..Len(ids[p])
  PROVE  i \in 1..Len(ids'[p]) /\ ids'[p][i] = ids[p][i]
  <1>0. ids \in [Procs -> Seq(Nat)]
    BY DEF TypeOK
  <1>1. ids' = ids \/ \E q \in Procs : \E n : ids' = [ids EXCEPT ![q] = Append(@, n)]
    BY DEF Next, Tick, StepBack, NextId, EndWait, Restart, Return, vars, generators
  <1>2. CASE ids' = ids
    BY <1>2
  <1>3. ASSUME NEW q \in Procs, NEW n, ids' = [ids EXCEPT ![q] = Append(@, n)]
        PROVE  i \in 1..Len(ids'[p]) /\ ids'[p][i] = ids[p][i]
    <2>1. CASE p # q
      BY <1>0, <1>3, <2>1
    <2>2. CASE p = q
      <3>1. ids[p] \in Seq(Nat) /\ ids'[p] = Append(ids[p], n)
        BY <1>0, <1>3, <2>2
      <3> QED BY <3>1
    <2> QED BY <2>1, <2>2
  <1> QED BY <1>1, <1>2, <1>3

LEMMA DrawnGrows ==
  ASSUME TypeOK, [Next]_vars
  PROVE  Drawn \subseteq Drawn' /\ Again \subseteq Again'
  <1>1. Drawn \subseteq Drawn'
    BY IdsStay DEF Drawn
  <1>2. ASSUME NEW n \in Again PROVE n \in Again'
    <2>1. PICK p \in Procs, q \in Procs :
            \E i \in 1..Len(ids[p]), k \in 1..Len(ids[q]) :
              <<p, i>> # <<q, k>> /\ ids[p][i] = n /\ ids[q][k] = n
      BY <1>2 DEF Again, Repeated
    <2>2. PICK i \in 1..Len(ids[p]), k \in 1..Len(ids[q]) :
            <<p, i>> # <<q, k>> /\ ids[p][i] = n /\ ids[q][k] = n
      BY <2>1
    <2>3. /\ i \in 1..Len(ids'[p]) /\ ids'[p][i] = n
          /\ k \in 1..Len(ids'[q]) /\ ids'[q][k] = n
      BY <2>2, IdsStay
    <2> QED BY <1>2, <2>2, <2>3 DEF Again, Repeated
  <1> QED BY <1>1, <1>2

\* Nothing is drawn, or drawn again, where the identifiers stay.
LEMMA DrawnStays ==
  ASSUME ids' = ids
  PROVE  Drawn' = Drawn /\ Again' = Again
  BY DEF Drawn, Again, Repeated

\* The identifier a process returns has not been drawn before, or is drawn
\* again now.
LEMMA NewId ==
  ASSUME TypeOK, TypeOK', NEW p \in Procs, NEW n,
         ids' = [ids EXCEPT ![p] = Append(@, n)]
  PROVE  LastId(p) \in Drawn' /\ (LastId(p) \notin Drawn \/ LastId(p) \in Again')
  <1>0. ids \in [Procs -> Seq(Nat)] /\ ids' \in [Procs -> Seq(Nat)]
    BY DEF TypeOK
  <1>1. LastId(p) = n /\ n \in Nat
    BY <1>0, LastIdNat
  <1>2. /\ ids'[p] = Append(ids[p], n) /\ ids[p] \in Seq(Nat) /\ ids'[p] \in Seq(Nat)
        /\ \A q \in Procs : q # p => ids'[q] = ids[q]
    BY <1>0
  <1>3. /\ Len(ids'[p]) = Len(ids[p]) + 1 /\ Len(ids[p]) \in Nat
        /\ ids'[p][Len(ids[p]) + 1] = n
        /\ \A i \in 1..Len(ids[p]) : ids'[p][i] = ids[p][i]
    BY <1>2
  <1> DEFINE k == Len(ids[p]) + 1
  <1>4. k \in 1..Len(ids'[p]) /\ ids'[p][k] = n
    BY <1>3
  <1>5. n \in Drawn'
    BY <1>1, <1>4 DEF Drawn
  <1>6. ASSUME NEW q \in Procs, NEW i \in 1..Len(ids[q]), ids[q][i] = n
        PROVE  n \in Again'
    <2>1. i \in 1..Len(ids'[q]) /\ ids'[q][i] = n /\ <<q, i>> # <<p, k>>
      <3>1. CASE q = p
        BY <1>3, <1>6, <3>1
      <3>2. CASE q # p
        BY <1>2, <1>6, <3>2
      <3> QED BY <3>1, <3>2
    <2> HIDE DEF k
    <2> QED BY <1>1, <1>4, <2>1 DEF Again, Repeated
  <1> QED BY <1>1, <1>5, <1>6 DEF Drawn

\* The request y has no token and no identifier that x does not have.
SameHolder(x, y) ==
  /\ HasToken(y) => HasToken(x) /\ y.dev = x.dev /\ y.token.sub = x.token.sub
  /\ y.pc = "insert" => x.pc = "insert" /\ y.id = x.id

LEMMA QuietOwners ==
  ASSUME Owned, Drawn \subseteq Drawn', Again \subseteq Again', held' = held, entered \subseteq entered',
         \A u \in users' : \E v \in users : v.id = u.id /\ v.no = u.no,
         \A r \in Slots : SameHolder(req[r], req'[r])
  PROVE  OwnedNext
  <1>1. \A d, n : KnownNow(d, n) => KnownNext(d, n)
    BY DEF Known, KnownNow, KnownNext
  <1>2. \A u \in users' : u.id \in Drawn'
    BY NowOwned
  <1>3. \A d \in Devices : \A t \in held'[d] : KnownNext(d, t.sub)
    BY <1>1, NowOwned
  <1>4. \A r \in Slots : HasToken(req'[r]) => KnownNext(req'[r].dev, req'[r].token.sub)
    BY <1>1, NowOwned DEF SameHolder
  <1>5. \A n : FreshNow(n) => FreshNext(n)
    BY DEF Fresh, FreshNow, FreshNext, SameHolder
  <1>6. \A r \in Slots : req'[r].pc = "insert" /\ req'[r].id \notin Again' =>
          FreshNext(req'[r].id) /\ \A q \in Slots : req'[q].pc = "insert" /\ req'[q].id = req'[r].id => q = r
    BY <1>5, NowOwned DEF SameHolder
  <1>7. \A r \in Slots : req'[r].pc = "insert" => req'[r].id \in Drawn'
    BY NowOwned DEF SameHolder
  <1> QED BY <1>2, <1>3, <1>4, <1>6, <1>7, NextOwned

LEMMA GotoHolder ==
  ASSUME AType, NEW r \in Slots, NEW x, Goto(r, x), SameHolder(req[r], x)
  PROVE  \A q \in Slots : SameHolder(req[q], req'[q])
  <1>1. req'[r] = x /\ \A q \in Slots : q # r => req'[q] = req[q]
    BY GotoOthers
  <1> QED BY <1>1 DEF SameHolder

LEMMA FinishHolder ==
  ASSUME AType, NEW r \in Slots, Finish(r)
  PROVE  \A q \in Slots : SameHolder(req[q], req'[q])
  <1>1. SameHolder(req[r], IdleReq)
    BY DEF SameHolder, IdleReq, HasToken
  <1> QED BY <1>1, GotoHolder DEF Finish

\* A request that comes to have a new identifier.
LEMMA DrawOwners ==
  ASSUME AType, Owned, Drawn \subseteq Drawn', Again \subseteq Again', NEW n, n \in Drawn',
         n \notin Drawn \/ n \in Again',
         UNCHANGED <<users, held, entered>>,
         NEW r \in Slots, NEW x, Goto(r, x), x.pc = "insert", x.id = n
  PROVE  OwnedNext
  <1>0. req'[r] = x /\ \A q \in Slots : q # r => req'[q] = req[q]
    BY GotoOthers
  <1>1. ~HasToken(x)
    BY DEF HasToken
  <1>2. \A d, m : KnownNow(d, m) => KnownNext(d, m)
    BY DEF Known, KnownNow, KnownNext
  <1>3. \A m : FreshNow(m) => FreshNext(m)
    BY <1>0, <1>1 DEF Fresh, FreshNow, FreshNext
  <1>4. n \notin Again' => FreshNext(n)
    BY <1>0, <1>1, NowOwned DEF Fresh, FreshNow, FreshNext, Known, KnownNow, KnownNext
  <1>5. n \notin Again' => \A q \in Slots : q # r /\ req[q].pc = "insert" => req[q].id # n
    BY NowOwned
  <1>9. \A s \in Slots : req'[s].pc = "insert" => req'[s].id \in Drawn'
    BY <1>0, NowOwned
  <1>6. \A s \in Slots : req'[s].pc = "insert" /\ req'[s].id \notin Again' =>
          FreshNext(req'[s].id) /\ \A q \in Slots : req'[q].pc = "insert" /\ req'[q].id = req'[s].id => q = s
    <2> SUFFICES ASSUME NEW s \in Slots, req'[s].pc = "insert", req'[s].id \notin Again'
                 PROVE  /\ FreshNext(req'[s].id)
                        /\ \A q \in Slots : req'[q].pc = "insert" /\ req'[q].id = req'[s].id => q = s
      OBVIOUS
    <2>1. CASE s = r
      BY <1>0, <1>4, <1>5, <2>1
    <2>2. CASE s # r
      BY <1>0, <1>3, <1>5, <2>2, NowOwned
    <2> QED BY <2>1, <2>2
  <1>7. \A s \in Slots : HasToken(req'[s]) => KnownNext(req'[s].dev, req'[s].token.sub)
    BY <1>0, <1>1, <1>2, NowOwned
  <1>8. /\ \A u \in users' : u.id \in Drawn'
        /\ \A d \in Devices : \A t \in held'[d] : KnownNext(d, t.sub)
    BY <1>2, NowOwned
  <1> QED BY <1>6, <1>7, <1>8, <1>9, NextOwned

\* A request that comes to have a token of a device that may come in by it.
LEMMA GiveOwners ==
  ASSUME AType, Owned, UNCHANGED <<ids, users, held>>, entered \subseteq entered',
         NEW r \in Slots, NEW x, Goto(r, x), HasToken(x), KnownNext(x.dev, x.token.sub),
         \A q \in Slots : req[q].pc = "insert" /\ req[q].id \notin Again => req[q].id # x.token.sub
  PROVE  OwnedNext
  <1>0. req'[r] = x /\ \A q \in Slots : q # r => req'[q] = req[q]
    BY GotoOthers
  <1>1. x.pc # "insert" /\ Drawn' = Drawn /\ Again' = Again
    BY DrawnStays DEF HasToken
  <1>2. \A d, m : KnownNow(d, m) => KnownNext(d, m)
    BY <1>1 DEF Known, KnownNow, KnownNext
  <1>3. \A q \in Slots : req[q].pc = "insert" /\ req[q].id \notin Again => FreshNext(req[q].id)
    BY <1>0, <1>1, NowOwned DEF Fresh, FreshNow, FreshNext
  <1>4. \A s \in Slots : req'[s].pc = "insert" /\ req'[s].id \notin Again' =>
          FreshNext(req'[s].id) /\ \A q \in Slots : req'[q].pc = "insert" /\ req'[q].id = req'[s].id => q = s
    BY <1>0, <1>1, <1>3, NowOwned
  <1>7. \A s \in Slots : req'[s].pc = "insert" => req'[s].id \in Drawn'
    BY <1>0, <1>1, NowOwned
  <1>5. \A s \in Slots : HasToken(req'[s]) => KnownNext(req'[s].dev, req'[s].token.sub)
    BY <1>0, <1>2, NowOwned
  <1>6. /\ \A u \in users' : u.id \in Drawn'
        /\ \A d \in Devices : \A t \in held'[d] : KnownNext(d, t.sub)
    BY <1>1, <1>2, NowOwned
  <1> QED BY <1>4, <1>5, <1>6, <1>7, NextOwned

LEMMA InsertOwners ==
  ASSUME AType, Owned, NEW r \in Slots, InsertUser(r)
  PROVE  OwnedNext
  <1> DEFINE n == req[r].id
             u == [id |-> n, phone |-> req[r].phone, no |-> made + 1]
  <1>0. /\ req[r].pc = "insert" /\ held' = held /\ ids' = ids /\ req[r] \in Requests(sent)
        /\ \A v \in users : v.no \in 1..made /\ made \in Nat
    BY DEF InsertUser, At, deviceVars, vars, generators, AType, AccountsTypeOK
  <1>1. Drawn' = Drawn /\ Again' = Again
    BY <1>0, DrawnStays
  <1>2. CASE Finish(r) /\ UNCHANGED <<users, made, entered>>
    BY <1>0, <1>1, <1>2, QuietOwners, FinishHolder
  <1>3. CASE users' = users \cup {u} /\ entered \subseteq entered'
             /\ \/ Finish(r)
                \/ /\ Goto(r, Signed(r, u))
                   /\ <<req[r].dev, u.no>> \in entered'
    <2>1. /\ n \in Drawn
          /\ n \notin Again =>
               FreshNow(n) /\ \A q \in Slots : req[q].pc = "insert" /\ req[q].id = n => q = r
      BY <1>0, NowOwned
    <2>2. \A v \in users' : v \in users \/ (v = u /\ v.id = n)
      BY <1>3
    <2>3. PICK x : Goto(r, x) /\ x.pc # "insert" /\
                   (HasToken(x) => /\ x.token.sub = n /\ x.dev = req[r].dev
                                   /\ <<req[r].dev, u.no>> \in entered')
      <3>1. CASE Finish(r)
        BY <3>1 DEF Finish, IdleReq, HasToken
      <3>2. CASE Goto(r, Signed(r, u)) /\ <<req[r].dev, u.no>> \in entered'
        <4>1. Signed(r, u).pc = "set" /\ Signed(r, u).token.sub = n /\ Signed(r, u).dev = req[r].dev
          BY <1>0 DEF Signed, Requests
        <4> QED BY <3>2, <4>1
      <3> QED BY <1>3, <3>1, <3>2
    <2>4. req'[r] = x /\ \A q \in Slots : q # r => req'[q] = req[q]
      BY <2>3, GotoOthers
    <2> HIDE DEF u
    <2>5. \A d, m : m # n /\ KnownNow(d, m) => KnownNext(d, m)
      BY <1>1, <1>3, <2>2 DEF Known, KnownNow, KnownNext
    <2>6. HasToken(x) => KnownNext(x.dev, x.token.sub)
      BY <1>1, <2>1, <2>2, <2>3 DEF Known, KnownNow, KnownNext, Fresh, FreshNow, FreshNext
    <2>a. n \in Again => \A d : KnownNext(d, n)
      BY <1>1, <2>1 DEF Known, KnownNext
    <2>7. \A s \in Slots : HasToken(req'[s]) => KnownNext(req'[s].dev, req'[s].token.sub)
      <3> SUFFICES ASSUME NEW s \in Slots, HasToken(req'[s])
                   PROVE  KnownNext(req'[s].dev, req'[s].token.sub)
        OBVIOUS
      <3>1. CASE s = r
        BY <2>4, <2>6, <3>1
      <3>2. CASE s # r
        <4>1. HasToken(req[s]) /\ KnownNow(req[s].dev, req[s].token.sub) /\ req'[s] = req[s]
          BY <2>4, <3>2, NowOwned
        <4>2. n \notin Again => req[s].token.sub # n
          BY <2>1, <4>1 DEF Fresh, FreshNow
        <4> QED BY <2>5, <2>a, <4>1, <4>2
      <3> QED BY <3>1, <3>2
    <2>8. /\ \A v \in users' : v.id \in Drawn'
          /\ \A d \in Devices : \A t \in held'[d] : KnownNext(d, t.sub)
      <3>1. \A v \in users' : v.id \in Drawn'
        BY <1>1, <2>1, <2>2, NowOwned
      <3>2. ASSUME NEW d \in Devices, NEW t \in held'[d] PROVE KnownNext(d, t.sub)
        <4>1. t \in held[d] /\ KnownNow(d, t.sub)
          BY <1>0, <3>2, NowOwned
        <4>2. n \notin Again => t.sub # n
          BY <2>1, <4>1 DEF Fresh, FreshNow
        <4> QED BY <2>5, <2>a, <4>1, <4>2
      <3> QED BY <3>1, <3>2
    <2>b. \A s \in Slots : req'[s].pc = "insert" => req'[s].id \in Drawn'
      BY <1>1, <2>3, <2>4, NowOwned
    <2>9. \A s \in Slots : req'[s].pc = "insert" /\ req'[s].id \notin Again' =>
            /\ FreshNext(req'[s].id)
            /\ \A q \in Slots : req'[q].pc = "insert" /\ req'[q].id = req'[s].id => q = s
      <3> SUFFICES ASSUME NEW s \in Slots, req'[s].pc = "insert", req'[s].id \notin Again'
                   PROVE  /\ FreshNext(req'[s].id)
                          /\ \A q \in Slots : req'[q].pc = "insert" /\ req'[q].id = req'[s].id => q = s
        OBVIOUS
      <3>0. s # r /\ req'[s] = req[s] /\ req[s].id \notin Again
        BY <1>1, <2>3, <2>4
      <3>1. s # r /\ req'[s] = req[s] /\ req[s].id # n /\ FreshNow(req[s].id)
        BY <1>0, <3>0, NowOwned
      <3>2. FreshNext(req'[s].id)
        <4>1. \A v \in users' : v.id # req[s].id
          BY <2>2, <3>1 DEF Fresh, FreshNow, FreshNext
        <4>2. \A q \in Slots : HasToken(req'[q]) => req'[q].token.sub # req[s].id
          BY <2>3, <2>4, <3>1 DEF Fresh, FreshNow, FreshNext
        <4> QED BY <1>0, <1>1, <3>1, <4>1, <4>2 DEF Fresh, FreshNow, FreshNext
      <3>3. \A q \in Slots : req'[q].pc = "insert" /\ req'[q].id = req'[s].id => q = s
        BY <2>3, <2>4, <3>0, <3>1, NowOwned
      <3> QED BY <3>2, <3>3
    <2> QED BY <2>7, <2>8, <2>9, <2>b, NextOwned
  <1> QED BY <1>2, <1>3 DEF InsertUser

LEMMA AnswerOwners ==
  ASSUME AType, Owned, NEW r \in Slots, Answer(r)
  PROVE  OwnedNext
  <1>0. /\ req[r].pc = "answer" /\ HasToken(req[r]) /\ UNCHANGED <<ids, users, entered>>
        /\ \A d \in Devices : held'[d] = IF d = req[r].dev THEN {req[r].token} ELSE held[d]
    BY DEF Answer, At, HasToken, AType, AccountsTypeOK, dataVars, vars, generators
  <1>1. req'[r] = IdleReq /\ \A q \in Slots : q # r => req'[q] = req[q]
    BY GotoOthers DEF Answer, Finish
  <1>2. ~HasToken(IdleReq) /\ IdleReq.pc # "insert"
    BY DEF IdleReq, HasToken
  <1>3. Drawn' = Drawn /\ Again' = Again
    BY <1>0, DrawnStays
  <1>4. \A d, m : KnownNow(d, m) => KnownNext(d, m)
    BY <1>0, <1>3 DEF Known, KnownNow, KnownNext
  <1>5. \A d \in Devices : \A t \in held'[d] : KnownNext(d, t.sub)
    BY <1>0, <1>4, NowOwned
  <1>6. \A s \in Slots : HasToken(req'[s]) => KnownNext(req'[s].dev, req'[s].token.sub)
    BY <1>1, <1>2, <1>4, NowOwned
  <1>7. \A m : FreshNow(m) => FreshNext(m)
    BY <1>0, <1>1, <1>2, <1>3 DEF Fresh, FreshNow, FreshNext
  <1>8. \A s \in Slots : req'[s].pc = "insert" /\ req'[s].id \notin Again' =>
          FreshNext(req'[s].id) /\ \A q \in Slots : req'[q].pc = "insert" /\ req'[q].id = req'[s].id => q = s
    BY <1>1, <1>2, <1>3, <1>7, NowOwned
  <1>a. \A s \in Slots : req'[s].pc = "insert" => req'[s].id \in Drawn'
    BY <1>1, <1>2, <1>3, NowOwned
  <1>9. \A u \in users' : u.id \in Drawn'
    BY <1>0, <1>3, NowOwned
  <1> QED BY <1>5, <1>6, <1>8, <1>9, <1>a, NextOwned

\* One more identifier.
LEMMA DrawsOne ==
  ASSUME NEW p \in Procs, waits \in [Procs -> BOOLEAN],
         (NextId(p) /\ ~waits'[p]) \/ EndWait(p)
  PROVE  \E n : ids' = [ids EXCEPT ![p] = Append(@, n)]
  <1>1. CASE NextId(p) /\ ~waits'[p]
    <2>1. \/ \E s : Return(p, clock, s)
          \/ waits' = [waits EXCEPT ![p] = TRUE]
      BY <1>1 DEF NextId
    <2>2. ~(waits' = [waits EXCEPT ![p] = TRUE])
      BY <1>1
    <2> QED BY <2>1, <2>2 DEF Return
  <1>2. CASE EndWait(p)
    BY <1>2 DEF EndWait, Return
  <1> QED BY <1>1, <1>2

LEMMA DrawOrWait ==
  ASSUME TypeOK', AType, Owned, Drawn \subseteq Drawn', Again \subseteq Again',
         UNCHANGED <<users, held, entered>>, NEW r \in Slots, NEW x, NEW y,
         \/ EndWait(ProcOf[r]) /\ Goto(r, x)
         \/ NextId(ProcOf[r]) /\ \/ waits'[ProcOf[r]] /\ Goto(r, y)
                                 \/ ~waits'[ProcOf[r]] /\ Goto(r, x),
         x.pc = "insert", x.id = LastId(ProcOf[r]), y.pc = "wait"
  PROVE  OwnedNext
  <1>0. ProcOf[r] \in Procs
    BY SlotsAssumption
  <1>1. CASE Goto(r, y)
    <2>1. SameHolder(req[r], y)
      BY DEF SameHolder, HasToken
    <2> QED BY <1>1, <2>1, GotoHolder, QuietOwners
  <1>2. CASE Goto(r, x) /\ (EndWait(ProcOf[r]) \/ (NextId(ProcOf[r]) /\ ~waits'[ProcOf[r]]))
    <2>1. \E n : ids' = [ids EXCEPT ![ProcOf[r]] = Append(@, n)]
      BY <1>0, <1>2, DrawsOne DEF AType, TypeOK
    <2>2. /\ LastId(ProcOf[r]) \in Drawn'
          /\ LastId(ProcOf[r]) \notin Drawn \/ LastId(ProcOf[r]) \in Again'
      BY <1>0, <2>1, NewId DEF AType
    <2> QED BY <1>2, <2>2, DrawOwners
  <1> QED BY <1>1, <1>2

LEMMA FindOwners ==
  ASSUME TypeOK', AType, OneAccount, Owned, Drawn \subseteq Drawn', Again \subseteq Again',
         NEW r \in Slots, FindUser(r)
  PROVE  OwnedNext
  <1>0. UNCHANGED <<users, held>> /\ req[r] \in Requests(sent)
    BY DEF FindUser, deviceVars, AType, AccountsTypeOK
  <1>1. CASE DrawId(r) /\ UNCHANGED entered
    <2> DEFINE x == [req[r] EXCEPT !.pc = "insert", !.id = LastId(ProcOf[r])]
               y == [req[r] EXCEPT !.pc = "wait"]
    <2>1. x.pc = "insert" /\ x.id = LastId(ProcOf[r]) /\ y.pc = "wait"
      BY <1>0 DEF Requests
    <2>2. NextId(ProcOf[r]) /\ \/ waits'[ProcOf[r]] /\ Goto(r, y)
                               \/ ~waits'[ProcOf[r]] /\ Goto(r, x)
      BY <1>1 DEF DrawId
    <2> HIDE DEF x, y
    <2> QED BY <1>0, <1>1, <2>1, <2>2, DrawOrWait
  <1>2. ASSUME NEW u \in users, Goto(r, Signed(r, u)),
               entered' = entered \cup {<<req[r].dev, u.no>>}, UNCHANGED vars
        PROVE  OwnedNext
    <2> DEFINE x == Signed(r, u)
    <2>1. HasToken(x) /\ x.dev = req[r].dev /\ x.token.sub = u.id
      BY <1>0 DEF Signed, Requests, HasToken
    <2> HIDE DEF x
    <2>2. /\ u.id \in Drawn
          /\ \A q \in Slots : req[q].pc = "insert" /\ req[q].id \notin Again => req[q].id # u.id
      BY NowOwned DEF FreshNow, Fresh
    <2>3. ids' = ids /\ Drawn' = Drawn
      BY <1>2, DrawnStays DEF vars, generators
    <2>4. KnownNext(x.dev, x.token.sub)
      BY <1>0, <1>2, <2>1, <2>2, <2>3 DEF KnownNext, Known, OneAccount
    <2>5. Goto(r, x)
      BY <1>2 DEF x
    <2> QED BY <1>0, <1>2, <2>1, <2>2, <2>3, <2>4, <2>5, GiveOwners
  <1> QED BY <1>1, <1>2 DEF FindUser, WithPhone

LEMMA EndDrawOwners ==
  ASSUME TypeOK', AType, Owned, Drawn \subseteq Drawn', Again \subseteq Again',
         NEW r \in Slots, EndDraw(r)
  PROVE  OwnedNext
  <1> DEFINE x == [req[r] EXCEPT !.pc = "insert", !.id = LastId(ProcOf[r])]
             y == [req[r] EXCEPT !.pc = "wait"]
  <1>1. x.pc = "insert" /\ x.id = LastId(ProcOf[r]) /\ y.pc = "wait"
    BY DEF AType, AccountsTypeOK, Requests
  <1>2. EndWait(ProcOf[r]) /\ Goto(r, x) /\ UNCHANGED <<users, held, entered>>
    BY DEF EndDraw, dataVars, deviceVars
  <1> HIDE DEF x, y
  <1> QED BY <1>1, <1>2, DrawOrWait

LEMMA BeginOwners ==
  ASSUME TypeOK', AType, Owned, Drawn \subseteq Drawn', Again \subseteq Again',
         NEW r \in Slots, Begin(r)
  PROVE  OwnedNext
  <1>1. ASSUME NEW d \in Devices, BeginRefresh(r, d)
        PROVE  OwnedNext
    <2>1. PICK t \in held[d] : Goto(r, [IdleReq EXCEPT !.pc = "findById", !.kind = "refresh",
                                                       !.dev = d, !.token = t])
      BY <1>1 DEF BeginRefresh
    <2> DEFINE x == [IdleReq EXCEPT !.pc = "findById", !.kind = "refresh", !.dev = d, !.token = t]
    <2>2. HasToken(x) /\ x.dev = d /\ x.token = t
      BY DEF HasToken, IdleReq
    <2> HIDE DEF x
    <2>3. UNCHANGED <<ids, users, held, entered>> /\ Drawn' = Drawn /\ Again' = Again
      BY <1>1, DrawnStays DEF BeginRefresh, vars, generators, dataVars, deviceVars
    <2>4. KnownNext(x.dev, x.token.sub)
      BY <2>2, <2>3, NowOwned DEF KnownNow, KnownNext
    <2>5. \A q \in Slots : req[q].pc = "insert" /\ req[q].id \notin Again => req[q].id # x.token.sub
      BY <2>2, NowOwned DEF FreshNow, Fresh
    <2>6. Goto(r, x)
      BY <2>1 DEF x
    <2> QED BY <2>2, <2>3, <2>4, <2>5, <2>6, GiveOwners
  <1>2. ASSUME NEW x, Goto(r, x), x.pc \in {"del", "update", "clash", "delete"},
               UNCHANGED <<dataVars, deviceVars>>
        PROVE  OwnedNext
    <2>1. SameHolder(req[r], x) /\ UNCHANGED <<users, held, entered>>
      BY <1>2 DEF SameHolder, HasToken, dataVars, deviceVars
    <2> QED BY <1>2, <2>1, GotoHolder, QuietOwners
  <1>3. ASSUME NEW d \in Devices, NEW c \in codes, BeginLogin(r, d, c)
        PROVE  OwnedNext
    BY <1>2, <1>3 DEF BeginLogin, IdleReq
  <1>4. ASSUME NEW q \in Phones, BeginCreate(r, q)
        PROVE  OwnedNext
    <2> DEFINE new == [IdleReq EXCEPT !.kind = "create", !.phone = q]
               x == [new EXCEPT !.pc = "insert", !.id = LastId(ProcOf[r])]
               y == [new EXCEPT !.pc = "wait"]
    <2>1. x.pc = "insert" /\ x.id = LastId(ProcOf[r]) /\ y.pc = "wait"
      BY DEF IdleReq
    <2>2. /\ UNCHANGED <<users, held, entered>>
          /\ NextId(ProcOf[r]) /\ \/ waits'[ProcOf[r]] /\ Goto(r, y)
                                  \/ ~waits'[ProcOf[r]] /\ Goto(r, x)
      BY <1>4 DEF BeginCreate, dataVars, deviceVars
    <2> HIDE DEF x, y
    <2> QED BY <2>1, <2>2, DrawOrWait
  <1>5. ASSUME NEW q \in Phones, NEW u \in users, BeginUpdate(r, u, q)
        PROVE  OwnedNext
    BY <1>2, <1>5 DEF BeginUpdate, IdleReq
  <1>6. ASSUME NEW u \in users, BeginRemove(r, u)
        PROVE  OwnedNext
    BY <1>2, <1>6 DEF BeginRemove, IdleReq
  <1> QED BY <1>1, <1>3, <1>4, <1>5, <1>6 DEF Begin

\* The handlers that neither draw, insert, answer nor end.
LEMMA HandlerOwners ==
  ASSUME AType, Owned, Drawn \subseteq Drawn', Again \subseteq Again', NEW r \in Slots,
         \/ DelCode(r) \/ FindById(r) \/ SetToken(r)
         \/ CheckClash(r) \/ UpdateUser(r) \/ DeleteUser(r)
  PROVE  OwnedNext
  <1>0. /\ \A q \in Slots : req[q] \in Requests(sent)
        /\ users \subseteq [id : Nat, phone : Phones, no : 1..made]
    BY DEF AType, AccountsTypeOK
  <1>1. ASSUME NEW pc \in {"find", "update"}, Goto(r, [req[r] EXCEPT !.pc = pc])
        PROVE  \A q \in Slots : SameHolder(req[q], req'[q])
    <2>1. [req[r] EXCEPT !.pc = pc].pc = pc
      BY <1>0 DEF Requests
    <2>2. SameHolder(req[r], [req[r] EXCEPT !.pc = pc])
      BY <2>1 DEF SameHolder, HasToken
    <2> QED BY <1>1, <2>2, GotoHolder
  <1>2. CASE DelCode(r)
    BY <1>1, <1>2, QuietOwners DEF DelCode, deviceVars
  <1>3. CASE FindById(r)
    <2>1. UNCHANGED <<users, held, entered>> /\ HasToken(req[r])
      BY <1>3 DEF FindById, At, HasToken, dataVars, deviceVars
    <2>2. ASSUME NEW u \in users, u.id = req[r].token.sub, Goto(r, Signed(r, u))
          PROVE  \A q \in Slots : SameHolder(req[q], req'[q])
      <3>1. SameHolder(req[r], Signed(r, u))
        BY <1>0, <2>1, <2>2 DEF SameHolder, Signed, Requests
      <3> QED BY <2>2, <3>1, GotoHolder
    <2>3. \A q \in Slots : SameHolder(req[q], req'[q])
      BY <1>3, <2>2, FinishHolder DEF FindById
    <2> QED BY <2>1, <2>3, QuietOwners
  <1>4. CASE SetToken(r)
    <2>1. UNCHANGED <<users, held, entered>> /\ req[r].pc = "set"
      BY <1>4 DEF SetToken, At
    <2>2. ASSUME NEW q \in Slots
          PROVE  SameHolder(req[q], req'[q])
      <3>1. \/ q = r /\ req'[q] = [req[q] EXCEPT !.pc = "answer"]
            \/ req'[q] = [req[q] EXCEPT !.overtaken = TRUE]
            \/ req'[q] = req[q]
        BY <1>4 DEF SetToken, Displace
      <3> QED BY <1>0, <2>1, <3>1 DEF SameHolder, HasToken, Requests
    <2> QED BY <2>1, <2>2, QuietOwners
  <1>5. CASE CheckClash(r)
    <2>1. \A q \in Slots : SameHolder(req[q], req'[q])
      BY <1>1, <1>5, FinishHolder DEF CheckClash
    <2> QED BY <1>5, <2>1, QuietOwners DEF CheckClash, dataVars, deviceVars
  <1>6. CASE UpdateUser(r)
    <2>1. \A q \in Slots : SameHolder(req[q], req'[q])
      BY <1>6, FinishHolder DEF UpdateUser
    <2>2. ASSUME NEW u \in users'
          PROVE  \E v \in users : v.id = u.id /\ v.no = u.no
      <3>1. \/ u \in users
            \/ \E v \in users : u = v \/ u = [v EXCEPT !.phone = req[r].phone]
        BY <1>6 DEF UpdateUser
      <3> QED BY <1>0, <3>1
    <2> QED BY <1>6, <2>1, <2>2, QuietOwners DEF UpdateUser, deviceVars
  <1>7. CASE DeleteUser(r)
    <2>1. \A q \in Slots : SameHolder(req[q], req'[q])
      BY <1>7, FinishHolder DEF DeleteUser
    <2> QED BY <1>7, <2>1, QuietOwners DEF DeleteUser, deviceVars
  <1> QED BY <1>2, <1>3, <1>4, <1>5, <1>6, <1>7

LEMMA EndOwners ==
  ASSUME AType, Owned, Drawn \subseteq Drawn', Again \subseteq Again', NEW rs, End(rs)
  PROVE  OwnedNext
  <1>1. \A r \in Slots : req'[r] = IdleReq \/ req'[r] = req[r]
    BY DEF End
  <1>2. \A r \in Slots : SameHolder(req[r], req'[r])
    BY <1>1 DEF SameHolder, HasToken, IdleReq
  <1> QED BY <1>2, QuietOwners DEF End, dataVars

LEMMA EnvironmentOwners ==
  ASSUME AType, Owned, Drawn \subseteq Drawn', Again \subseteq Again', Environment
  PROVE  OwnedNext
  <1>1. ASSUME UNCHANGED <<users, held, entered, req>>
        PROVE  OwnedNext
    BY <1>1, QuietOwners DEF SameHolder
  <1>2. ASSUME NEW q, SendCode(q) PROVE OwnedNext
    BY <1>1, <1>2 DEF SendCode, deviceVars
  <1>3. ASSUME NEW c, ExpireCode(c) PROVE OwnedNext
    BY <1>1, <1>3 DEF ExpireCode, deviceVars
  <1>4. ASSUME NEW t, ExpireToken(t) PROVE OwnedNext
    <2>1. \A q \in Slots : req'[q] = req[q] \/ req'[q] = [req[q] EXCEPT !.overtaken = TRUE]
      BY <1>4 DEF ExpireToken
    <2>2. \A q \in Slots : req[q] \in Requests(sent)
      BY DEF AType, AccountsTypeOK
    <2>3. \A q \in Slots : SameHolder(req[q], req'[q])
      BY <2>1, <2>2 DEF SameHolder, HasToken, Requests
    <2> QED BY <1>4, <2>3, QuietOwners DEF ExpireToken
  <1>5. ASSUME NEW p, RestartProcess(p) PROVE OwnedNext
    BY <1>5, EndOwners DEF RestartProcess
  <1>6. CASE (Tick \/ StepBack) /\ UNCHANGED <<dataVars, deviceVars, req>>
    BY <1>1, <1>6 DEF dataVars, deviceVars
  <1> QED BY <1>2, <1>3, <1>4, <1>5, <1>6 DEF Environment

LEMMA StepOwned ==
  ASSUME IInv, AType, OneAccount, Owned, [AccountsNext]_accountsVars
  PROVE  Owned'
  <1>0. TypeOK' /\ Drawn \subseteq Drawn' /\ Again \subseteq Again'
    BY IdsStep, StepOfIds, DrawnGrows DEF IInv
  <1>1. CASE UNCHANGED accountsVars
    BY <1>0, <1>1, QuietOwners, OwnedLater DEF accountsVars, dataVars, deviceVars, SameHolder
  <1>2. ASSUME NEW r \in Slots, Begin(r) PROVE OwnedNext
    BY <1>0, <1>2, BeginOwners
  <1>3. ASSUME NEW r \in Slots, Handler(r) PROVE OwnedNext
    <2>1. CASE Abort(r)
      BY <1>0, <2>1, EndOwners DEF Abort
    <2> QED
      BY <1>0, <1>3, <2>1, HandlerCases, FindOwners, EndDrawOwners, InsertOwners,
         AnswerOwners, HandlerOwners
  <1>4. ASSUME Environment PROVE OwnedNext
    BY <1>0, <1>4, EnvironmentOwners
  <1> QED
    BY <1>1, <1>2, <1>3, <1>4, OwnedLater DEF AccountsNext

\* Whatever worker ids the processes have and however the clock is set back, a
\* device that a refresh lets into an account has itself logged in to it, or
\* the account has an identifier that had been drawn before.
THEOREM NoStrangerTheorem == AccountsSpec => []NoStranger
  <1>1. AccountsInit => IInv /\ AType /\ OneAccount /\ Owned
    <2> SUFFICES ASSUME AccountsInit PROVE IInv /\ AType /\ OneAccount /\ Owned
      OBVIOUS
    <2>1. OneAccount
      BY DEF AccountsInit, OneAccount
    <2>2. Owned
      BY NowOwned DEF AccountsInit, IdleReq, HasToken
    <2> QED BY <2>1, <2>2, IdsInit, InitAType
  <1>2. IInv /\ AType /\ OneAccount /\ Owned /\ [AccountsNext]_accountsVars
          => (IInv /\ AType /\ OneAccount /\ Owned)'
    BY IdsStep, StepAType, StepOneAccount, StepOwned
  <1>3. Owned => NoStranger
    BY NowOwned DEF NoStranger, KnownNow, Known, Again
  <1> QED
    BY <1>1, <1>2, <1>3, PTL DEF AccountsSpec

=============================================================================
