----------------------------- MODULE Snowflake -----------------------------
(***************************************************************************)
(* The 64-bit identifiers of every row (src/common/id/snowflake.ts): one   *)
(* generator per process, fed by the system clock in milliseconds since    *)
(* EPOCH, which all processes read as one clock.  It runs on, and now and  *)
(* then it is set back.  nextId is synchronous: it waits for the next      *)
(* millisecond in a loop that holds up its whole process, once the         *)
(* sequence has gone round.                                                *)
(***************************************************************************)
EXTENDS Integers, Sequences

CONSTANTS
  Procs,
  WorkerId,    \* SNOWFLAKE_WORKER_ID of each process, '1' when it is not set
  SeqMod,      \* values of the sequence, 4096 in the code
  Start,       \* bound: the millisecond in which the processes start
  MaxClock,    \* bound: the last millisecond
  MaxSteps,    \* bound: times the clock is set back
  MaxIds       \* bound: identifiers of one process

\* The fields of ten and of twelve bits.
WorkerIds == 0..1023
SeqNumbers == 0..4095

ASSUME SeqAssumption == SeqMod \in Nat \ {0} /\ 0..(SeqMod - 1) \subseteq SeqNumbers
ASSUME WorkerAssumption == WorkerId \in [Procs -> WorkerIds]
ASSUME BoundAssumption == {Start, MaxClock, MaxSteps, MaxIds} \subseteq Nat

VARIABLES
  clock,   \* Date.now() - EPOCH
  steps,   \* times the clock has been set back
  lastMs,  \* lastMs[p], -1 in a new process
  seq,     \* seq[p]
  waits,   \* waits[p]: nextId is in its loop
  ids,     \* ids[p]: what nextId has returned in p, restarts included
  since    \* since[p]: how many of them when the clock was last set back

generators == <<lastMs, seq, waits, ids>>
time == <<clock, steps, since>>
vars == <<time, generators>>

\* Mutant: the identifiers leave out the process.
PackWithoutWorker(ts, worker, s) == ts * 4194304 + s

\* (ts << 22n) | (worker << 12n) | seq, of fields that keep to their bits.
Pack(ts, worker, s) == ts * 4194304 + worker * 4096 + s

Init ==
  /\ clock = Start /\ steps = 0
  /\ lastMs = [p \in Procs |-> -1]
  /\ seq = [p \in Procs |-> 0]
  /\ waits = [p \in Procs |-> FALSE]
  /\ ids = [p \in Procs |-> <<>>]
  /\ since = [p \in Procs |-> 0]

Tick ==
  /\ clock < MaxClock
  /\ clock' = clock + 1
  /\ UNCHANGED <<steps, since, generators>>

\* The clock is set back, by an administrator or by NTP.
StepBack ==
  /\ steps < MaxSteps /\ steps' = steps + 1
  /\ \E ms \in 0..(clock - 1) : clock' = ms
  /\ since' = [p \in Procs |-> Len(ids[p])]
  /\ UNCHANGED generators

Return(p, ms, s) ==
  /\ lastMs' = [lastMs EXCEPT ![p] = ms]
  /\ seq' = [seq EXCEPT ![p] = s]
  /\ ids' = [ids EXCEPT ![p] = Append(@, Pack(ms, WorkerId[p], s))]

\* Mutant: the sequence goes round within the millisecond.
NextIdNoWait(p) ==
  /\ ~waits[p] /\ Len(ids[p]) < MaxIds
  /\ IF clock = lastMs[p] THEN Return(p, clock, (seq[p] + 1) % SeqMod)
     ELSE Return(p, clock, 0)
  /\ UNCHANGED <<time, waits>>

\* Mutant: the sequence is not masked.
NextIdUnmasked(p) ==
  /\ ~waits[p] /\ Len(ids[p]) < MaxIds
  /\ IF clock = lastMs[p] THEN Return(p, clock, seq[p] + 1)
     ELSE Return(p, clock, 0)
  /\ UNCHANGED <<time, waits>>

NextId(p) ==
  /\ ~waits[p] /\ Len(ids[p]) < MaxIds
  /\ \/ /\ clock # lastMs[p]
        /\ Return(p, clock, 0)
        /\ UNCHANGED waits
     \/ /\ clock = lastMs[p] /\ (seq[p] + 1) % SeqMod # 0
        /\ Return(p, clock, seq[p] + 1)
        /\ UNCHANGED waits
     \/ /\ clock = lastMs[p] /\ (seq[p] + 1) % SeqMod = 0
        /\ seq' = [seq EXCEPT ![p] = 0]
        /\ waits' = [waits EXCEPT ![p] = TRUE]
        /\ UNCHANGED <<lastMs, ids>>
  /\ UNCHANGED time

\* The loop ends when the clock has left lastMs behind.
EndWait(p) ==
  /\ waits[p] /\ clock > lastMs[p]
  /\ Return(p, clock, 0)
  /\ waits' = [waits EXCEPT ![p] = FALSE]
  /\ UNCHANGED time

\* A new process takes the place of p and remembers nothing.  It takes longer
\* than a millisecond to start: the clock has left the one p last drew in, or
\* has been set back since.
Restart(p) ==
  /\ clock > lastMs[p] \/ since[p] = Len(ids[p])
  /\ lastMs' = [lastMs EXCEPT ![p] = -1]
  /\ seq' = [seq EXCEPT ![p] = 0]
  /\ waits' = [waits EXCEPT ![p] = FALSE]
  /\ UNCHANGED <<time, ids>>

Next == Tick \/ StepBack \/ \E p \in Procs : NextId(p) \/ EndWait(p) \/ Restart(p)

Spec == Init /\ [][Next]_vars

-----------------------------------------------------------------------------
(* Properties.                                                              *)

\* Every field keeps to its range, the sequence to its modulus.
TypeOK ==
  /\ clock \in Nat /\ steps \in Nat
  /\ lastMs \in [Procs -> Int] /\ \A p \in Procs : lastMs[p] >= -1
  /\ seq \in [Procs -> 0..(SeqMod - 1)]
  /\ waits \in [Procs -> BOOLEAN]
  /\ ids \in [Procs -> Seq(Nat)]
  /\ since \in [Procs -> Nat]

\* Two processes with different worker ids never return the same identifier,
\* wherever the clock is.
Distinct ==
  \A p, q \in Procs :
    WorkerId[p] # WorkerId[q] =>
      \A i \in 1..Len(ids[p]), k \in 1..Len(ids[q]) : ids[p][i] # ids[q][k]

\* What a process has drawn since the clock was last set back.
Recent(p) == (since[p] + 1)..Len(ids[p])

\* Only a clock set back makes a process return an identifier again, or one
\* below an earlier one: between two such steps its identifiers grow, across
\* the wrap of the sequence, restarts, and a millisecond that comes again.
Increasing ==
  \A p \in Procs : \A i, k \in Recent(p) : i < k => ids[p][i] < ids[p][k]

=============================================================================
