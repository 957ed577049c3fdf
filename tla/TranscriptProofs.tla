-------------------------- MODULE TranscriptProofs --------------------------
(* What every system that follows a Transcript gives its client.           *)
EXTENDS Transcript, TLAPS

\* Appending adds one message to what is said.
LEMMA AppendSays ==
  ASSUME TypeOK, NEW m \in MsgIds, history' = Append(history, m)
  PROVE  /\ history' \in Seq(MsgIds)
         /\ Len(history') = Len(history) + 1
         /\ \A i \in 1..Len(history) : history'[i] = history[i]
         /\ history'[Len(history) + 1] = m
BY DEF TypeOK

\* The history and the acknowledged messages keep their types.
THEOREM TypeTheorem == Spec => []TypeOK
<1>1. Init => TypeOK
  BY DEF Init, TypeOK
<1>2. TypeOK /\ [Next]_vars => TypeOK'
  <2> SUFFICES ASSUME TypeOK, [Next]_vars PROVE TypeOK'
    OBVIOUS
  <2>1. ASSUME NEW m \in MsgIds, Say(m) PROVE TypeOK'
    BY <2>1 DEF Say, TypeOK
  <2>2. ASSUME NEW m \in MsgIds, Acknowledge(m) PROVE TypeOK'
    BY <2>2 DEF Acknowledge, TypeOK
  <2>3. CASE UNCHANGED vars
    BY <2>3 DEF vars, TypeOK
  <2> QED
    BY <2>1, <2>2, <2>3 DEF Next
<1> QED
  BY <1>1, <1>2, PTL DEF Spec

\* What was acknowledged is found in the history for ever.
THEOREM AckedTheorem == Spec => []AckedSaid
<1>1. Init => AckedSaid
  BY DEF Init, AckedSaid
<1>2. TypeOK /\ AckedSaid /\ [Next]_vars => AckedSaid'
  <2> SUFFICES ASSUME TypeOK, AckedSaid, [Next]_vars PROVE AckedSaid'
    OBVIOUS
  <2>1. ASSUME NEW m \in MsgIds, Say(m) PROVE AckedSaid'
    BY <2>1, AppendSays DEF Say, AckedSaid, Said, TypeOK
  <2>2. ASSUME NEW m \in MsgIds, Acknowledge(m) PROVE AckedSaid'
    BY <2>2 DEF Acknowledge, AckedSaid, Said
  <2>3. CASE UNCHANGED vars
    BY <2>3 DEF vars, AckedSaid, Said
  <2> QED
    BY <2>1, <2>2, <2>3 DEF Next
<1> QED
  BY <1>1, <1>2, TypeTheorem, PTL DEF Spec

\* No message is said twice.
THEOREM NoRepeatTheorem == Spec => []NoRepeat
<1>1. Init => NoRepeat
  BY DEF Init, NoRepeat
<1>2. TypeOK /\ NoRepeat /\ [Next]_vars => NoRepeat'
  <2> SUFFICES ASSUME TypeOK, NoRepeat, [Next]_vars PROVE NoRepeat'
    OBVIOUS
  <2>1. ASSUME NEW m \in MsgIds, Say(m) PROVE NoRepeat'
    <3>1. \A i \in 1..Len(history) : history[i] # m
      BY <2>1 DEF Say, Said
    <3> QED
      BY <2>1, <3>1, AppendSays DEF Say, NoRepeat, TypeOK
  <2>2. ASSUME NEW m \in MsgIds, Acknowledge(m) PROVE NoRepeat'
    BY <2>2 DEF Acknowledge, NoRepeat
  <2>3. CASE UNCHANGED vars
    BY <2>3 DEF vars, NoRepeat
  <2> QED
    BY <2>1, <2>2, <2>3 DEF Next
<1> QED
  BY <1>1, <1>2, TypeTheorem, PTL DEF Spec

=============================================================================
