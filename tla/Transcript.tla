----------------------------- MODULE Transcript -----------------------------
(***************************************************************************)
(* What one session promises a client that writes one message at a time:   *)
(* a list of messages that only grows at its end, in which everything the  *)
(* API has acknowledged is found.  A message may be added without being    *)
(* acknowledged: its request failed after the leaf was set.                *)
(***************************************************************************)
EXTENDS Integers, Sequences

CONSTANT MsgIds

VARIABLES history, acked

vars == <<history, acked>>

Said == {history[i] : i \in 1..Len(history)}

Init == history = <<>> /\ acked = {}

Say(m) ==
  /\ m \notin Said
  /\ history' = Append(history, m)
  /\ UNCHANGED acked

Acknowledge(m) ==
  /\ m \in Said
  /\ acked' = acked \cup {m}
  /\ UNCHANGED history

Next == \E m \in MsgIds : Say(m) \/ Acknowledge(m)

Spec == Init /\ [][Next]_vars

TypeOK == history \in Seq(MsgIds) /\ acked \subseteq MsgIds

\* An acknowledged message is never lost from the history.
AckedSaid == acked \subseteq Said

\* A message is in the history at most once.
NoRepeat == \A i, j \in 1..Len(history) : history[i] = history[j] => i = j

=============================================================================
