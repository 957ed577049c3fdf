---------------------------- MODULE MCUserMemory ----------------------------
(* Instances of UserMemory for TLC.                                         *)
EXTENDS UserMemory

CONSTANTS a1, a2, k1

\* Two contents that are not alike, and a job that finds one of them twice.
MCValues == 1..2
MCSimilar == {<<v, v>> : v \in MCValues}
MCExtractions == {<<1, 2, 1>>}

\* A device that reads and patches, and beside it, in turn, the worker and a
\* second device that notes and deletes.
ClientAndWorker ==
  [a \in Actors |-> IF a = a1 THEN {"profile", "patch"}
                    ELSE {"extract", "facet", "delete"}]
TwoWorkers == [a \in Actors |-> {"extract"}]
=============================================================================
