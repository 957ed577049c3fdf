--------------------------- MODULE MCMemoryQueue ---------------------------
(* Instances of MemoryQueue for TLC.                                        *)
EXTENDS MemoryQueue, TLC

CONSTANTS s1, s2, h1, k1, k2, w1, w2

\* Worker loops differ in nothing but their name.
WorkerSymmetry == Permutations(Workers)
=============================================================================
