----------------------------- MODULE MCAccounts -----------------------------
(* An instance of Accounts for TLC.                                         *)
EXTENDS Accounts, TLC

CONSTANTS p1, p2, d1, d2, a, b, r1, r2

\* Neighbouring worker ids, the case in which fields could run together.
MCWorkerId == [p \in Procs |-> IF p = p1 THEN 1 ELSE 2]

\* Two devices of one user; the other phone is an admin's to give.
MCPhonesOf == [d \in Devices |-> {a}]

\* A login beside an admin's request, and a refresh beside either and beside
\* another.
MCOps ==
  [r \in Slots |-> {"refresh"} \cup (IF r = r1 THEN {"login"} ELSE {"create", "update", "remove"})]

\* Both devices read the same phone, and no temporal property is checked.
Symmetry == Permutations(Devices)

MCProcOf == [r \in Slots |-> IF r = r1 THEN p1 ELSE p2]
=============================================================================
