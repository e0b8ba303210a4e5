----------------------------- MODULE MCJobQueue -----------------------------
(***************************************************************************)
(* Small instances of JobQueue: which connection each job collects through *)
(* and whose it is, and what is symmetric.                                 *)
(***************************************************************************)
EXTENDS JobQueue, TLC

CONSTANTS d1, d2, c1, c2, j1, j2, j3

MCDspOf  == [c \in Conn |-> IF c = c1 THEN d1 ELSE d2]
MCConnOf == [j \in Job |-> IF j = j3 THEN c2 ELSE c1]

\* Every job is a member's, none a schedule's.
Requested  == \A j \in Job : job'[j].st # "absent" => job'[j].actor
MemberSpec == Init /\ [][Next /\ Requested]_vars

\* Slots are alike, and so are jobs of one connection.
BatchSymmetry == Permutations(Slot) \cup Permutations(Job)
=============================================================================
