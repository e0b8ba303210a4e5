------------------------------ MODULE JobTurns ------------------------------
(***************************************************************************)
(* Whose turn it is: JobQueue with an observer of the order in which DSPs  *)
(* are served (CLAIMABLE, jobs/queue.rs).  The observer changes nothing    *)
(* the queue does.                                                         *)
(***************************************************************************)
EXTENDS JobQueue

VARIABLE overtaken   \* overtaken[d]: DSPs that ended a job since d began to wait

tvars == <<vars, overtaken>>

Waiting(d) == \E j \in JobsOf(d) : Claimable(j)

\* DSPs with a job that ends in this step, whatever way.
Ending == {Owner(j) : j \in {k \in Job : /\ job[k].st \notin FinalStatus
                                         /\ job'[k].st \in FinalStatus}}

Observe ==
    overtaken' = [d \in Dsp |-> IF ~Waiting(d)' \/ d \in Ending THEN {}
                                ELSE overtaken[d] \cup IF Waiting(d) THEN Ending ELSE {}]

TurnsInit == Init /\ overtaken = [d \in Dsp |-> {}]
TurnsSpec == TurnsInit /\ [][Next /\ Observe]_tvars

-----------------------------------------------------------------------------
(* Properties                                                              *)

Served(e) == \E s \in Slot : task[s] = Idle /\ task'[s] # Idle /\ Owner(task'[s].job) = e

\* While a DSP waits with a claimable job, no other DSP is served again after ending a
\* job: a busy tenant passes a waiting one at most once.
NobodyPassesTwice ==
    [][\A d, e \in Dsp : Waiting(d) /\ Served(e) => e \notin overtaken[d]]_tvars
=============================================================================
