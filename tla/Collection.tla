----------------------------- MODULE Collection -----------------------------
(***************************************************************************)
(* What the collection queue promises, without leases, tasks, credentials  *)
(* or processes: a DSP's jobs are collected one at a time, each at most    *)
(* MaxAttempts times, each ends once, and data appears only while its job  *)
(* has the turn.  JobQueue implements it (jobs/queue.rs).                  *)
(***************************************************************************)
EXTENDS Integers, FiniteSets

CONSTANTS
    Job,         \* collections that may be asked for
    Tenant,      \* the DSP a collection is for
    MaxAttempts, \* turns a collection gets
    Limit        \* unfinished collections a DSP may have

VARIABLES
    outcome,     \* "none", "pending", or how the collection ended
    tries,       \* turns that count against it
    turn,        \* collections that run now
    data         \* collections whose data reached the DSP

vars == <<outcome, tries, turn, data>>

Pending == {j \in Job : outcome[j] = "pending"}

Init ==
    /\ outcome = [j \in Job |-> "none"]
    /\ tries = [j \in Job |-> 0]
    /\ turn = {} /\ data = {}

\* A batch for one DSP, all or nothing, when nothing of it is pending.
Accept(batch) ==
    /\ batch # {} /\ Cardinality(batch) <= Limit
    /\ \A j \in batch : outcome[j] = "none"
    /\ \A j, k \in batch : Tenant[j] = Tenant[k]
    /\ \A j \in batch, k \in Pending : Tenant[j] # Tenant[k]
    /\ outcome' = [j \in Job |-> IF j \in batch THEN "pending" ELSE outcome[j]]
    /\ UNCHANGED <<tries, turn, data>>

Start(j) ==
    /\ j \in Pending \ turn
    /\ tries[j] < MaxAttempts
    /\ \A k \in turn : Tenant[k] # Tenant[j]
    /\ turn' = turn \cup {j}
    /\ tries' = [tries EXCEPT ![j] = @ + 1]
    /\ UNCHANGED <<outcome, data>>

\* No browser was free: the turn does not count.
GiveBack(j) ==
    /\ j \in turn
    /\ turn' = turn \ {j}
    /\ tries' = [tries EXCEPT ![j] = @ - 1]
    /\ UNCHANGED <<outcome, data>>

\* Turns that were lost: those collections wait for the next one, or fail when they
\* had their last.  A crash may leave data behind (`torn`).
Lose(lost, torn) ==
    /\ lost \subseteq turn /\ torn \subseteq lost
    /\ turn' = turn \ lost
    /\ outcome' = [j \in Job |-> IF j \in lost /\ tries[j] = MaxAttempts
                                 THEN "failed" ELSE outcome[j]]
    /\ data' = data \cup torn
    /\ UNCHANGED tries

Retry(j) ==
    /\ j \in turn /\ tries[j] < MaxAttempts
    /\ turn' = turn \ {j}
    /\ UNCHANGED <<outcome, tries, data>>

Fail(j) ==
    /\ j \in turn
    /\ turn' = turn \ {j}
    /\ outcome' = [outcome EXCEPT ![j] = "failed"]
    /\ UNCHANGED <<tries, data>>

Succeed(j) ==
    /\ j \in turn
    /\ turn' = turn \ {j}
    /\ outcome' = [outcome EXCEPT ![j] = "succeeded"]
    /\ data' = data \cup {j}
    /\ UNCHANGED tries

\* The data came, the end of the turn was not noted.
Deposit(j) ==
    /\ j \in turn
    /\ data' = data \cup {j}
    /\ UNCHANGED <<outcome, tries, turn>>

Withdraw(which) ==
    /\ which \subseteq Pending
    /\ turn' = turn \ which
    /\ outcome' = [j \in Job |-> IF j \in which THEN "cancelled" ELSE outcome[j]]
    /\ UNCHANGED <<tries, data>>

Next ==
    \/ \E batch \in SUBSET Job : Accept(batch) \/ Withdraw(batch)
    \/ \E j \in Job : Start(j) \/ GiveBack(j) \/ Retry(j) \/ Fail(j)
    \/ \E j \in Job : Succeed(j) \/ Deposit(j)
    \/ \E lost, torn \in SUBSET turn : Lose(lost, torn)

Spec == Init /\ [][Next]_vars
=============================================================================
