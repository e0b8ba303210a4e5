-------------------------- MODULE JobQueuePromise ---------------------------
(***************************************************************************)
(* JobQueue implements Collection: every step of the queue is a step of    *)
(* the abstract specification or leaves it as it is.                       *)
(***************************************************************************)
EXTENDS JobQueueAuthority

OutcomesNow == [k \in Job |-> OutcomeOf(job[k].st)]
TriesNow    == [k \in Job |-> job[k].att]

\* A job that was never queued used no attempt; no step makes one.
AbsentIsNew  == \A j \in Job : job[j].st = "absent" => job[j].att = 0
AbsentStays  == \A j \in Job : job'[j].st = "absent" => job'[j] = job[j]
Simulated    == [Promise!Next]_(Promise!vars) /\ AbsentStays

LEMMA Outcomes ==
  /\ OutcomeOf("absent") = "none"
  /\ \A st \in ActiveStatus : OutcomeOf(st) = "pending"
  /\ \A st \in FinalStatus : OutcomeOf(st) = st
BY DEF OutcomeOf, ActiveStatus, LeasedStatus, FinalStatus

LEMMA OneRow ==
  ASSUME TypeOK, NEW j \in Job, NEW row, job' = [job EXCEPT ![j] = row]
  PROVE  /\ OutcomesNow' = [OutcomesNow EXCEPT ![j] = OutcomeOf(row.st)]
         /\ TriesNow' = [TriesNow EXCEPT ![j] = row.att]
         /\ Leased' = IF row.st \in LeasedStatus THEN Leased \cup {j} ELSE Leased \ {j}
<1>1. \A k \in Job : job'[k] = IF k = j THEN row ELSE job[k]
  BY DEF TypeOK
<1>2. OutcomesNow' = [OutcomesNow EXCEPT ![j] = OutcomeOf(row.st)]
  <2> DEFINE o == OutcomeOf(row.st)
  <2>1. \A k \in Job : OutcomeOf(job'[k].st) = IF k = j THEN o ELSE OutcomeOf(job[k].st)
    BY <1>1
  <2> SUFFICES OutcomesNow' = [OutcomesNow EXCEPT ![j] = o]
    OBVIOUS
  <2> HIDE DEF o
  <2> QED BY <2>1 DEF OutcomesNow
<1>3. TriesNow' = [TriesNow EXCEPT ![j] = row.att]
  <2> DEFINE a == row.att
  <2>1. \A k \in Job : job'[k].att = IF k = j THEN a ELSE job[k].att
    BY <1>1
  <2> SUFFICES TriesNow' = [TriesNow EXCEPT ![j] = a]
    OBVIOUS
  <2> HIDE DEF a
  <2> QED BY <2>1 DEF TriesNow
<1>4. Leased' = IF row.st \in LeasedStatus THEN Leased \cup {j} ELSE Leased \ {j}
  BY <1>1 DEF Leased
<1> QED BY <1>2, <1>3, <1>4

LEMMA Still ==
  ASSUME job' = job, published' = published
  PROVE  Simulated
BY DEF Simulated, AbsentStays, Promise!vars, Leased

\* A lease is kept, or a job waits on: nothing the promise speaks of.
LEMMA SameKind ==
  ASSUME TypeOK, NEW j \in Job, NEW row, job' = [job EXCEPT ![j] = row],
         published' = published, row.att = job[j].att, row.st # "absent",
         \/ row.st \in LeasedStatus /\ j \in Leased
         \/ row.st = job[j].st
         \/ row.st \in ActiveStatus \ LeasedStatus /\ job[j].st \in ActiveStatus \ LeasedStatus
  PROVE  Simulated
<1>1. OutcomeOf(row.st) = OutcomeOf(job[j].st)
  BY Outcomes DEF Leased, ActiveStatus
<1>2. OutcomesNow' = OutcomesNow /\ TriesNow' = TriesNow
  BY <1>1, OneRow DEF OutcomesNow, TriesNow
<1>3. Leased' = Leased
  BY OneRow DEF Leased
<1>4. AbsentStays
  BY DEF AbsentStays, TypeOK
<1> QED BY <1>2, <1>3, <1>4 DEF Simulated, Promise!vars, OutcomesNow, TriesNow

LEMMA CancelSimulated ==
  ASSUME Safe, NEW which \in SUBSET Job, CancelJobs(which), published' = published
  PROVE  Simulated
<1> DEFINE hit == Cancellable(which)
<1> USE DEF Safe
<1>1. ASSUME NEW j \in Job
      PROVE  IF j \in hit THEN job'[j].st = "cancelled" /\ job'[j].att = job[j].att
             ELSE job'[j] = job[j]
  <2>1. Unleased(job[j]) \in JobRow /\ Unleased(job[j]).att = job[j].att
    BY KeptRow DEF TypeOK, Unleased, JobRow
  <2> QED BY <2>1 DEF CancelJobs, JobRow
<1>2. hit \in SUBSET Job /\ \A j \in hit : job[j].st \in ActiveStatus
  BY DEF Cancellable
<1> HIDE DEF hit
<1>3. OutcomesNow' = [j \in Job |-> IF j \in hit THEN "cancelled" ELSE OutcomesNow[j]]
  BY <1>1, Outcomes DEF OutcomesNow, FinalStatus
<1>4. TriesNow' = TriesNow
  BY <1>1 DEF TriesNow
<1>5. Leased' = Leased \ hit
  BY <1>1 DEF Leased, LeasedStatus
<1>6. hit \subseteq Promise!Pending
  BY <1>2, Outcomes DEF Promise!Pending
<1>7. Promise!Withdraw(hit)
  BY <1>3, <1>4, <1>5, <1>6 DEF Promise!Withdraw, OutcomesNow, TriesNow
<1>8. AbsentStays
  BY <1>1 DEF AbsentStays
<1> QED BY <1>2, <1>7, <1>8 DEF Simulated, Promise!Next

LEMMA EnqueueSimulated ==
  ASSUME Safe, AbsentIsNew, NEW d \in Dsp, NEW actor \in BOOLEAN,
         NEW batch \in SUBSET JobsOf(d), Enqueue(d, actor, batch)
  PROVE  Simulated
<1> DEFINE missing == {j \in batch : job[j].st = "absent"}
<1> USE DEF Safe
<1>1. ASSUME NEW j \in Job
      PROVE  IF j \in missing THEN job'[j].st = "queued" /\ job'[j].att = job[j].att
             ELSE job'[j] = job[j]
  BY DEF Enqueue, AbsentIsNew
<1>2. /\ missing \in SUBSET Job /\ missing # {} /\ Cardinality(missing) <= QueueLimit
      /\ \A j \in missing : job[j].st = "absent" /\ Owner(j) = d
  BY DEF Enqueue, JobsOf
<1>3. \A k \in Job : job[k].st \in ActiveStatus => Owner(k) # d
  BY DEF Enqueue, Active, JobsOf
<1> HIDE DEF missing
<1>4. OutcomesNow' = [j \in Job |-> IF j \in missing THEN "pending" ELSE OutcomesNow[j]]
  BY <1>1, Outcomes DEF OutcomesNow, ActiveStatus
<1>5. TriesNow' = TriesNow
  BY <1>1 DEF TriesNow
<1>6. Leased' = Leased
  BY <1>1, <1>2 DEF Leased, LeasedStatus
<1>7. \A k \in Promise!Pending : Owner(k) # d /\ k \in Job
  <2> SUFFICES ASSUME NEW k \in Promise!Pending PROVE job[k].st \in ActiveStatus /\ k \in Job
    BY <1>3
  <2>1. k \in Job /\ OutcomeOf(job[k].st) = "pending" /\ job[k] \in JobRow
    BY DEF Promise!Pending, TypeOK
  <2>2. \A st \in FinalStatus : OutcomeOf(st) # "pending"
    BY Outcomes DEF FinalStatus
  <2> QED BY <2>1, <2>2, Outcomes DEF JobRow
<1>8. \A j \in missing : OutcomeOf(job[j].st) = "none"
  BY <1>2, Outcomes
<1>9. Promise!Accept(missing)
  <2>1. Promise!Cardinality(missing) = Cardinality(missing)
    BY DEF Promise!Cardinality, Cardinality
  <2> QED BY <2>1, <1>2, <1>4, <1>5, <1>6, <1>7, <1>8
     DEF Promise!Accept, OutcomesNow, TriesNow, Enqueue
<1>10. AbsentStays
  BY <1>1 DEF AbsentStays
<1> QED BY <1>2, <1>9, <1>10 DEF Simulated, Promise!Next

LEMMA RequestsSimulated ==
  ASSUME Safe, AbsentIsNew, Requests
  PROVE  Simulated
<1>1. ASSUME NEW j \in Job, Cancel(j) PROVE Simulated
  BY <1>1, CancelSimulated DEF Cancel
<1>2. ASSUME NEW d \in Dsp, NEW on \in BOOLEAN, NEW partial \in BOOLEAN,
             SetServes(d, on, partial)
      PROVE  Simulated
  BY <1>2, CancelSimulated, Still DEF SetServes, JobsOf
<1>3. ASSUME NEW d \in Dsp, NEW on \in BOOLEAN, SetGrant(d, on) PROVE Simulated
  BY <1>3, Still DEF SetGrant
<1>4. ASSUME NEW c \in Conn, StopConnection(c) PROVE Simulated
  BY <1>4, CancelSimulated DEF StopConnection
<1>5. ASSUME NEW c \in Conn, AbandonConnection(c) PROVE Simulated
  BY <1>5, Still DEF AbandonConnection
<1>6. ASSUME NEW c \in Conn, NEW enabled \in BOOLEAN, SaveConnection(c, enabled) PROVE Simulated
  BY <1>6, Still DEF SaveConnection
<1> QED BY <1>1, <1>2, <1>3, <1>4, <1>5, <1>6, EnqueueSimulated DEF Requests

LEMMA ClaimSimulated ==
  ASSUME Safe, NEW s \in Slot, NEW j \in Job, Claim(s, j)
  PROVE  Simulated
<1> USE DEF Safe
<1> DEFINE a == job[j].att + 1
           row == [job[j] EXCEPT !.st = "running", !.att = a, !.owner = worker, !.lease = "live"]
<1>1. job' = [job EXCEPT ![j] = row] /\ job[j] \in JobRow /\ job[j].st = "queued"
  BY DEF Claim, Claimable, TypeOK
<1>2. row.st = "running" /\ row.att = a
  BY <1>1 DEF JobRow
<1> HIDE DEF row
<1>3. /\ OutcomesNow' = [OutcomesNow EXCEPT ![j] = OutcomeOf(row.st)]
      /\ TriesNow' = [TriesNow EXCEPT ![j] = a]
      /\ Leased' = Leased \cup {j}
  BY <1>1, <1>2, OneRow DEF LeasedStatus
<1>4. OutcomeOf(row.st) = "pending" /\ OutcomeOf(job[j].st) = "pending"
  BY <1>1, <1>2, Outcomes DEF ActiveStatus, LeasedStatus
<1>5. OutcomesNow' = OutcomesNow
  BY <1>3, <1>4 DEF OutcomesNow
<1>6. \A k \in Leased : Owner(k) # Owner(j) /\ k \in Job
  BY DEF Claim, Claimable, JobsOf, Leased
<1>7. j \in Promise!Pending \ Leased
  BY <1>4, <1>6 DEF Promise!Pending
<1>8. job[j].att < MaxAttempts
  BY <1>1 DEF WaitingHasAttempts
<1>9. Promise!Start(j)
  BY <1>3, <1>5, <1>6, <1>7, <1>8 DEF Promise!Start, OutcomesNow, TriesNow, Claim
<1>10. AbsentStays
  BY <1>1, <1>2 DEF AbsentStays, TypeOK
<1> QED BY <1>9, <1>10 DEF Simulated, Promise!Next

\* Turns that are lost.
LEMMA LostSimulated ==
  ASSUME Safe, NEW lost \in SUBSET Leased, NEW torn \in SUBSET lost,
         job' = Recovered(lost), published' = published \cup torn
  PROVE  Simulated
<1> USE DEF Safe
<1>1. ASSUME NEW j \in Job
      PROVE  IF j \in lost
             THEN /\ job'[j].att = job[j].att
                  /\ job'[j].st = IF job[j].att = MaxAttempts THEN "failed" ELSE "queued"
             ELSE job'[j] = job[j]
  <2> DEFINE x == IF job[j].att >= MaxAttempts THEN "failed" ELSE "queued"
  <2>1. Unleased(job[j]) \in JobRow /\ Unleased(job[j]).att = job[j].att
    BY KeptRow DEF TypeOK, Unleased, JobRow
  <2>2. job'[j] = IF j \in lost THEN [Unleased(job[j]) EXCEPT !.st = x] ELSE job[j]
    BY DEF Recovered
  <2>3. job[j].att \in 0 .. MaxAttempts
    BY DEF TypeOK, JobRow
  <2>4. x = IF job[j].att = MaxAttempts THEN "failed" ELSE "queued"
    BY <2>3, LimitAssumption
  <2> HIDE DEF x
  <2>5. j \in lost => job'[j].att = job[j].att /\ job'[j].st = x
    BY <2>1, <2>2 DEF JobRow
  <2> QED BY <2>2, <2>4, <2>5
<1>2. lost \subseteq Job /\ \A j \in lost : job[j].st \in ActiveStatus
  BY DEF Leased, ActiveStatus
<1>3. \A j \in lost : OutcomeOf(job[j].st) = "pending"
  BY <1>2, Outcomes
<1>4. OutcomeOf("queued") = "pending" /\ OutcomeOf("failed") = "failed"
  BY Outcomes DEF ActiveStatus, FinalStatus
<1>5. OutcomesNow' = [j \in Job |-> IF j \in lost /\ TriesNow[j] = MaxAttempts
                                   THEN "failed" ELSE OutcomesNow[j]]
  BY <1>1, <1>3, <1>4 DEF OutcomesNow, TriesNow
<1>6. TriesNow' = TriesNow
  BY <1>1 DEF TriesNow
<1>7. Leased' = Leased \ lost
  BY <1>1 DEF Leased, LeasedStatus
<1>8. Promise!Lose(lost, torn)
  BY <1>5, <1>6, <1>7 DEF Promise!Lose, OutcomesNow, TriesNow
<1>9. AbsentStays
  BY <1>1 DEF AbsentStays
<1> QED BY <1>8, <1>9 DEF Simulated, Promise!Next

\* A turn ends: how the promise sees each way.
LEMMA TurnEnds ==
  ASSUME Safe, NEW j \in Leased, NEW x \in FinalStatus \cup {"delayed"},
         job' = [job EXCEPT ![j] = [Unleased(job[j]) EXCEPT !.st = x]]
  PROVE  /\ OutcomesNow' = [OutcomesNow EXCEPT ![j] = OutcomeOf(x)]
         /\ TriesNow' = TriesNow /\ Leased' = Leased \ {j}
         /\ j \in Job /\ OutcomeOf(job[j].st) = "pending" /\ AbsentStays
<1> DEFINE row == [Unleased(job[j]) EXCEPT !.st = x]
<1> USE DEF Safe
<1>1. j \in Job /\ job[j].st \in ActiveStatus /\ job[j] \in JobRow
  BY DEF Leased, ActiveStatus, TypeOK
<1>2. Unleased(job[j]) \in JobRow /\ Unleased(job[j]).att = job[j].att
  BY <1>1, KeptRow DEF Unleased, JobRow
<1>3. row.st = x /\ row.att = job[j].att
  BY <1>2 DEF JobRow
<1>4. x \notin LeasedStatus /\ x # "absent"
  BY DEF FinalStatus, LeasedStatus
<1> HIDE DEF row
<1>5. /\ OutcomesNow' = [OutcomesNow EXCEPT ![j] = OutcomeOf(x)]
      /\ TriesNow' = [TriesNow EXCEPT ![j] = job[j].att]
      /\ Leased' = Leased \ {j}
  BY <1>1, <1>3, <1>4, OneRow DEF row
<1>6. TriesNow' = TriesNow
  BY <1>1, <1>5 DEF TriesNow
<1>7. AbsentStays
  BY <1>1, <1>3, <1>4 DEF AbsentStays, TypeOK, row
<1> QED BY <1>1, <1>5, <1>6, <1>7, Outcomes

LEMMA PublishSimulated ==
  ASSUME Safe, NEW j \in Job, Guard(j), PublishAndFinish(j) \/ PublishOnly(j)
  PROVE  Simulated
<1>1. j \in Leased
  BY HeldIsLeased DEF Guard
<1>2. CASE PublishAndFinish(j)
  <2> DEFINE x == "succeeded"
  <2>1. x \in FinalStatus /\ x = "succeeded"
    BY DEF FinalStatus
  <2>2. job' = [job EXCEPT ![j] = [Unleased(job[j]) EXCEPT !.st = x]]
    BY <1>2 DEF PublishAndFinish
  <2> HIDE DEF x
  <2>3. /\ OutcomesNow' = [OutcomesNow EXCEPT ![j] = "succeeded"]
        /\ TriesNow' = TriesNow /\ Leased' = Leased \ {j} /\ AbsentStays
    BY <1>1, <2>1, <2>2, TurnEnds, Outcomes
  <2>4. Promise!Succeed(j)
    BY <1>1, <1>2, <2>3 DEF PublishAndFinish, Promise!Succeed, OutcomesNow, TriesNow
  <2> QED BY <2>3, <2>4 DEF Simulated, Promise!Next
<1>3. CASE PublishOnly(j)
  <2>1. Promise!Deposit(j)
    BY <1>1, <1>3 DEF PublishOnly, Promise!Deposit, Leased
  <2>2. AbsentStays
    BY <1>3 DEF PublishOnly, AbsentStays
  <2> QED BY <2>1, <2>2 DEF Simulated, Promise!Next
<1> QED BY <1>2, <1>3

LEMMA DeferSimulated ==
  ASSUME Safe, NEW j \in Job, job[j].st = "running", job' = [job EXCEPT ![j] = Deferred(j)],
         published' = published
  PROVE  Simulated
<1> DEFINE x == "delayed"
           a == job[j].att - 1
           row == [Unleased(job[j]) EXCEPT !.st = x, !.att = a]
<1> USE DEF Safe
<1>1. job' = [job EXCEPT ![j] = row] /\ Unleased(job[j]) \in JobRow
  BY KeptRow DEF Deferred, TypeOK
<1>2. x \notin LeasedStatus /\ x \in ActiveStatus /\ x # "absent"
  BY DEF ActiveStatus, LeasedStatus
<1> HIDE DEF x, a
<1>3. row.st = x /\ row.att = a
  BY <1>1 DEF JobRow
<1> HIDE DEF row
<1>4. /\ OutcomesNow' = [OutcomesNow EXCEPT ![j] = OutcomeOf(x)]
      /\ TriesNow' = [TriesNow EXCEPT ![j] = a]
      /\ Leased' = Leased \ {j}
  BY <1>1, <1>2, <1>3, OneRow
<1>5. OutcomeOf(x) = "pending" /\ OutcomeOf(job[j].st) = "pending" /\ j \in Leased
  BY <1>2, Outcomes DEF ActiveStatus, LeasedStatus, Leased
<1>6. OutcomesNow' = OutcomesNow
  BY <1>4, <1>5 DEF OutcomesNow
<1>7. Promise!GiveBack(j)
  BY <1>4, <1>5, <1>6 DEF Promise!GiveBack, OutcomesNow, TriesNow, a
<1>8. AbsentStays
  BY <1>1, <1>2, <1>3 DEF AbsentStays, TypeOK
<1> QED BY <1>7, <1>8 DEF Simulated, Promise!Next

LEMMA ExecutorSimulated ==
  ASSUME Safe, NEW s \in Slot, Executor(s)
  PROVE  Simulated
<1> DEFINE j == task[s].job
<1> USE DEF Safe
<1>0. ASSUME task[s].pc # "idle" PROVE j \in Job /\ job[j] \in JobRow
  BY <1>0, LiveRow DEF TypeOK
<1>1. ASSUME NEW x \in LeasedStatus, j \in Job, Held(j), job' = [job EXCEPT ![j].st = x],
             published' = published
      PROVE  Simulated
  <2>1. job' = [job EXCEPT ![j] = [job[j] EXCEPT !.st = x]] /\ job[j] \in JobRow
    BY <1>1 DEF TypeOK
  <2>2. [job[j] EXCEPT !.st = x].st = x /\ [job[j] EXCEPT !.st = x].att = job[j].att
    BY <2>1 DEF JobRow
  <2>3. x # "absent" /\ j \in Leased
    BY <1>1, HeldIsLeased DEF LeasedStatus
  <2> QED BY <1>1, <2>1, <2>2, <2>3, SameKind
<1>2. CASE MarkWaiting(s)
  <2> DEFINE x == "waiting"
  <2>1. /\ x \in LeasedStatus /\ published' = published /\ j \in Job
        /\ (Held(j) /\ job' = [job EXCEPT ![j].st = x]) \/ job' = job
    BY <1>0, <1>2 DEF MarkWaiting, LeasedStatus
  <2> HIDE DEF x, j
  <2> QED BY <1>1, <2>1, Still
<1>3. CASE Begin(s)
  <2> DEFINE x == "running"
  <2>1. /\ x \in LeasedStatus /\ published' = published /\ j \in Job
        /\ (Held(j) /\ job' = [job EXCEPT ![j].st = x]) \/ job' = job
    BY <1>0, <1>3 DEF Begin, LeasedStatus, Guard
  <2> HIDE DEF x, j
  <2> QED BY <1>1, <2>1, Still
<1>4. CASE Publish(s)
  <2>1. j \in Job
    BY <1>0, <1>4 DEF Publish
  <2> QED BY <2>1, <1>4, PublishSimulated, Still DEF Publish
<1>5. CASE Defer(s)
  <2>1. /\ j \in Job /\ published' = published
        /\ \/ job[j].st = "running" /\ job' = [job EXCEPT ![j] = Deferred(j)]
           \/ job' = job
    BY <1>0, <1>5 DEF Defer
  <2> HIDE DEF j
  <2> QED BY <2>1, Still, DeferSimulated
<1>6. CASE Record(s)
  <2> DEFINE e == task[s].err
             retry == e = "retryable" /\ job[j].att < MaxAttempts
             x == IF retry THEN "delayed" ELSE "failed"
  <2>0. j \in Job /\ published' = published
    BY <1>0, <1>6 DEF Record
  <2>1. CASE ~Held(j)
    BY <1>6, <2>0, <2>1, Still DEF Record, TypeOK
  <2>2. CASE Held(j)
    <3>1. /\ j \in Leased /\ x \in FinalStatus \cup {"delayed"}
          /\ job' = [job EXCEPT ![j] = [Unleased(job[j]) EXCEPT !.st = x]]
      BY <1>6, <2>0, <2>2, HeldIsLeased DEF Record, Finished, FinalStatus
    <3>2. (retry /\ x = "delayed") \/ x = "failed"
      OBVIOUS
    <3>3. OutcomeOf("delayed") = "pending" /\ OutcomeOf("failed") = "failed"
      BY Outcomes DEF FinalStatus, ActiveStatus
    <3> HIDE DEF x
    <3>4. /\ OutcomesNow' = [OutcomesNow EXCEPT ![j] = OutcomeOf(x)]
          /\ TriesNow' = TriesNow /\ Leased' = Leased \ {j}
          /\ OutcomeOf(job[j].st) = "pending" /\ AbsentStays
      BY <3>1, TurnEnds
    <3>5. CASE x = "failed"
      <4>1. Promise!Fail(j)
        BY <2>0, <3>1, <3>3, <3>4, <3>5 DEF Promise!Fail, OutcomesNow, TriesNow
      <4> QED BY <2>0, <3>4, <4>1 DEF Simulated, Promise!Next
    <3>6. CASE retry /\ x = "delayed"
      <4>1. OutcomesNow' = OutcomesNow
        BY <2>0, <3>3, <3>4, <3>6 DEF OutcomesNow
      <4>2. Promise!Retry(j)
        BY <2>0, <3>1, <3>4, <3>6, <4>1 DEF Promise!Retry, OutcomesNow, TriesNow
      <4> QED BY <2>0, <3>4, <4>2 DEF Simulated, Promise!Next
    <3> QED BY <3>2, <3>5, <3>6
  <2> QED BY <2>1, <2>2
<1>7. CASE UNCHANGED <<job, published>>
  BY <1>7, Still
<1> QED BY <1>2, <1>3, <1>4, <1>5, <1>6, <1>7 DEF Executor, CheckStart, OpenBrowser,
    AwaitOwner, Collect, Heartbeat, Complete, Unrecorded

LEMMA SchedulerSimulated ==
  ASSUME Safe, Scheduler
  PROVE  Simulated
<1> USE DEF Safe
<1>1. CASE RecoverExpired
  <2>1. Expired \in SUBSET Leased /\ {} \in SUBSET Expired /\ published' = published \cup {}
    BY <1>1 DEF RecoverExpired, Expired
  <2> QED BY <1>1, <2>1, LostSimulated DEF RecoverExpired
<1>2. ASSUME NEW j \in Job, LeaseLapses(j) PROVE Simulated
  <2> DEFINE row == [job[j] EXCEPT !.lease = "lapsed"]
  <2>1. job' = [job EXCEPT ![j] = row] /\ job[j] \in JobRow /\ published' = published
    BY <1>2 DEF LeaseLapses, TypeOK
  <2>2. row.st = job[j].st /\ row.att = job[j].att
    BY <2>1 DEF JobRow
  <2>3. job[j].st # "absent"
    BY <1>2 DEF LeaseLapses, LeasesAreOurs, Leased, LeasedStatus
  <2> HIDE DEF row
  <2> QED BY <2>1, <2>2, <2>3, SameKind
<1>3. ASSUME NEW j \in Job, Due(j) PROVE Simulated
  <2> DEFINE row == [job[j] EXCEPT !.st = "queued"]
  <2>1. job' = [job EXCEPT ![j] = row] /\ job[j] \in JobRow /\ published' = published
    BY <1>3 DEF Due, TypeOK
  <2>2. row.st = "queued" /\ row.att = job[j].att /\ job[j].st = "delayed"
    BY <1>3, <2>1 DEF Due, JobRow
  <2> HIDE DEF row
  <2> QED BY <2>1, <2>2, SameKind DEF ActiveStatus, LeasedStatus
<1>4. ASSUME NEW d \in Dsp, PoolChanges(d) PROVE Simulated
  BY <1>4, Still DEF PoolChanges
<1> QED BY <1>1, <1>2, <1>3, <1>4, ClaimSimulated DEF Scheduler

LEMMA ProcessSimulated ==
  ASSUME Safe, Process
  PROVE  Simulated
<1> USE DEF Safe
<1>1. ASSUME NEW c \in detached, RunDetached(c) PROVE Simulated
  <2>1. c.job \in Job
    BY DEF TypeOK, Closure
  <2> QED BY <1>1, <2>1, PublishSimulated, Still DEF RunDetached
<1>2. CASE Stop
  BY <1>2, Still DEF Stop
<1>3. ASSUME NEW torn \in SUBSET Job, Restart(torn) PROVE Simulated
  <2>1. torn \in SUBSET Leased
    BY <1>3, HeldIsLeased DEF Restart, Guard
  <2> QED BY <1>3, <2>1, LostSimulated DEF Restart, LostAtStart
<1> QED BY <1>1, <1>2, <1>3 DEF Process

LEMMA NextSimulated == Safe /\ AbsentIsNew /\ [Next]_vars => Simulated /\ AbsentIsNew'
<1> SUFFICES ASSUME Safe, AbsentIsNew, [Next]_vars PROVE Simulated /\ AbsentIsNew'
  OBVIOUS
<1>1. ASSUME UNCHANGED vars PROVE Simulated
  BY <1>1, Still DEF vars
<1>2. Simulated
  BY <1>1, RequestsSimulated, SchedulerSimulated, ExecutorSimulated, ProcessSimulated DEF Next
<1>3. AbsentIsNew'
  BY <1>2 DEF Simulated, AbsentStays, AbsentIsNew
<1> QED BY <1>2, <1>3

LEMMA InitSimulated == Init => Promise!Init /\ AbsentIsNew
<1> SUFFICES ASSUME Init PROVE Promise!Init /\ AbsentIsNew
  OBVIOUS
<1>1. \A j \in Job : job[j].st = "absent" /\ job[j].att = 0
  BY DEF Init, Absent
<1>2. Leased = {}
  BY <1>1 DEF Leased, LeasedStatus
<1>3. [j \in Job |-> OutcomeOf(job[j].st)] = [j \in Job |-> "none"]
  BY <1>1, Outcomes
<1>4. [j \in Job |-> job[j].att] = [j \in Job |-> 0]
  BY <1>1
<1> QED BY <1>1, <1>2, <1>3, <1>4 DEF Promise!Init, AbsentIsNew, Init

\* The queue implements Collection: whatever its leases, tasks, credentials and
\* processes do, a collection sees its turns, its one outcome and its data.
THEOREM QueueKeepsPromise == Spec => PromiseKept
<1>1. Init => Promise!Init /\ AbsentIsNew
  BY InitSimulated
<1>2. Safe /\ AbsentIsNew /\ [Next]_vars => AbsentIsNew' /\ [Promise!Next]_(Promise!vars)
  BY NextSimulated DEF Simulated
<1> QED BY <1>1, <1>2, AlwaysSafe, PTL DEF Spec, PromiseKept, Promise!Spec
=============================================================================
