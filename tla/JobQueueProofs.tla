--------------------------- MODULE JobQueueProofs ---------------------------
(***************************************************************************)
(* Theorems about JobQueue for every number of DSPs, connections, jobs,    *)
(* slots and attempts.                                                     *)
(***************************************************************************)
EXTENDS JobQueue, FiniteSetTheorems, TLAPS

LEMMA TypeOKInit == Init => TypeOK
  BY LimitAssumption DEF Init, TypeOK, JobRow, Absent, Idle, ActiveStatus, LeasedStatus, FinalStatus, NoOwner

\* The rows a step writes are rows of the table.
LEMMA RowUpdates ==
  ASSUME NEW r \in JobRow
  PROVE  /\ Unleased(r) \in JobRow
         /\ \A x \in ActiveStatus \cup FinalStatus :
                /\ [r EXCEPT !.st = x] \in JobRow
                /\ [Unleased(r) EXCEPT !.st = x] \in JobRow
<1>1. \A row \in JobRow, x \in ActiveStatus \cup FinalStatus : [row EXCEPT !.st = x] \in JobRow
  BY DEF JobRow
<1>2. Unleased(r) \in JobRow
  <2>1. 0 \in 0 .. MaxWorker
    BY LimitAssumption
  <2>2. [r EXCEPT !.owner = 0] \in JobRow
    BY <2>1 DEF JobRow
  <2>3. \A row \in JobRow : [row EXCEPT !.lease = "none"] \in JobRow
    BY DEF JobRow
  <2>4. Unleased(r) = [[r EXCEPT !.owner = 0] EXCEPT !.lease = "none"]
    BY DEF Unleased, NoOwner
  <2> QED BY <2>2, <2>3, <2>4
<1> QED BY <1>1, <1>2

LEMMA Operators ==
  ASSUME TypeOK
  PROVE  /\ \A j \in Job : Owner(j) \in Dsp /\ ConnOf[j] \in Conn
         /\ \A ds \in SUBSET Dsp : Completed(ds) \in SUBSET (Dsp \X Dsp)
         /\ \A lost \in SUBSET Job : Recovered(lost) \in [Job -> JobRow]
<1>3. \A j \in Job : Owner(j) \in Dsp /\ ConnOf[j] \in Conn
  BY MapAssumption DEF Owner
<1>4. \A ds \in SUBSET Dsp : Completed(ds) \in SUBSET (Dsp \X Dsp)
  BY DEF Completed, TypeOK
<1>5. \A lost \in SUBSET Job : Recovered(lost) \in [Job -> JobRow]
  BY RowUpdates DEF Recovered, TypeOK, ActiveStatus, FinalStatus
<1> QED BY <1>3, <1>4, <1>5

LEMMA TaskUpdates ==
  ASSUME NEW t \in TaskRow, NEW x \in TaskStep
  PROVE  /\ [t EXCEPT !.pc = x] \in TaskRow
         /\ \A e \in TaskError : [t EXCEPT !.err = e, !.pc = x] \in TaskRow
         /\ \A r \in 0 .. MaxRev : [t EXCEPT !.sess = r, !.pc = x] \in TaskRow
<1>1. \A row \in TaskRow : [row EXCEPT !.pc = x] \in TaskRow
  BY DEF TaskRow
<1>2. \A e \in TaskError : /\ [t EXCEPT !.err = e] \in TaskRow
                           /\ [t EXCEPT !.err = e, !.pc = x] = [[t EXCEPT !.err = e] EXCEPT !.pc = x]
  BY DEF TaskRow
<1>3. \A r \in 0 .. MaxRev : /\ [t EXCEPT !.sess = r] \in TaskRow
                             /\ [t EXCEPT !.sess = r, !.pc = x] = [[t EXCEPT !.sess = r] EXCEPT !.pc = x]
  BY DEF TaskRow
<1> QED BY <1>1, <1>2, <1>3

TaskTable == [Slot -> TaskRow \cup {Idle}]

\* A task keeps its job and attempt until it is gone.
TasksCalm ==
    \A s \in Slot : \/ task'[s] = Idle
                    \/ /\ task[s].pc # "idle" /\ task'[s].pc # "idle"
                       /\ task'[s].job = task[s].job /\ task'[s].att = task[s].att

LEMMA LiveRow ==
  ASSUME TypeOK, NEW s \in Slot, task[s].pc # "idle"
  PROVE  task[s] \in TaskRow /\ task[s].job \in Job /\ task[s].att \in 1 .. MaxAttempts
BY DEF TypeOK, Idle, TaskRow

LEMMA IdleRow ==
  ASSUME TypeOK, NEW s \in Slot, task[s].pc = "idle"
  PROVE  task[s] = Idle
BY DEF TypeOK, TaskRow, TaskStep

LEMMA TasksStay == ASSUME TypeOK, task' = task PROVE task' \in TaskTable /\ TasksCalm
BY IdleRow DEF TypeOK, TasksCalm, TaskTable

LEMMA GoToCalm ==
  ASSUME TypeOK, NEW s \in Slot, task[s].pc # "idle", NEW x \in TaskStep, GoTo(s, x)
  PROVE  task' \in TaskTable /\ TasksCalm
<1>1. [task[s] EXCEPT !.pc = x] \in TaskRow
  BY LiveRow, TaskUpdates
<1>2. task' \in TaskTable
  BY <1>1 DEF GoTo, TypeOK, TaskTable
<1>3. TasksCalm
  BY IdleRow, LiveRow DEF GoTo, TypeOK, TasksCalm, TaskRow, TaskStep
<1> QED BY <1>2, <1>3

LEMMA FailCalm ==
  ASSUME TypeOK, NEW s \in Slot, task[s].pc # "idle", NEW e \in TaskError, Fail(s, e)
  PROVE  task' \in TaskTable /\ TasksCalm
<1> DEFINE x == IF e = "busy" THEN "defer" ELSE "record"
<1>1. [task[s] EXCEPT !.err = e, !.pc = x] \in TaskRow
  BY LiveRow, TaskUpdates DEF TaskStep
<1>2. task' = [task EXCEPT ![s] = [task[s] EXCEPT !.err = e, !.pc = x]]
  BY DEF Fail, TypeOK
<1>3. task' \in TaskTable
  BY <1>1, <1>2 DEF TypeOK, TaskTable
<1>4. TasksCalm
  BY <1>2, IdleRow, LiveRow DEF TypeOK, TasksCalm, TaskRow, TaskStep
<1> QED BY <1>3, <1>4

LEMMA EndCalm ==
  ASSUME TypeOK, NEW s \in Slot, task' = [task EXCEPT ![s] = Idle]
  PROVE  task' \in TaskTable /\ TasksCalm
BY IdleRow DEF TypeOK, TasksCalm, TaskTable

-----------------------------------------------------------------------------
(* The inductive invariant.  Only Claim and Restart make a lease or take one *)
(* from another process; every other step is calm: rows stay leased as they  *)
(* were or end up settled, tasks keep their attempt or end.                  *)

Safe == /\ TypeOK /\ LeasesAreOurs /\ OneCollectionPerDsp
        /\ HolderIsNewest /\ WaitingHasAttempts

Settled(row) == /\ row.st \notin LeasedStatus
                /\ row.owner = NoOwner /\ row.lease = "none"
                /\ row.st \in {"queued", "delayed"} => row.att < MaxAttempts

RowsCalm ==
    \A j \in Job : \/ Settled(job'[j])
                   \/ /\ j \in Leased /\ job'[j].st \in LeasedStatus
                      /\ job'[j].att = job[j].att /\ job'[j].owner = job[j].owner
                      /\ job'[j].lease # "none"

LEMMA CalmIsSafe ==
  ASSUME Safe, TypeOK', RowsCalm, TasksCalm, worker' = worker
  PROVE  Safe'
<1> USE DEF Safe
<1>1. \A j \in Job : j \in Leased' <=> job'[j].st \in LeasedStatus
  BY DEF Leased
<1>2. \A j \in Leased' : /\ j \in Leased /\ job'[j].att = job[j].att
                         /\ job'[j].owner = job[j].owner /\ job'[j].lease # "none"
  BY <1>1 DEF RowsCalm, Settled, Leased
<1>3. \A s \in Live' : /\ s \in Live /\ task'[s].job = task[s].job
                       /\ task'[s].att = task[s].att
  BY DEF Live, TasksCalm, Idle
<1>4. LeasesAreOurs'
  <2> SUFFICES ASSUME NEW j \in Job
               PROVE  /\ j \in Leased' <=> job'[j].owner # NoOwner
                      /\ j \in Leased' <=> job'[j].lease # "none"
                      /\ j \in Leased' => job'[j].owner = worker'
    BY DEF LeasesAreOurs, NoOwner
  <2>1. CASE j \in Leased'
    BY <2>1, <1>2 DEF LeasesAreOurs
  <2>2. CASE j \notin Leased'
    BY <2>2, <1>1 DEF RowsCalm, Settled
  <2> QED BY <2>1, <2>2
<1>5. OneCollectionPerDsp'
  <2>1. \A j, k \in Leased' : Owner(j) = Owner(k) => j = k
    BY <1>2 DEF OneCollectionPerDsp
  <2>2. \A s, t \in Live' : Owner(task'[s].job) = Owner(task'[t].job) => s = t
    BY <1>3 DEF OneCollectionPerDsp
  <2> QED BY <2>1, <2>2 DEF OneCollectionPerDsp, Owner
<1>6. HolderIsNewest'
  <2> SUFFICES ASSUME NEW s \in Live', Held(task[s].job)'
               PROVE  task'[s].att = job'[task'[s].job].att
    BY DEF HolderIsNewest
  <2>1. s \in Slot /\ task'[s].job \in Job
    BY <1>3, LiveRow DEF Live
  <2>2. task'[s].job \in Leased'
    BY <2>1, <1>1 DEF Held
  <2>3. Held(task[s].job)
    BY <1>2, <1>3, <2>2 DEF Held, Leased
  <2> QED BY <2>2, <2>3, <1>2, <1>3 DEF HolderIsNewest
<1>7. WaitingHasAttempts'
  <2> SUFFICES ASSUME NEW j \in Job
               PROVE  /\ job'[j].st \in {"queued", "delayed"} => job'[j].att < MaxAttempts
                      /\ j \in Leased' => job'[j].att \in 1 .. MaxAttempts
    BY DEF WaitingHasAttempts
  <2>1. CASE j \in Leased'
    BY <2>1, <1>1, <1>2 DEF WaitingHasAttempts, LeasedStatus
  <2>2. CASE j \notin Leased'
    BY <2>2, <1>1 DEF RowsCalm, Settled
  <2> QED BY <2>1, <2>2
<1> QED BY <1>4, <1>5, <1>6, <1>7

\* A row that stays is calm.
LEMMA RowStays ==
  ASSUME Safe, NEW j \in Job
  PROVE  \/ Settled(job[j])
         \/ j \in Leased /\ job[j].st \in LeasedStatus /\ job[j].lease # "none"
<1>1. CASE job[j].st \in LeasedStatus
  BY <1>1 DEF Safe, Leased, LeasesAreOurs
<1>2. CASE job[j].st \notin LeasedStatus
  BY <1>2 DEF Safe, Settled, Leased, LeasesAreOurs, WaitingHasAttempts
<1> QED BY <1>1, <1>2

LEMMA RowsStay == ASSUME Safe, job' = job PROVE RowsCalm
BY RowStays DEF RowsCalm

\* One row changes, to a settled or a still leased one.
LEMMA OneRowCalm ==
  ASSUME Safe, NEW j \in Job, NEW row \in JobRow, job' = [job EXCEPT ![j] = row],
         \/ Settled(row)
         \/ /\ j \in Leased /\ row.st \in LeasedStatus
            /\ row.att = job[j].att /\ row.owner = job[j].owner /\ row.lease # "none"
  PROVE  RowsCalm /\ job' \in [Job -> JobRow]
<1>1. \A k \in Job : job'[k] = IF k = j THEN row ELSE job[k]
  BY DEF Safe, TypeOK
<1>2. RowsCalm
  BY <1>1, RowStays DEF RowsCalm
<1> QED BY <1>2 DEF Safe, TypeOK

Calm == TypeOK' /\ RowsCalm /\ TasksCalm /\ worker' = worker

\* Steps that leave the jobs table alone.
LEMMA NoRowCalm ==
  ASSUME Safe, job' = job, task' \in TaskTable, TasksCalm,
         UNCHANGED <<conn, dsp, changing, blocked, later, published, worker, phase>>,
         detached' \in SUBSET Closure
  PROVE  Calm
BY RowsStay DEF Safe, Calm, TypeOK, TaskTable

LEMMA RequestsCalm ==
  ASSUME Safe, Requests
  PROVE  Calm
<1> USE DEF Safe
<1>1. ASSUME NEW d \in Dsp, NEW actor \in BOOLEAN, NEW batch \in SUBSET JobsOf(d),
             Enqueue(d, actor, batch)
      PROVE  Calm
  <2> DEFINE row(j) == [st |-> "queued", att |-> 0, owner |-> NoOwner, lease |-> "none",
                        rev |-> conn[ConnOf[j]].rev, actor |-> actor]
             missing == {j \in batch : job[j].st = "absent"}
  <2>1. job' = [j \in Job |-> IF j \in missing THEN row(j) ELSE job[j]]
    BY <1>1 DEF Enqueue
  <2>2. \A j \in Job : row(j) \in JobRow /\ Settled(row(j))
    <3> SUFFICES ASSUME NEW j \in Job PROVE row(j) \in JobRow /\ Settled(row(j))
      OBVIOUS
    <3>1. conn[ConnOf[j]].rev \in 0 .. MaxRev
      BY MapAssumption DEF TypeOK
    <3>3. 0 \in 0 .. MaxAttempts /\ 0 \in 0 .. MaxWorker /\ 0 < MaxAttempts
      BY LimitAssumption
    <3>4. row(j) \in JobRow
      BY <3>1, <3>3 DEF JobRow, ActiveStatus, NoOwner
    <3>5. Settled(row(j))
      BY <3>3 DEF Settled, LeasedStatus, NoOwner
    <3> QED BY <3>4, <3>5
  <2> HIDE DEF row
  <2>3. job' \in [Job -> JobRow] /\ RowsCalm
    BY <2>1, <2>2, RowStays DEF RowsCalm, TypeOK
  <2> QED BY <2>3, <1>1, TasksStay DEF Calm, Enqueue, TypeOK, TaskTable
<1>2. ASSUME NEW which \in SUBSET Job, CancelJobs(which)
      PROVE  job' \in [Job -> JobRow] /\ RowsCalm /\ later' \in SUBSET (Dsp \X Dsp)
  <2>1. \A j \in Job : /\ [Unleased(job[j]) EXCEPT !.st = "cancelled"] \in JobRow
                       /\ Settled([Unleased(job[j]) EXCEPT !.st = "cancelled"])
    <3> SUFFICES ASSUME NEW j \in Job
                 PROVE  /\ [Unleased(job[j]) EXCEPT !.st = "cancelled"] \in JobRow
                        /\ Settled([Unleased(job[j]) EXCEPT !.st = "cancelled"])
      OBVIOUS
    <3>1. job[j] \in JobRow
      BY DEF TypeOK
    <3>2. Unleased(job[j]) \in JobRow
      BY <3>1, RowUpdates
    <3>3. [Unleased(job[j]) EXCEPT !.st = "cancelled"] \in JobRow
      BY <3>1, RowUpdates DEF FinalStatus
    <3>4. Unleased(job[j]).owner = NoOwner /\ Unleased(job[j]).lease = "none"
      BY <3>1 DEF Unleased, JobRow
    <3> QED BY <3>2, <3>3, <3>4 DEF Settled, JobRow, LeasedStatus
  <2>2. job' \in [Job -> JobRow] /\ RowsCalm
    BY <1>2, <2>1, RowStays DEF CancelJobs, Cancellable, RowsCalm, TypeOK
  <2>3. later' \in SUBSET (Dsp \X Dsp)
    BY <1>2, Operators DEF CancelJobs, Cancellable
  <2> QED BY <2>2, <2>3
<1>3. ASSUME NEW j \in Job, Cancel(j) PROVE Calm
  <2>1. job' \in [Job -> JobRow] /\ RowsCalm /\ later' \in SUBSET (Dsp \X Dsp)
    BY <1>2, <1>3 DEF Cancel
  <2> QED BY <2>1, <1>3, TasksStay DEF Calm, Cancel, TypeOK, TaskTable
<1>4. ASSUME NEW d \in Dsp, NEW on \in BOOLEAN, NEW partial \in BOOLEAN,
             SetServes(d, on, partial)
      PROVE  Calm
  <2>1. job' \in [Job -> JobRow] /\ RowsCalm /\ later' \in SUBSET (Dsp \X Dsp)
    <3>1. CASE on \/ partial
      BY <1>4, <3>1, RowsStay DEF SetServes, TypeOK
    <3>2. CASE ~(on \/ partial)
      BY <1>2, <1>4, <3>2 DEF SetServes, JobsOf
    <3> QED BY <3>1, <3>2
  <2>2. dsp' \in [Dsp -> [serves : BOOLEAN, grant : BOOLEAN]]
    BY <1>4 DEF SetServes, TypeOK
  <2> QED BY <2>1, <2>2, <1>4, TasksStay DEF Calm, SetServes, TypeOK, TaskTable
<1>5. ASSUME NEW d \in Dsp, NEW on \in BOOLEAN, SetGrant(d, on) PROVE Calm
  <2>1. dsp' \in [Dsp -> [serves : BOOLEAN, grant : BOOLEAN]]
    BY <1>5 DEF SetGrant, TypeOK
  <2> QED BY <2>1, <1>5, TasksStay, RowsStay DEF Calm, SetGrant, TypeOK, TaskTable
<1>6. ASSUME NEW c \in Conn, StopConnection(c) PROVE Calm
  <2>1. job' \in [Job -> JobRow] /\ RowsCalm /\ later' \in SUBSET (Dsp \X Dsp)
    BY <1>2, <1>6 DEF StopConnection
  <2> QED BY <2>1, <1>6, TasksStay DEF Calm, StopConnection, TypeOK, TaskTable
<1>7. ASSUME NEW c \in Conn, AbandonConnection(c) PROVE Calm
  BY <1>7, TasksStay, RowsStay DEF Calm, AbandonConnection, TypeOK, TaskTable
<1>8. ASSUME NEW c \in Conn, NEW enabled \in BOOLEAN, SaveConnection(c, enabled) PROVE Calm
  <2>1. conn' \in [Conn -> [enabled : BOOLEAN, rev : 0 .. MaxRev]]
    BY <1>8, LimitAssumption DEF SaveConnection, TypeOK
  <2> QED BY <2>1, <1>8, TasksStay, RowsStay DEF Calm, SaveConnection, TypeOK, TaskTable
<1> QED BY <1>1, <1>3, <1>4, <1>5, <1>6, <1>7, <1>8 DEF Requests

\* A row that stops, or stays leased under another status or lease, is calm.
LEMMA StopRow ==
  ASSUME Safe, NEW j \in Job, NEW x \in FinalStatus \cup {"queued", "delayed"},
         NEW a \in 0 .. MaxAttempts, x \in {"queued", "delayed"} => a < MaxAttempts,
         job' = [job EXCEPT ![j] = [Unleased(job[j]) EXCEPT !.st = x, !.att = a]]
  PROVE  RowsCalm /\ job' \in [Job -> JobRow]
<1> DEFINE r == Unleased(job[j])
<1>1. job[j] \in JobRow
  BY DEF Safe, TypeOK
<1>2. r \in JobRow /\ [r EXCEPT !.st = x] \in JobRow
  BY <1>1, RowUpdates DEF ActiveStatus
<1>3. r.owner = NoOwner /\ r.lease = "none"
  BY <1>1 DEF Unleased, JobRow
<1> HIDE DEF r
<1>4. [r EXCEPT !.st = x, !.att = a] = [[r EXCEPT !.st = x] EXCEPT !.att = a]
  BY <1>2 DEF JobRow
<1>5. \A row \in JobRow : [row EXCEPT !.att = a] \in JobRow
  BY DEF JobRow
<1>6. [r EXCEPT !.st = x, !.att = a] \in JobRow
  BY <1>2, <1>4, <1>5
<1>7. Settled([r EXCEPT !.st = x, !.att = a])
  BY <1>2, <1>3 DEF Settled, JobRow, LeasedStatus, FinalStatus
<1> QED BY <1>6, <1>7, OneRowCalm DEF r

LEMMA SameAttempt ==
  ASSUME Safe, NEW j \in Job, NEW x
  PROVE  [Unleased(job[j]) EXCEPT !.st = x] =
         [Unleased(job[j]) EXCEPT !.st = x, !.att = job[j].att]
BY DEF Safe, TypeOK, Unleased, JobRow

LEMMA KeepRow ==
  ASSUME Safe, NEW j \in Job, j \in Leased, NEW x \in LeasedStatus,
         job' = [job EXCEPT ![j].st = x]
  PROVE  RowsCalm /\ job' \in [Job -> JobRow]
<1>1. job[j] \in JobRow
  BY DEF Safe, TypeOK
<1>2. [job[j] EXCEPT !.st = x] \in JobRow
  BY <1>1, RowUpdates DEF ActiveStatus
<1>3. job[j].lease # "none"
  BY DEF Safe, LeasesAreOurs
<1>4. job' = [job EXCEPT ![j] = [job[j] EXCEPT !.st = x]]
  BY DEF Safe, TypeOK
<1> QED BY <1>1, <1>2, <1>3, <1>4, OneRowCalm DEF JobRow

LEMMA HeldIsLeased == ASSUME NEW j \in Job PROVE Held(j) => j \in Leased
BY DEF Held, Leased

LEMMA LeasedHasAttempt ==
  ASSUME Safe, NEW j \in Leased PROVE job[j].att \in 1 .. MaxAttempts
BY DEF Safe, WaitingHasAttempts, Leased

LEMMA OpenedCalm ==
  ASSUME TypeOK, NEW s \in Slot, task[s].pc # "idle", NEW x \in TaskStep,
         NEW r \in 0 .. MaxRev, task' = [task EXCEPT ![s].sess = r, ![s].pc = x]
  PROVE  task' \in TaskTable /\ TasksCalm
<1>1. [task[s] EXCEPT !.sess = r, !.pc = x] \in TaskRow
  BY LiveRow, TaskUpdates
<1>2. task' = [task EXCEPT ![s] = [task[s] EXCEPT !.sess = r, !.pc = x]]
  BY DEF TypeOK
<1>3. task' \in TaskTable
  BY <1>1, <1>2 DEF TypeOK, TaskTable
<1>4. TasksCalm
  BY <1>2, IdleRow, LiveRow DEF TypeOK, TasksCalm, TaskRow, TaskStep
<1> QED BY <1>3, <1>4

LEMMA PublishCalm ==
  ASSUME Safe, NEW j \in Job, Guard(j), PublishAndFinish(j)
  PROVE  /\ RowsCalm /\ job' \in [Job -> JobRow]
         /\ later' \in SUBSET (Dsp \X Dsp) /\ published' \in SUBSET Job
<1>1. j \in Leased
  BY HeldIsLeased DEF Guard
<1>2. job' = [job EXCEPT ![j] = [Unleased(job[j]) EXCEPT !.st = "succeeded", !.att = job[j].att]]
  BY SameAttempt DEF PublishAndFinish
<1>3. job[j].att \in 0 .. MaxAttempts
  BY <1>1, LeasedHasAttempt
<1>4. RowsCalm /\ job' \in [Job -> JobRow]
  <2> DEFINE x == "succeeded"
  <2>1. /\ x \in FinalStatus \cup {"queued", "delayed"}
        /\ x \in {"queued", "delayed"} => job[j].att < MaxAttempts
    BY DEF FinalStatus
  <2>2. job' = [job EXCEPT ![j] = [Unleased(job[j]) EXCEPT !.st = x, !.att = job[j].att]]
    BY <1>2
  <2> HIDE DEF x
  <2> QED BY <1>3, <2>1, <2>2, StopRow
<1>5. later' \in SUBSET (Dsp \X Dsp)
  <2>1. {Owner(j)} \in SUBSET Dsp
    BY Operators DEF Safe
  <2> QED BY <2>1, Operators DEF PublishAndFinish, Safe
<1>6. published' \in SUBSET Job
  BY DEF PublishAndFinish, Safe, TypeOK
<1> QED BY <1>4, <1>5, <1>6

LEMMA GuardErrorType == \A j \in Job : GuardError(j) \in TaskError
BY DEF GuardError, TaskError

LEMMA ExecutorCalm ==
  ASSUME Safe, NEW s \in Slot, Executor(s)
  PROVE  Calm
<1> DEFINE j == task[s].job
<1> USE DEF Safe
<1>0. ASSUME task[s].pc # "idle"
      PROVE  /\ j \in Job /\ task[s].att \in 1 .. MaxAttempts /\ GuardError(j) \in TaskError
             /\ ConnOf[j] \in Conn
  BY <1>0, LiveRow, GuardErrorType, MapAssumption
<1>1. CASE CheckStart(s)
  <2>1. task' \in TaskTable /\ TasksCalm
    BY <1>0, <1>1, GoToCalm, FailCalm DEF CheckStart, TaskStep
  <2> QED BY <2>1, <1>1, NoRowCalm DEF CheckStart, TypeOK
<1>2. CASE OpenBrowser(s)
  <2>1. conn[ConnOf[j]].rev \in 0 .. MaxRev
    BY <1>0, <1>2 DEF OpenBrowser, TypeOK
  <2>2. task' \in TaskTable /\ TasksCalm
    <3>1. ASSUME NEW x \in {"begin", "verify"},
                 task' = [task EXCEPT ![s].sess = conn[ConnOf[j]].rev, ![s].pc = x]
          PROVE  task' \in TaskTable /\ TasksCalm
      BY <2>1, <1>2, <3>1, OpenedCalm DEF OpenBrowser, TaskStep
    <3>2. ASSUME NEW e \in TaskError, Fail(s, e) PROVE task' \in TaskTable /\ TasksCalm
      BY <1>2, <3>2, FailCalm DEF OpenBrowser
    <3> QED BY <1>2, <3>1, <3>2 DEF OpenBrowser, TaskError
  <2> QED BY <2>2, <1>2, NoRowCalm DEF OpenBrowser, TypeOK
<1>3. CASE MarkWaiting(s)
  <2>1. RowsCalm /\ job' \in [Job -> JobRow]
    BY <1>0, <1>3, KeepRow, RowsStay, HeldIsLeased DEF MarkWaiting, LeasedStatus, TypeOK
  <2>2. task' \in TaskTable /\ TasksCalm
    BY <1>0, <1>3, GoToCalm, FailCalm DEF MarkWaiting, TaskStep, TaskError
  <2> QED BY <2>1, <2>2, <1>3 DEF MarkWaiting, Calm, TypeOK, TaskTable
<1>4. CASE AwaitOwner(s)
  <2>1. task' \in TaskTable /\ TasksCalm
    BY <1>0, <1>4, GoToCalm, FailCalm DEF AwaitOwner, TaskStep, TaskError
  <2> QED BY <2>1, <1>4, NoRowCalm DEF AwaitOwner, TypeOK
<1>5. CASE Begin(s)
  <2>1. RowsCalm /\ job' \in [Job -> JobRow]
    BY <1>0, <1>5, KeepRow, RowsStay, HeldIsLeased DEF Begin, Guard, LeasedStatus, TypeOK
  <2>2. task' \in TaskTable /\ TasksCalm
    BY <1>0, <1>5, GoToCalm, FailCalm DEF Begin, TaskStep
  <2> QED BY <2>1, <2>2, <1>5 DEF Begin, Calm, TypeOK, TaskTable
<1>6. CASE Collect(s)
  <2>1. task' \in TaskTable /\ TasksCalm
    BY <1>0, <1>6, GoToCalm, FailCalm DEF Collect, TaskStep, TaskError
  <2> QED BY <2>1, <1>6, NoRowCalm DEF Collect, TypeOK
<1>7. CASE Publish(s)
  <2>0. j \in Job /\ task[s].pc # "idle"
    BY <1>0, <1>7 DEF Publish
  <2>1. CASE Guard(j) /\ PublishAndFinish(j) /\ GoTo(s, "completed")
    <3>1. /\ RowsCalm /\ job' \in [Job -> JobRow]
          /\ later' \in SUBSET (Dsp \X Dsp) /\ published' \in SUBSET Job
      BY <2>0, <2>1, PublishCalm
    <3>2. task' \in TaskTable /\ TasksCalm
      BY <2>0, <2>1, GoToCalm DEF TaskStep
    <3> QED BY <3>1, <3>2, <1>7 DEF Publish, Calm, TypeOK, TaskTable
  <2>2. CASE /\ \E e \in TaskError : Fail(s, e)
             /\ UNCHANGED <<job, later, published>>
    <3>1. task' \in TaskTable /\ TasksCalm
      BY <2>0, <2>2, FailCalm
    <3> QED BY <3>1, <2>2, <1>7, NoRowCalm DEF Publish, TypeOK
  <2>3. CASE PublishOnly(j) /\ Fail(s, "fatal")
    <3>1. task' \in TaskTable /\ TasksCalm
      BY <2>0, <2>3, FailCalm DEF TaskError
    <3>2. RowsCalm
      BY <2>3, RowsStay DEF PublishOnly
    <3> QED BY <3>1, <3>2, <2>0, <2>3, <1>7 DEF Publish, PublishOnly, Calm, TypeOK, TaskTable
  <2> QED BY <1>0, <2>0, <2>1, <2>2, <2>3, <1>7 DEF Publish, TaskError
<1>8. CASE Heartbeat(s)
  <2>0. task[s].pc # "idle"
    BY <1>8 DEF Heartbeat, TaskStep
  <2>1. task' \in TaskTable /\ TasksCalm
    BY <1>0, <2>0, <1>8, FailCalm DEF Heartbeat, TaskError
  <2>2. detached' \in SUBSET Closure
    BY <1>0, <2>0, <1>8 DEF Heartbeat, TypeOK, Closure
  <2> QED BY <2>1, <2>2, <1>8, NoRowCalm DEF Heartbeat
<1>9. CASE Defer(s)
  <2>0. j \in Job /\ task[s].pc # "idle"
    BY <1>0, <1>9 DEF Defer
  <2>1. RowsCalm /\ job' \in [Job -> JobRow]
    <3>1. CASE job' = job
      BY <3>1, RowsStay DEF TypeOK
    <3>2. CASE job' # job
      <4>1. /\ job[j].st = "running"
            /\ job' = [job EXCEPT ![j] = [Unleased(job[j]) EXCEPT !.st = "delayed", !.att = job[j].att - 1]]
        BY <1>9, <3>2 DEF Defer, Deferred
      <4>2. j \in Leased /\ job[j].att \in 1 .. MaxAttempts
        BY <2>0, <4>1, LeasedHasAttempt DEF Leased, LeasedStatus
      <4>3. job[j].att - 1 \in 0 .. MaxAttempts /\ job[j].att - 1 < MaxAttempts
        BY <4>2, LimitAssumption
      <4> DEFINE a == job[j].att - 1
      <4>4. a \in 0 .. MaxAttempts /\ a < MaxAttempts
        BY <4>3
      <4>5. job' = [job EXCEPT ![j] = [Unleased(job[j]) EXCEPT !.st = "delayed", !.att = a]]
        BY <4>1
      <4> HIDE DEF a, j
      <4> QED BY <2>0, <4>4, <4>5, StopRow
    <3> QED BY <3>1, <3>2
  <2>2. task' \in TaskTable /\ TasksCalm
    BY <2>0, <1>9, GoToCalm, EndCalm DEF Defer, TaskStep
  <2> QED BY <2>1, <2>2, <1>9 DEF Defer, Calm, TypeOK, TaskTable
<1>10. CASE Record(s)
  <2>0. j \in Job /\ task[s].pc # "idle"
    BY <1>0, <1>10 DEF Record
  <2>1. RowsCalm /\ job' \in [Job -> JobRow]
    <3>1. CASE ~Held(j)
      <4>1. job' = job
        BY <2>0, <3>1, <1>10 DEF Record, TypeOK
      <4> QED BY <4>1, RowsStay DEF TypeOK
    <3>2. CASE Held(j)
      <4> DEFINE retry == task[s].err = "retryable" /\ job[j].att < MaxAttempts
                 x == IF retry THEN "delayed" ELSE "failed"
      <4>1. job' = [job EXCEPT ![j] = [Unleased(job[j]) EXCEPT !.st = x]]
        BY <3>2, <1>10 DEF Record, Finished
      <4>2. job' = [job EXCEPT ![j] = [Unleased(job[j]) EXCEPT !.st = x, !.att = job[j].att]]
        BY <4>1, <2>0, SameAttempt
      <4>3. job[j].att \in 0 .. MaxAttempts
        BY <2>0, <3>2, HeldIsLeased, LeasedHasAttempt
      <4>4. /\ x \in FinalStatus \cup {"queued", "delayed"}
            /\ (x \in {"queued", "delayed"} => job[j].att < MaxAttempts)
        BY DEF FinalStatus
      <4> HIDE DEF x
      <4> QED BY <2>0, <4>2, <4>3, <4>4, StopRow
    <3> QED BY <3>1, <3>2
  <2>2. task' \in TaskTable /\ TasksCalm
    BY <2>0, <1>10, EndCalm DEF Record
  <2>3. later' \in SUBSET (Dsp \X Dsp)
    <3>1. Completed({}) \in SUBSET (Dsp \X Dsp) /\ Completed({Owner(j)}) \in SUBSET (Dsp \X Dsp)
      BY <2>0, Operators
    <3> QED BY <3>1, <1>10 DEF Record
  <2> QED BY <2>1, <2>2, <2>3, <1>10 DEF Record, Calm, TypeOK, TaskTable
<1>11. CASE Complete(s)
  <2>1. task' \in TaskTable /\ TasksCalm
    BY <1>11, EndCalm DEF Complete
  <2> QED BY <2>1, <1>11, NoRowCalm DEF Complete, TypeOK
<1>12. CASE Unrecorded(s)
  <2>1. task' \in TaskTable /\ TasksCalm
    BY <1>12, EndCalm DEF Unrecorded
  <2> QED BY <2>1, <1>12, NoRowCalm DEF Unrecorded, TypeOK
<1> QED
  BY <1>1, <1>2, <1>3, <1>4, <1>5, <1>6, <1>7, <1>8, <1>9, <1>10, <1>11, <1>12, Zenon
  DEF Executor

LEMMA ScheduledCalm ==
  ASSUME Safe, NEW j \in Job, LeaseLapses(j) \/ Due(j)
  PROVE  Calm
<1> USE DEF Safe
<1>1. job[j] \in JobRow
  BY DEF TypeOK
<1>2. CASE LeaseLapses(j)
  <2>1. [job[j] EXCEPT !.lease = "lapsed"] \in JobRow
    BY <1>1 DEF JobRow
  <2>2. j \in Leased
    BY <1>2 DEF LeaseLapses, LeasesAreOurs
  <2>3. RowsCalm /\ job' \in [Job -> JobRow]
    BY <1>1, <1>2, <2>1, <2>2, OneRowCalm DEF LeaseLapses, Leased, JobRow, TypeOK
  <2> QED BY <2>3, <1>2, TasksStay DEF LeaseLapses, Calm, TypeOK, TaskTable
<1>3. CASE Due(j)
  <2>1. [job[j] EXCEPT !.st = "queued"] \in JobRow
    BY <1>1, RowUpdates DEF ActiveStatus
  <2>2. Settled([job[j] EXCEPT !.st = "queued"])
    BY <1>1, <1>3, RowStays DEF Due, Settled, JobRow, LeasedStatus
  <2>3. RowsCalm /\ job' \in [Job -> JobRow]
    BY <1>3, <2>1, <2>2, OneRowCalm DEF Due, TypeOK
  <2> QED BY <2>3, <1>3, TasksStay DEF Due, Calm, TypeOK, TaskTable
<1> QED BY <1>2, <1>3

\* Recovery settles what it takes.
LEMMA RecoveredRows ==
  ASSUME Safe, NEW lost \in SUBSET Leased
  PROVE  /\ Recovered(lost) \in [Job -> JobRow]
         /\ \A j \in lost : Settled(Recovered(lost)[j])
         /\ \A j \in Job \ lost : Recovered(lost)[j] = job[j]
         /\ Completed(Ended(lost)) \in SUBSET (Dsp \X Dsp)
<1> USE DEF Safe
<1>1. lost \in SUBSET Job
  BY DEF Leased
<1>2. Ended(lost) \in SUBSET Dsp
  BY <1>1, Operators DEF Ended
<1>3. ASSUME NEW j \in lost PROVE Settled(Recovered(lost)[j])
  <2>1. job[j] \in JobRow /\ job[j].att \in 0 .. MaxAttempts
    BY <1>1 DEF TypeOK, JobRow
  <2>2. /\ Unleased(job[j]).owner = NoOwner /\ Unleased(job[j]).lease = "none"
        /\ Unleased(job[j]).att = job[j].att /\ Unleased(job[j]) \in JobRow
    BY <2>1, RowUpdates DEF Unleased, JobRow
  <2>3. Recovered(lost)[j] = [Unleased(job[j]) EXCEPT !.st =
            IF job[j].att >= MaxAttempts THEN "failed" ELSE "queued"]
    BY <1>1 DEF Recovered
  <2> QED BY <2>1, <2>2, <2>3, LimitAssumption DEF Settled, JobRow, LeasedStatus
<1> QED BY <1>1, <1>2, <1>3, Operators DEF Recovered

LEMMA SchedulerCalm ==
  ASSUME Safe, RecoverExpired \/ \E d \in Dsp : PoolChanges(d)
  PROVE  Calm
<1> USE DEF Safe
<1>1. CASE RecoverExpired
  <2> DEFINE lost == Expired
  <2>1. /\ job' \in [Job -> JobRow] /\ later' \in SUBSET (Dsp \X Dsp)
        /\ \A j \in lost : Settled(job'[j])
        /\ \A j \in Job \ lost : job'[j] = job[j]
    BY <1>1, RecoveredRows DEF RecoverExpired, Expired
  <2>2. RowsCalm
    BY <2>1, RowStays DEF RowsCalm
  <2> QED BY <2>1, <2>2, <1>1, TasksStay DEF RecoverExpired, Calm, TypeOK, TaskTable
<1>2. ASSUME NEW d \in Dsp, PoolChanges(d) PROVE Calm
  <2>1. blocked' \in SUBSET Dsp
    BY <1>2 DEF PoolChanges, TypeOK
  <2> QED BY <2>1, <1>2, TasksStay, RowsStay DEF PoolChanges, Calm, TypeOK, TaskTable
<1> QED BY <1>1, <1>2

LEMMA ProcessCalm ==
  ASSUME Safe, Stop \/ \E c \in detached : RunDetached(c)
  PROVE  Calm
<1> USE DEF Safe
<1>1. CASE Stop
  BY <1>1, TasksStay, RowsStay DEF Stop, Calm, TypeOK, TaskTable
<1>2. ASSUME NEW c \in detached, RunDetached(c) PROVE Calm
  <2>0. c.job \in Job
    BY DEF TypeOK, Closure
  <2>1. CASE Guard(c.job) /\ PublishAndFinish(c.job)
    <3>1. /\ RowsCalm /\ job' \in [Job -> JobRow]
          /\ later' \in SUBSET (Dsp \X Dsp) /\ published' \in SUBSET Job
      BY <2>0, <2>1, PublishCalm
    <3> QED BY <3>1, <1>2, TasksStay DEF RunDetached, Calm, TypeOK, TaskTable
  <2>2. CASE UNCHANGED <<job, later, published>>
    BY <2>2, <1>2, TasksStay, RowsStay DEF RunDetached, Calm, TypeOK, TaskTable
  <2>3. CASE PublishOnly(c.job)
    BY <2>0, <2>3, <1>2, TasksStay, RowsStay
       DEF RunDetached, PublishOnly, Calm, TypeOK, TaskTable
  <2> QED BY <2>1, <2>2, <2>3, <1>2 DEF RunDetached
<1> QED BY <1>1, <1>2

-----------------------------------------------------------------------------
(* The two steps that are not calm.                                        *)

\* A claim finds the DSP without a lease and without a task.
LEMMA ClaimIsSafe ==
  ASSUME Safe, NEW s \in Slot, NEW j \in Job, Claim(s, j)
  PROVE  Safe'
<1> DEFINE a == job[j].att + 1
           row == [job[j] EXCEPT !.st = "running", !.att = a, !.owner = worker, !.lease = "live"]
           t == [pc |-> "guard", job |-> j, att |-> a, sess |-> 0, err |-> "none"]
<1> USE DEF Safe
<1>1. job[j] \in JobRow /\ job[j].st = "queued" /\ a \in 1 .. MaxAttempts /\ worker \in 1 .. MaxWorker
  BY LimitAssumption DEF Claim, Claimable, TypeOK, JobRow, WaitingHasAttempts
<1>2. /\ job' = [job EXCEPT ![j] = row] /\ task' = [task EXCEPT ![s] = t]
      /\ worker' = worker /\ task[s] = Idle
  BY DEF Claim, TypeOK
<1> HIDE DEF a
<1>3. /\ row.st = "running" /\ row.att = a /\ row.owner = worker /\ row.lease = "live"
      /\ row \in JobRow
  <2>1. a \in 0 .. MaxAttempts /\ worker \in 0 .. MaxWorker
    BY <1>1, LimitAssumption
  <2>2. \A r \in JobRow : /\ [r EXCEPT !.att = a] \in JobRow
                          /\ [r EXCEPT !.owner = worker] \in JobRow
                          /\ [r EXCEPT !.lease = "live"] \in JobRow
    BY <2>1 DEF JobRow
  <2>3. [job[j] EXCEPT !.st = "running"] \in JobRow
    BY <1>1, RowUpdates DEF ActiveStatus, LeasedStatus
  <2>4. row \in JobRow
    BY <2>2, <2>3
  <2> QED BY <2>4, <1>1 DEF JobRow
<1>4. t \in TaskRow
  BY <1>1, LimitAssumption DEF TaskRow, TaskStep
<1> HIDE DEF row, t
<1>5. \A k \in Job : job'[k] = IF k = j THEN row ELSE job[k]
  BY <1>2 DEF TypeOK
<1>6. \A r \in Slot : task'[r] = IF r = s THEN t ELSE task[r]
  BY <1>2 DEF TypeOK
<1>7. TypeOK'
  <2>1. job' \in [Job -> JobRow] /\ task' \in [Slot -> TaskRow \cup {Idle}]
    BY <1>2, <1>3, <1>4 DEF TypeOK
  <2> QED BY <2>1 DEF Claim, TypeOK
<1>8. Leased' = Leased \cup {j} /\ j \notin Leased
  BY <1>1, <1>3, <1>5 DEF Leased, LeasedStatus
<1>9. Live' = Live \cup {s} /\ s \notin Live /\ t.job = j /\ t.att = a
  BY <1>2, <1>6 DEF Live, Idle, t
<1>10. /\ \A k \in Leased : Owner(k) # Owner(j)
       /\ \A r \in Live : Owner(task[r].job) # Owner(j) /\ task[r].job # j
  BY DEF Claim, Claimable, JobsOf, RunningDsps, Leased
<1>11. LeasesAreOurs'
  <2> SUFFICES ASSUME NEW k \in Job
               PROVE  /\ k \in Leased' <=> job'[k].owner # NoOwner
                      /\ k \in Leased' <=> job'[k].lease # "none"
                      /\ k \in Leased' => job'[k].owner = worker'
    BY DEF LeasesAreOurs, NoOwner
  <2>1. CASE k = j
    BY <2>1, <1>1, <1>2, <1>3, <1>5, <1>8, LimitAssumption DEF NoOwner
  <2>2. CASE k # j
    BY <2>2, <1>2, <1>5, <1>8 DEF LeasesAreOurs
  <2> QED BY <2>1, <2>2
<1>12. OneCollectionPerDsp'
  <2>1. \A k, l \in Leased' : Owner(k) = Owner(l) => k = l
    BY <1>8, <1>10 DEF OneCollectionPerDsp
  <2>2. \A q, r \in Live' : Owner(task'[q].job) = Owner(task'[r].job) => q = r
    <3>1. \A r \in Live : task'[r].job = task[r].job /\ r # s
      BY <1>6, <1>9 DEF Live
    <3>2. task'[s].job = j
      BY <1>6, <1>9
    <3> QED BY <3>1, <3>2, <1>9, <1>10 DEF OneCollectionPerDsp
  <2> QED BY <2>1, <2>2 DEF OneCollectionPerDsp, Owner
<1>13. HolderIsNewest'
  <2> SUFFICES ASSUME NEW r \in Live', Held(task[r].job)'
               PROVE  task'[r].att = job'[task'[r].job].att
    BY DEF HolderIsNewest
  <2>1. CASE r = s
    BY <2>1, <1>3, <1>5, <1>6, <1>9
  <2>2. CASE r # s
    <3>1. r \in Live /\ task'[r] = task[r] /\ task[r].job \in Job /\ task[r].job # j
      BY <2>2, <1>6, <1>9, <1>10, LiveRow DEF Live
    <3>2. job'[task[r].job] = job[task[r].job]
      BY <3>1, <1>5
    <3> QED BY <3>1, <3>2, <1>2 DEF HolderIsNewest, Held
  <2> QED BY <2>1, <2>2
<1>14. WaitingHasAttempts'
  <2> SUFFICES ASSUME NEW k \in Job
               PROVE  /\ job'[k].st \in {"queued", "delayed"} => job'[k].att < MaxAttempts
                      /\ k \in Leased' => job'[k].att \in 1 .. MaxAttempts
    BY DEF WaitingHasAttempts
  <2>1. CASE k = j
    BY <2>1, <1>1, <1>3, <1>5
  <2>2. CASE k # j
    BY <2>2, <1>5, <1>8 DEF WaitingHasAttempts
  <2> QED BY <2>1, <2>2
<1> QED BY <1>7, <1>11, <1>12, <1>13, <1>14

\* A start takes every lease of the process before it and has no task.
LEMMA RestartIsSafe ==
  ASSUME Safe, NEW torn \in SUBSET Job, Restart(torn)
  PROVE  Safe'
<1> USE DEF Safe
<1>1. /\ Recovered(Leased) \in [Job -> JobRow]
      /\ Completed(Ended(Leased)) \in SUBSET (Dsp \X Dsp)
      /\ \A j \in Job : Settled(Recovered(Leased)[j])
  <2>1. \A j \in Job \ Leased : Settled(job[j])
    BY RowStays
  <2> QED BY <2>1, RecoveredRows
<1>2. \A s \in Slot : task'[s] = Idle
  BY DEF Restart
<1>3. \A j \in Job : Settled(job'[j])
  BY <1>1 DEF Restart, LostAtStart
<1>4. worker' \in 1 .. MaxWorker
  BY LimitAssumption DEF Restart, TypeOK
<1>5. TypeOK'
  BY <1>1, <1>4 DEF Restart, LostAtStart, TypeOK
<1>6. Leased' = {} /\ Live' = {}
  BY <1>2, <1>3 DEF Leased, Live, Settled, Idle
<1>7. LeasesAreOurs'
  BY <1>3, <1>6 DEF LeasesAreOurs, Settled, NoOwner
<1>8. OneCollectionPerDsp' /\ HolderIsNewest'
  BY <1>6 DEF OneCollectionPerDsp, HolderIsNewest
<1>9. WaitingHasAttempts'
  BY <1>3, <1>6 DEF WaitingHasAttempts, Settled
<1> QED BY <1>5, <1>7, <1>8, <1>9

-----------------------------------------------------------------------------
(* The theorems.                                                           *)

LEMMA InitIsSafe == Init => Safe
<1> SUFFICES ASSUME Init PROVE Safe
  OBVIOUS
<1>1. \A j \in Job : /\ job[j].st = "absent" /\ job[j].owner = NoOwner
                     /\ job[j].lease = "none"
  BY DEF Init, Absent
<1>2. Leased = {} /\ Live = {}
  BY <1>1 DEF Init, Leased, Live, LeasedStatus, Idle
<1>3. LeasesAreOurs /\ WaitingHasAttempts
  BY <1>1, <1>2 DEF LeasesAreOurs, WaitingHasAttempts
<1>4. OneCollectionPerDsp /\ HolderIsNewest
  BY <1>2 DEF OneCollectionPerDsp, HolderIsNewest
<1> QED BY <1>3, <1>4, TypeOKInit DEF Safe

LEMMA NextIsSafe == Safe /\ [Next]_vars => Safe'
<1> SUFFICES ASSUME Safe, [Next]_vars PROVE Safe'
  OBVIOUS
<1>1. ASSUME Calm PROVE Safe'
  BY <1>1, CalmIsSafe DEF Calm
<1>2. CASE Requests
  BY <1>1, <1>2, RequestsCalm
<1>3. CASE Scheduler
  <2>1. ASSUME NEW j \in Job, LeaseLapses(j) \/ Due(j) PROVE Calm
    BY <2>1, ScheduledCalm
  <2> QED BY <1>1, <1>3, <2>1, ClaimIsSafe, SchedulerCalm DEF Scheduler
<1>4. ASSUME NEW s \in Slot, Executor(s) PROVE Safe'
  BY <1>1, <1>4, ExecutorCalm
<1>5. CASE Process
  BY <1>1, <1>5, ProcessCalm, RestartIsSafe DEF Process
<1>6. CASE UNCHANGED vars
  BY <1>6 DEF vars, Safe, TypeOK, LeasesAreOurs, OneCollectionPerDsp, HolderIsNewest,
     WaitingHasAttempts, Leased, Live, Held
<1> QED BY <1>2, <1>3, <1>4, <1>5, <1>6 DEF Next

\* Every state of the queue satisfies the inductive invariant.
THEOREM AlwaysSafe == Spec => []Safe
<1>1. Init => Safe
  BY InitIsSafe
<1>2. Safe /\ [Next]_vars => Safe'
  BY NextIsSafe
<1> QED BY <1>1, <1>2, PTL DEF Spec

\* The rows of the jobs table, the tasks and the connections have their types; with it,
\* no attempt counter leaves 0 .. MaxAttempts (jobs/queue.rs).
THEOREM TypeCorrect == Spec => []TypeOK
<1>1. Safe => TypeOK
  BY DEF Safe
<1> QED BY <1>1, AlwaysSafe, PTL

\* Never two leases nor two executor tasks for one DSP, for any number of DSPs, jobs
\* and slots (CLAIMABLE and running_dsps).
THEOREM OneAtATime == Spec => []OneCollectionPerDsp
<1>1. Safe => OneCollectionPerDsp
  BY DEF Safe
<1> QED BY <1>1, AlwaysSafe, PTL

\* Leases belong to the process that runs, and only leased jobs have one.
THEOREM NoForeignLease == Spec => []LeasesAreOurs
<1>1. Safe => LeasesAreOurs
  BY DEF Safe
<1> QED BY <1>1, AlwaysSafe, PTL

\* A task whose job is held runs the job's current attempt, though finish and progress
\* compare the owner alone.
THEOREM HolderRunsNewestAttempt == Spec => []HolderIsNewest
<1>1. Safe => HolderIsNewest
  BY DEF Safe
<1> QED BY <1>1, AlwaysSafe, PTL

\* No job waits without an attempt left, whatever put it back.
THEOREM NoExhaustedWait == Spec => []WaitingHasAttempts
<1>1. Safe => WaitingHasAttempts
  BY DEF Safe
<1> QED BY <1>1, AlwaysSafe, PTL

-----------------------------------------------------------------------------
(* Leases and browsers.                                                    *)

LEMMA CalmLeases == ASSUME RowsCalm PROVE Leased' \subseteq Leased
BY DEF RowsCalm, Settled, Leased

LEMMA LeasesStayFit ==
  ASSUME Safe, LeasesFit, [Next]_vars
  PROVE  LeasesFit'
<1>1. IsFiniteSet(Leased) /\ Cardinality(Leased) \in Nat /\ Cardinality(Slot) \in Nat
  BY FiniteAssumption, FS_Subset, FS_CardinalityType DEF Leased
<1>2. ASSUME Leased' \subseteq Leased PROVE LeasesFit'
  <2>1. Cardinality(Leased') <= Cardinality(Leased)
    BY <1>1, <1>2, FS_Subset
  <2>2. Cardinality(Leased') \in Nat
    BY <1>1, <1>2, FS_Subset, FS_CardinalityType
  <2> QED BY <1>1, <2>1, <2>2 DEF LeasesFit
<1>3. ASSUME Calm PROVE LeasesFit'
  BY <1>2, <1>3, CalmLeases DEF Calm
<1>4. ASSUME NEW s \in Slot, NEW j \in Job, Claim(s, j) PROVE LeasesFit'
  <2>1. Leased' \subseteq Leased \cup {j}
    BY <1>4 DEF Leased, Claim, Safe, TypeOK
  <2>2. /\ Cardinality(Leased \cup {j}) <= Cardinality(Leased) + 1
        /\ IsFiniteSet(Leased \cup {j}) /\ Cardinality(Leased \cup {j}) \in Nat
    <3>1. /\ IsFiniteSet(Leased \cup {j})
          /\ Cardinality(Leased \cup {j}) = IF j \in Leased THEN Cardinality(Leased)
                                             ELSE Cardinality(Leased) + 1
      BY <1>1, FS_AddElement
    <3>2. Cardinality(Leased \cup {j}) \in Nat
      BY <3>1, FS_CardinalityType
    <3> QED BY <1>1, <3>1, <3>2
  <2>3. Cardinality(Leased') <= Cardinality(Leased \cup {j}) /\ Cardinality(Leased') \in Nat
    BY <2>1, <2>2, FS_Subset, FS_CardinalityType
  <2>4. Cardinality(Leased) < Cardinality(Slot)
    BY <1>4 DEF Claim, BelowCapacity
  <2> QED BY <1>1, <2>2, <2>3, <2>4 DEF LeasesFit
<1>5. ASSUME NEW torn \in SUBSET Job, Restart(torn) PROVE LeasesFit'
  <2>1. \A j \in Job : Settled(job'[j])
    BY <1>5, RowStays, RecoveredRows DEF Restart, LostAtStart
  <2>2. Leased' = {}
    BY <2>1 DEF Leased, Settled
  <2> QED BY <2>2, <1>2
<1>6. CASE Scheduler
  <2>1. ASSUME NEW j \in Job, LeaseLapses(j) \/ Due(j) PROVE Calm
    BY <2>1, ScheduledCalm
  <2> QED BY <1>3, <1>4, <1>6, <2>1, SchedulerCalm DEF Scheduler
<1>7. CASE UNCHANGED vars
  BY <1>7 DEF vars, LeasesFit, Leased
<1> QED BY <1>3, <1>5, <1>6, <1>7, RequestsCalm, ExecutorCalm, ProcessCalm DEF Next, Process

\* The leases, those whose tasks are gone included, never exceed the browsers: the
\* count in claim_job is enough without looking at the tasks.
THEOREM LeasesWithinCapacity == Spec => []LeasesFit
<1>1. Init => LeasesFit
  <2> SUFFICES ASSUME Init PROVE LeasesFit
    OBVIOUS
  <2>1. Leased = {}
    BY DEF Init, Leased, LeasedStatus, Absent
  <2> QED BY <2>1, FiniteAssumption, FS_EmptySet, FS_CardinalityType DEF LeasesFit
<1>2. Safe /\ LeasesFit /\ [Next]_vars => LeasesFit'
  BY LeasesStayFit
<1> QED BY <1>1, <1>2, AlwaysSafe, PTL DEF Spec

-----------------------------------------------------------------------------
(* Finished jobs.                                                          *)

LEMMA NoStepTouchesFinal ==
  ASSUME Safe, [Next]_vars, NEW j \in Job, job[j].st \in FinalStatus
  PROVE  job'[j] = job[j]
<1> USE DEF Safe, TypeOK
<1>1. j \notin Leased /\ job[j].st \notin {"absent", "queued", "delayed", "running", "waiting"}
  BY DEF Leased, LeasedStatus, FinalStatus
<1>2. ASSUME NEW which, CancelJobs(which) PROVE job'[j] = job[j]
  BY <1>1, <1>2 DEF CancelJobs, Cancellable, ActiveStatus, LeasedStatus
<1>3. CASE Requests
  BY <1>1, <1>2, <1>3 DEF Requests, Enqueue, Cancel, SetServes, SetGrant, StopConnection,
     SaveConnection, AbandonConnection
<1>4. CASE Scheduler
  <2>1. ASSUME NEW s \in Slot, NEW k \in Job, Claim(s, k) PROVE job'[j] = job[j]
    BY <1>1, <2>1 DEF Claim, Claimable
  <2>2. CASE RecoverExpired
    BY <1>1, <2>2 DEF RecoverExpired, Expired, Recovered
  <2>3. ASSUME NEW k \in Job, LeaseLapses(k) \/ Due(k) PROVE job'[j] = job[j]
    <3>1. job[j].lease = "none"
      BY <1>1 DEF LeasesAreOurs
    <3> QED BY <1>1, <2>3, <3>1 DEF LeaseLapses, Due
  <2> QED BY <1>4, <2>1, <2>2, <2>3 DEF Scheduler, PoolChanges
<1>5. \A k \in Job : Held(k) => k # j
  BY <1>1, HeldIsLeased
<1>6. ASSUME NEW s \in Slot, Executor(s) PROVE job'[j] = job[j]
  <2>1. CASE MarkWaiting(s)
    BY <1>5, <2>1 DEF MarkWaiting
  <2>2. CASE Begin(s)
    BY <1>5, <2>2 DEF Begin, Guard
  <2>3. CASE Publish(s)
    BY <1>5, <2>3 DEF Publish, Guard, PublishAndFinish, PublishOnly
  <2>4. CASE Defer(s)
    BY <1>1, <2>4 DEF Defer, Deferred
  <2>5. CASE Record(s)
    BY <1>5, <2>5 DEF Record
  <2> QED BY <1>6, <2>1, <2>2, <2>3, <2>4, <2>5 DEF Executor, CheckStart, OpenBrowser,
      AwaitOwner, Collect, Heartbeat, Complete, Unrecorded
<1>7. CASE Process
  <2>1. ASSUME NEW c \in detached, RunDetached(c) PROVE job'[j] = job[j]
    BY <1>5, <2>1 DEF RunDetached, Guard, PublishAndFinish, PublishOnly, Closure
  <2> QED BY <1>1, <1>7, <2>1 DEF Process, Stop, Restart, LostAtStart, Recovered
<1> QED BY <1>3, <1>4, <1>6, <1>7 DEF Next, vars

\* A finished job is never touched again.
THEOREM FinalForGood == Spec => FinalStays
<1>1. Safe /\ [Next]_vars => [\A j \in Job : job[j].st \in FinalStatus => job'[j] = job[j]]_vars
  BY NoStepTouchesFinal
<1> QED BY <1>1, AlwaysSafe, PTL DEF Spec, FinalStays
=============================================================================
