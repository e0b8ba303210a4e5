------------------------- MODULE JobQueueAuthority --------------------------
(***************************************************************************)
(* Data is published only under the authority of the moment, for every     *)
(* number of jobs, connections, slots and credential changes.              *)
(***************************************************************************)
EXTENDS JobQueueProofs

(* The guard of the publication closure compares the connection's revision   *)
(* with the job's; that the session's revision is the same one follows from  *)
(* the order in which the three are read, which the invariant states.        *)

WithSession == {"verify", "challenge", "begin", "collect", "publish"}

\* A job's revision is at most its session's, which is at most its connection's.
RevisionsInOrder ==
    /\ \A j \in Job : job[j].rev <= conn[ConnOf[j]].rev
    /\ \A s \in Live : job[task[s].job].st # "absent"
    /\ \A s \in Slot : task[s].pc \in WithSession =>
         /\ job[task[s].job].rev <= task[s].sess
         /\ task[s].sess <= conn[ConnOf[task[s].job]].rev

-----------------------------------------------------------------------------
(* What no step does to rows, connections and tasks.                       *)

RowsKept ==
    \A j \in Job : /\ job[j].st # "absent" => job'[j].st # "absent"
                   /\ job'[j].rev # job[j].rev =>
                        /\ job[j].st = "absent" /\ job'[j].rev = conn[ConnOf[j]].rev

RevisionsGrow == \A c \in Conn : conn[c].rev <= conn'[c].rev

SessionsKept ==
    \A s \in Slot : task'[s].pc \in WithSession =>
        \/ /\ task[s].pc \in WithSession
           /\ task'[s].sess = task[s].sess /\ task'[s].job = task[s].job
        \/ /\ task[s].pc = "browser" /\ task'[s].job = task[s].job
           /\ task'[s].sess = conn[ConnOf[task[s].job]].rev

LiveKept ==
    \A s \in Live' : \/ s \in Live /\ task'[s].job = task[s].job
                     \/ job'[task'[s].job].st # "absent" /\ task'[s].job \in Job

LEMMA RevisionsStayInOrder ==
  ASSUME Safe, Safe', RevisionsInOrder, RowsKept, RevisionsGrow, SessionsKept, LiveKept
  PROVE  RevisionsInOrder'
<1> USE DEF Safe
<1>1. ASSUME NEW j \in Job
      PROVE  /\ ConnOf[j] \in Conn /\ job[j].rev \in Int /\ job'[j].rev \in Int
             /\ conn[ConnOf[j]].rev \in Int /\ conn'[ConnOf[j]].rev \in Int
  BY MapAssumption, LimitAssumption DEF TypeOK, JobRow
<1>2. \A j \in Job : job'[j].rev <= conn'[ConnOf[j]].rev
  BY <1>1 DEF RevisionsInOrder, RowsKept, RevisionsGrow
<1>3. \A s \in Live' : job'[task'[s].job].st # "absent"
  BY LiveRow DEF LiveKept, RowsKept, RevisionsInOrder, Live
<1>4. ASSUME NEW s \in Slot, task'[s].pc \in WithSession
      PROVE  /\ job'[task'[s].job].rev <= task'[s].sess
             /\ task'[s].sess <= conn'[ConnOf[task'[s].job]].rev
  <2> DEFINE j == task[s].job
  <2>1. /\ task[s].pc # "idle" /\ task'[s].job = j
        /\ \/ task[s].pc \in WithSession /\ task'[s].sess = task[s].sess
           \/ task'[s].sess = conn[ConnOf[j]].rev
    BY <1>4 DEF SessionsKept, WithSession
  <2>2. /\ j \in Job /\ task[s].sess \in Int
        /\ job[j].st # "absent" /\ job'[j].rev = job[j].rev
    BY <2>1, LiveRow, LimitAssumption DEF RowsKept, RevisionsInOrder, Live, TaskRow
  <2>3. conn[ConnOf[j]].rev <= conn'[ConnOf[j]].rev
    BY <1>1, <2>2 DEF RevisionsGrow
  <2> HIDE DEF j
  <2>4. CASE task[s].pc \in WithSession /\ task'[s].sess = task[s].sess
    BY <1>1, <2>1, <2>2, <2>3, <2>4 DEF RevisionsInOrder, j
  <2>5. CASE task'[s].sess = conn[ConnOf[j]].rev
    BY <1>1, <2>1, <2>2, <2>3, <2>5 DEF RevisionsInOrder
  <2> QED BY <2>1, <2>4, <2>5
<1> QED BY <1>2, <1>3, <1>4 DEF RevisionsInOrder

-----------------------------------------------------------------------------
LEMMA KeptRow ==
  ASSUME NEW r \in JobRow
  PROVE  /\ Unleased(r).rev = r.rev /\ Unleased(r) \in JobRow
         /\ \A x : [r EXCEPT !.st = x].rev = r.rev /\ [r EXCEPT !.st = x].st = x
         /\ \A x : /\ [Unleased(r) EXCEPT !.st = x].rev = r.rev
                   /\ [Unleased(r) EXCEPT !.st = x].st = x
         /\ \A x, a : /\ [Unleased(r) EXCEPT !.st = x, !.att = a].rev = r.rev
                      /\ [Unleased(r) EXCEPT !.st = x, !.att = a].st = x
<1>1. Unleased(r) \in JobRow
  BY RowUpdates
<1>2. Unleased(r).rev = r.rev
  BY DEF Unleased, JobRow
<1> QED BY <1>1, <1>2 DEF JobRow

LEMMA CancelKeeps ==
  ASSUME Safe, NEW which, CancelJobs(which)
  PROVE  RowsKept
<1> SUFFICES ASSUME NEW j \in Job
             PROVE  job'[j].rev = job[j].rev /\ (job[j].st # "absent" => job'[j].st # "absent")
  BY DEF RowsKept
<1>1. job[j] \in JobRow
  BY DEF Safe, TypeOK
<1>2. \/ job'[j] = job[j]
      \/ job'[j] = [Unleased(job[j]) EXCEPT !.st = "cancelled"]
  BY DEF CancelJobs
<1>3. Unleased(job[j]) \in JobRow /\ Unleased(job[j]).rev = job[j].rev
  BY <1>1, KeptRow
<1> QED BY <1>1, <1>2, <1>3 DEF JobRow

LEMMA RecoverKeeps ==
  ASSUME Safe, NEW lost, job' = Recovered(lost)
  PROVE  RowsKept
<1> SUFFICES ASSUME NEW j \in Job
             PROVE  job'[j].rev = job[j].rev /\ (job[j].st # "absent" => job'[j].st # "absent")
  BY DEF RowsKept
<1> DEFINE x == IF job[j].att >= MaxAttempts THEN "failed" ELSE "queued"
<1>1. job[j] \in JobRow
  BY DEF Safe, TypeOK
<1>2. \/ job'[j] = job[j]
      \/ job'[j] = [Unleased(job[j]) EXCEPT !.st = x]
  BY DEF Recovered
<1>3. x # "absent"
  OBVIOUS
<1>4. Unleased(job[j]) \in JobRow /\ Unleased(job[j]).rev = job[j].rev
  BY <1>1, KeptRow
<1> HIDE DEF x
<1> QED BY <1>1, <1>2, <1>3, <1>4 DEF JobRow

\* One row changes, but for its revision, and is not taken back.
LEMMA RowKeeps ==
  ASSUME Safe, NEW j \in Job, NEW row, job' = [job EXCEPT ![j] = row],
         row.rev = job[j].rev, row.st # "absent"
  PROVE  RowsKept
BY DEF RowsKept, Safe, TypeOK

\* Steps that leave the tasks alone, or the table, or the connections.
LEMMA Untouched ==
  ASSUME Safe
  PROVE  /\ task' = task => SessionsKept
         /\ job' = job => RowsKept
         /\ conn' = conn => RevisionsGrow
         /\ TasksCalm => LiveKept
<1>1. ASSUME conn' = conn PROVE RevisionsGrow
  <2>1. \A c \in Conn : conn[c].rev \in Nat
    BY LimitAssumption DEF Safe, TypeOK
  <2> QED BY <1>1, <2>1 DEF RevisionsGrow
<1>2. TasksCalm => LiveKept
  BY DEF TasksCalm, LiveKept, Live, Idle
<1> QED BY <1>1, <1>2 DEF SessionsKept, RowsKept

Kept == RowsKept /\ RevisionsGrow /\ SessionsKept

LEMMA RequestsKeep ==
  ASSUME Safe, Requests
  PROVE  Kept
<1> USE DEF Safe
<1>1. ASSUME NEW d \in Dsp, NEW actor \in BOOLEAN, NEW batch \in SUBSET JobsOf(d),
             Enqueue(d, actor, batch)
      PROVE  Kept
  <2>1. ASSUME NEW j \in Job
        PROVE  \/ job'[j] = job[j]
               \/ /\ job[j].st = "absent" /\ job'[j].rev = conn[ConnOf[j]].rev
                  /\ job'[j].st = "queued"
    BY <1>1 DEF Enqueue
  <2>2. RowsKept
    BY <2>1 DEF RowsKept
  <2> QED BY <2>2, <1>1, Untouched DEF Enqueue, Kept
<1>2. ASSUME NEW j \in Job, Cancel(j) PROVE Kept
  BY <1>2, CancelKeeps, Untouched DEF Cancel, Kept
<1>3. ASSUME NEW d \in Dsp, NEW on \in BOOLEAN, NEW partial \in BOOLEAN,
             SetServes(d, on, partial)
      PROVE  Kept
  BY <1>3, CancelKeeps, Untouched DEF SetServes, Kept
<1>4. ASSUME NEW d \in Dsp, NEW on \in BOOLEAN, SetGrant(d, on) PROVE Kept
  BY <1>4, Untouched DEF SetGrant, Kept
<1>5. ASSUME NEW c \in Conn, StopConnection(c) PROVE Kept
  BY <1>5, CancelKeeps, Untouched DEF StopConnection, Kept
<1>6. ASSUME NEW c \in Conn, AbandonConnection(c) PROVE Kept
  BY <1>6, Untouched DEF AbandonConnection, Kept
<1>7. ASSUME NEW c \in Conn, NEW enabled \in BOOLEAN, SaveConnection(c, enabled) PROVE Kept
  <2>1. \A o \in Conn : conn[o].rev \in Nat
    BY LimitAssumption DEF TypeOK
  <2>2. RevisionsGrow
    BY <1>7, <2>1 DEF SaveConnection, RevisionsGrow, TypeOK
  <2> QED BY <2>2, <1>7, Untouched DEF SaveConnection, Kept
<1> QED BY <1>1, <1>2, <1>3, <1>4, <1>5, <1>6, <1>7 DEF Requests

LEMMA GoToKeeps ==
  ASSUME TypeOK, NEW s \in Slot, task[s].pc # "idle", NEW x \in TaskStep, GoTo(s, x),
         x \in WithSession => task[s].pc \in WithSession
  PROVE  SessionsKept
<1>1. task' = [task EXCEPT ![s] = [task[s] EXCEPT !.pc = x]]
  BY DEF GoTo, TypeOK
<1>2. task[s] \in TaskRow
  BY LiveRow
<1> QED BY <1>1, <1>2 DEF SessionsKept, TypeOK, TaskRow

LEMMA FailKeeps ==
  ASSUME TypeOK, NEW s \in Slot, task[s].pc # "idle", NEW e, Fail(s, e)
  PROVE  SessionsKept
<1> DEFINE x == IF e = "busy" THEN "defer" ELSE "record"
<1>1. task' = [task EXCEPT ![s] = [task[s] EXCEPT !.err = e, !.pc = x]]
  BY DEF Fail, TypeOK
<1>2. task[s] \in TaskRow
  BY LiveRow
<1>3. x \notin WithSession
  BY DEF WithSession
<1> HIDE DEF x
<1> QED BY <1>1, <1>2, <1>3 DEF SessionsKept, TypeOK, TaskRow

LEMMA EndKeeps ==
  ASSUME TypeOK, NEW s \in Slot, task' = [task EXCEPT ![s] = Idle]
  PROVE  SessionsKept
BY DEF SessionsKept, TypeOK, Idle, WithSession

LEMMA StatusKeeps ==
  ASSUME Safe, NEW j \in Job, NEW x, x # "absent", job' = [job EXCEPT ![j].st = x]
  PROVE  RowsKept
<1>1. job' = [job EXCEPT ![j] = [job[j] EXCEPT !.st = x]] /\ job[j] \in JobRow
  BY DEF Safe, TypeOK
<1>2. [job[j] EXCEPT !.st = x].rev = job[j].rev /\ [job[j] EXCEPT !.st = x].st = x
  BY <1>1 DEF JobRow
<1> QED BY <1>1, <1>2, RowKeeps

LEMMA FinishedKeeps ==
  ASSUME Safe, NEW j \in Job, NEW x, x # "absent",
         job' = [job EXCEPT ![j] = [Unleased(job[j]) EXCEPT !.st = x]]
  PROVE  RowsKept
<1> DEFINE r == Unleased(job[j])
<1>1. r \in JobRow /\ r.rev = job[j].rev
  BY KeptRow DEF Safe, TypeOK
<1> HIDE DEF r
<1>2. [r EXCEPT !.st = x].rev = job[j].rev /\ [r EXCEPT !.st = x].st = x
  BY <1>1 DEF JobRow
<1> QED BY <1>2, RowKeeps DEF r

LEMMA PublishKeeps ==
  ASSUME Safe, NEW j \in Job, PublishAndFinish(j) \/ PublishOnly(j) \/ UNCHANGED job
  PROVE  RowsKept
<1> DEFINE x == "succeeded"
<1>1. x # "absent" /\ (PublishAndFinish(j) => job' = [job EXCEPT ![j] = [Unleased(job[j]) EXCEPT !.st = x]])
  BY DEF PublishAndFinish
<1> HIDE DEF x
<1> QED BY <1>1, FinishedKeeps, Untouched DEF PublishOnly

LEMMA ExecutorKeeps ==
  ASSUME Safe, NEW s \in Slot, Executor(s)
  PROVE  Kept
<1> DEFINE j == task[s].job
<1> USE DEF Safe
<1>0. ASSUME task[s].pc # "idle" PROVE j \in Job
  BY <1>0, LiveRow
<1>1. CASE CheckStart(s)
  BY <1>1, GoToKeeps, FailKeeps, Untouched DEF CheckStart, TaskStep, WithSession, Kept
<1>2. CASE OpenBrowser(s)
  <2>1. ASSUME NEW x \in TaskStep,
               task' = [task EXCEPT ![s].sess = conn[ConnOf[j]].rev, ![s].pc = x]
        PROVE  SessionsKept
    <3>1. task[s] \in TaskRow /\ task[s].pc = "browser"
      BY <1>2, LiveRow DEF OpenBrowser
    <3> DEFINE r == conn[ConnOf[j]].rev
    <3>2. task' = [task EXCEPT ![s] = [task[s] EXCEPT !.sess = r, !.pc = x]]
      BY <2>1 DEF TypeOK
    <3>3. /\ [task[s] EXCEPT !.sess = r, !.pc = x].sess = r
          /\ [task[s] EXCEPT !.sess = r, !.pc = x].job = j
      BY <3>1 DEF TaskRow
    <3> QED BY <3>1, <3>2, <3>3 DEF SessionsKept, TypeOK
  <2> QED BY <2>1, <1>2, FailKeeps, Untouched DEF OpenBrowser, TaskStep, Kept
<1>3. CASE MarkWaiting(s)
  <2>1. RowsKept
    <3> DEFINE x == "waiting"
    <3>1. x # "absent" /\ (job' = [job EXCEPT ![j].st = x] \/ UNCHANGED job)
      BY <1>3 DEF MarkWaiting
    <3> HIDE DEF x
    <3> QED BY <3>1, <1>0, <1>3, StatusKeeps, Untouched DEF MarkWaiting
  <2> QED BY <2>1, <1>3, GoToKeeps, FailKeeps, Untouched DEF MarkWaiting, TaskStep, WithSession, Kept
<1>4. CASE AwaitOwner(s)
  BY <1>4, GoToKeeps, FailKeeps, Untouched DEF AwaitOwner, TaskStep, WithSession, Kept
<1>5. CASE Begin(s)
  <2>1. RowsKept
    <3> DEFINE x == "running"
    <3>1. x # "absent" /\ (job' = [job EXCEPT ![j].st = x] \/ UNCHANGED job)
      BY <1>5 DEF Begin
    <3> HIDE DEF x
    <3> QED BY <3>1, <1>0, <1>5, StatusKeeps, Untouched DEF Begin
  <2> QED BY <2>1, <1>5, GoToKeeps, FailKeeps, Untouched DEF Begin, TaskStep, WithSession, Kept
<1>6. CASE Collect(s)
  BY <1>6, GoToKeeps, FailKeeps, Untouched DEF Collect, TaskStep, WithSession, Kept
<1>7. CASE Publish(s)
  <2>1. RowsKept
    BY <1>0, <1>7, PublishKeeps DEF Publish
  <2>2. SessionsKept
    BY <1>7, GoToKeeps, FailKeeps DEF Publish, TaskStep, WithSession
  <2> QED BY <2>1, <2>2, <1>7, Untouched DEF Publish, Kept
<1>8. CASE Heartbeat(s)
  BY <1>8, FailKeeps, Untouched DEF Heartbeat, TaskStep, Kept
<1>9. CASE Defer(s)
  <2>1. RowsKept
    <3> DEFINE x == "delayed"
               a == job[j].att - 1
    <3>1. /\ x # "absent"
          /\ job' = [job EXCEPT ![j] = [Unleased(job[j]) EXCEPT !.st = x, !.att = a]] \/ UNCHANGED job
      BY <1>9 DEF Defer, Deferred
    <3>2. j \in Job
      BY <1>0, <1>9 DEF Defer
    <3> HIDE DEF x, a
    <3>3. /\ [Unleased(job[j]) EXCEPT !.st = x, !.att = a].rev = job[j].rev
          /\ [Unleased(job[j]) EXCEPT !.st = x, !.att = a].st = x
      BY <3>2, KeptRow DEF TypeOK
    <3> QED BY <3>1, <3>2, <3>3, RowKeeps, Untouched
  <2> QED BY <2>1, <1>9, GoToKeeps, EndKeeps, Untouched DEF Defer, TaskStep, WithSession, Kept
<1>10. CASE Record(s)
  <2>1. RowsKept
    <3> DEFINE x == IF task[s].err = "retryable" /\ job[j].att < MaxAttempts
                    THEN "delayed" ELSE "failed"
    <3>1. /\ x # "absent"
          /\ \/ job' = [job EXCEPT ![j] = [Unleased(job[j]) EXCEPT !.st = x]]
             \/ job' = job
      BY <1>10 DEF Record, Finished, TypeOK
    <3> HIDE DEF x
    <3> QED BY <3>1, <1>0, <1>10, FinishedKeeps, Untouched DEF Record
  <2> QED BY <2>1, <1>10, EndKeeps, Untouched DEF Record, Kept
<1>11. CASE Complete(s)
  BY <1>11, EndKeeps, Untouched DEF Complete, Kept
<1>12. CASE Unrecorded(s)
  BY <1>12, EndKeeps, Untouched DEF Unrecorded, Kept
<1> QED
  BY <1>1, <1>2, <1>3, <1>4, <1>5, <1>6, <1>7, <1>8, <1>9, <1>10, <1>11, <1>12, Zenon
  DEF Executor

LEMMA SchedulerKeeps ==
  ASSUME Safe, Scheduler
  PROVE  Kept /\ LiveKept
<1> USE DEF Safe
<1>1. ASSUME NEW s \in Slot, NEW j \in Job, Claim(s, j) PROVE Kept /\ LiveKept
  <2> DEFINE row == [job[j] EXCEPT !.st = "running", !.att = job[j].att + 1,
                                   !.owner = worker, !.lease = "live"]
  <2>1. job' = [job EXCEPT ![j] = row] /\ job[j] \in JobRow
    BY <1>1 DEF Claim, TypeOK
  <2>2. row.rev = job[j].rev /\ row.st = "running"
    BY <2>1 DEF JobRow
  <2> HIDE DEF row
  <2>3. RowsKept /\ job'[j].st = "running"
    BY <2>1, <2>2, RowKeeps DEF TypeOK
  <2>4. SessionsKept
    BY <1>1 DEF Claim, SessionsKept, WithSession, TypeOK
  <2>5. LiveKept
    BY <1>1, <2>3 DEF Claim, LiveKept, Live, TypeOK
  <2> QED BY <2>3, <2>4, <2>5, <1>1, Untouched DEF Claim, Kept
<1>2. CASE RecoverExpired
  BY <1>2, RecoverKeeps, TasksStay, Untouched DEF RecoverExpired, Kept
<1>3. ASSUME NEW j \in Job, LeaseLapses(j) PROVE Kept /\ LiveKept
  <2>1. job' = [job EXCEPT ![j] = [job[j] EXCEPT !.lease = "lapsed"]] /\ job[j] \in JobRow
    BY <1>3 DEF LeaseLapses, TypeOK
  <2>2. /\ [job[j] EXCEPT !.lease = "lapsed"].rev = job[j].rev
        /\ [job[j] EXCEPT !.lease = "lapsed"].st = job[j].st
    BY <2>1 DEF JobRow
  <2>3. RowsKept
    BY <2>1, <2>2 DEF RowsKept, TypeOK
  <2> QED BY <2>3, <1>3, TasksStay, Untouched DEF LeaseLapses, Kept
<1>4. ASSUME NEW j \in Job, Due(j) PROVE Kept /\ LiveKept
  <2> DEFINE x == "queued"
  <2>1. x # "absent" /\ job' = [job EXCEPT ![j].st = x]
    BY <1>4 DEF Due
  <2> HIDE DEF x
  <2> QED BY <2>1, <1>4, StatusKeeps, TasksStay, Untouched DEF Due, Kept
<1>5. ASSUME NEW d \in Dsp, PoolChanges(d) PROVE Kept /\ LiveKept
  BY <1>5, TasksStay, Untouched DEF PoolChanges, Kept
<1> QED BY <1>1, <1>2, <1>3, <1>4, <1>5 DEF Scheduler

LEMMA ProcessKeeps ==
  ASSUME Safe, Process
  PROVE  Kept /\ LiveKept
<1> USE DEF Safe
<1>1. ASSUME NEW c \in detached, RunDetached(c) PROVE Kept /\ LiveKept
  <2>1. c.job \in Job
    BY DEF TypeOK, Closure
  <2>2. RowsKept
    BY <1>1, <2>1, PublishKeeps DEF RunDetached
  <2> QED BY <2>2, <1>1, TasksStay, Untouched DEF RunDetached, Kept
<1>2. CASE Stop
  BY <1>2, TasksStay, Untouched DEF Stop, Kept
<1>3. ASSUME NEW torn \in SUBSET Job, Restart(torn) PROVE Kept /\ LiveKept
  <2>1. RowsKept
    BY <1>3, RecoverKeeps DEF Restart
  <2>2. SessionsKept /\ LiveKept
    BY <1>3 DEF Restart, SessionsKept, LiveKept, Live, Idle, WithSession
  <2> QED BY <2>1, <2>2, <1>3, Untouched DEF Restart, Kept
<1> QED BY <1>1, <1>2, <1>3 DEF Process

LEMMA RevisionsInductive == Safe /\ RevisionsInOrder /\ [Next]_vars => RevisionsInOrder'
<1> SUFFICES ASSUME Safe, RevisionsInOrder, [Next]_vars PROVE RevisionsInOrder'
  OBVIOUS
<1>1. ASSUME Kept, LiveKept PROVE RevisionsInOrder'
  BY <1>1, NextIsSafe, RevisionsStayInOrder DEF Kept
<1>2. CASE Requests
  BY <1>1, <1>2, RequestsKeep, RequestsCalm, Untouched DEF Calm
<1>3. CASE Scheduler
  BY <1>1, <1>3, SchedulerKeeps
<1>4. ASSUME NEW s \in Slot, Executor(s) PROVE RevisionsInOrder'
  BY <1>1, <1>4, ExecutorKeeps, ExecutorCalm, Untouched DEF Calm
<1>5. CASE Process
  BY <1>1, <1>5, ProcessKeeps
<1>6. CASE UNCHANGED vars
  BY <1>6 DEF vars, RevisionsInOrder, Live
<1> QED BY <1>2, <1>3, <1>4, <1>5, <1>6 DEF Next

LEMMA RevisionsInit == Init => RevisionsInOrder
<1> SUFFICES ASSUME Init PROVE RevisionsInOrder
  OBVIOUS
<1>1. \A j \in Job : job[j].rev = 0 /\ conn[ConnOf[j]].rev = 0
  BY MapAssumption DEF Init, Absent
<1>2. Live = {} /\ \A s \in Slot : task[s].pc \notin WithSession
  BY DEF Init, Live, Idle, WithSession
<1> QED BY <1>1, <1>2 DEF RevisionsInOrder

\* The session a task works with was opened no earlier than its job was queued, and no
\* later than its connection's last change (connection_revision, Session.revision).
THEOREM SessionsInOrder == Spec => []RevisionsInOrder
<1> QED BY RevisionsInit, RevisionsInductive, AlwaysSafe, PTL DEF Spec

-----------------------------------------------------------------------------
NoSuccess == published' = published /\ Succeeded' \subseteq Succeeded

LEMMA QuietRow ==
  ASSUME Safe, NEW j \in Job, NEW row, job' = [job EXCEPT ![j] = row],
         row.st # "succeeded", published' = published
  PROVE  NoSuccess
BY DEF NoSuccess, Succeeded, Safe, TypeOK

LEMMA QuietTable == ASSUME Safe, job' = job, published' = published PROVE NoSuccess
BY DEF NoSuccess, Succeeded

LEMMA RequestsQuiet ==
  ASSUME Safe, Requests
  PROVE  NoSuccess
<1> USE DEF Safe
<1>1. published' = published
  BY DEF Requests, Enqueue, Cancel, SetServes, SetGrant, StopConnection, SaveConnection,
     AbandonConnection
<1>2. ASSUME NEW which, CancelJobs(which) PROVE NoSuccess
  <2>1. ASSUME NEW j \in Job PROVE job'[j] = job[j] \/ job'[j].st = "cancelled"
    <3>1. job[j] \in JobRow
      BY DEF TypeOK
    <3> QED BY <1>2, <3>1, KeptRow DEF CancelJobs
  <2> QED BY <1>1, <2>1 DEF NoSuccess, Succeeded
<1>3. ASSUME NEW d \in Dsp, NEW actor \in BOOLEAN, NEW batch \in SUBSET JobsOf(d),
             Enqueue(d, actor, batch)
      PROVE  NoSuccess
  <2>1. \A j \in Job : job'[j] = job[j] \/ job'[j].st = "queued"
    BY <1>3 DEF Enqueue
  <2> QED BY <1>1, <2>1 DEF NoSuccess, Succeeded
<1> QED BY <1>1, <1>2, <1>3, QuietTable DEF Requests, Cancel, SetServes, SetGrant,
    StopConnection, SaveConnection, AbandonConnection

LEMMA RecoveredQuiet ==
  ASSUME Safe, NEW lost, job' = Recovered(lost), published' = published
  PROVE  NoSuccess
<1>1. ASSUME NEW j \in Job PROVE job'[j] = job[j] \/ job'[j].st # "succeeded"
  <2> DEFINE x == IF job[j].att >= MaxAttempts THEN "failed" ELSE "queued"
  <2>1. Unleased(job[j]) \in JobRow
    BY KeptRow DEF Safe, TypeOK
  <2>2. \/ job'[j] = job[j]
        \/ job'[j] = [Unleased(job[j]) EXCEPT !.st = x]
    BY DEF Recovered
  <2>3. x # "succeeded"
    OBVIOUS
  <2> HIDE DEF x
  <2> QED BY <2>1, <2>2, <2>3 DEF JobRow
<1> QED BY <1>1 DEF NoSuccess, Succeeded

LEMMA SchedulerQuiet ==
  ASSUME Safe, Scheduler
  PROVE  NoSuccess
<1> USE DEF Safe
<1>1. published' = published
  BY DEF Scheduler, Claim, RecoverExpired, LeaseLapses, Due, PoolChanges
<1>2. ASSUME NEW s \in Slot, NEW j \in Job, Claim(s, j) PROVE NoSuccess
  <2>1. job[j] \in JobRow
    BY DEF TypeOK
  <2>2. [job[j] EXCEPT !.st = "running", !.att = job[j].att + 1, !.owner = worker,
                       !.lease = "live"].st = "running"
    BY <2>1 DEF JobRow
  <2> QED BY <1>1, <1>2, <2>2, QuietRow DEF Claim, TypeOK
<1>3. CASE RecoverExpired
  BY <1>1, <1>3, RecoveredQuiet DEF RecoverExpired
<1>4. ASSUME NEW j \in Job, LeaseLapses(j) PROVE NoSuccess
  <2>1. /\ job' = [job EXCEPT ![j] = [job[j] EXCEPT !.lease = "lapsed"]]
        /\ job[j] \in JobRow
    BY <1>4 DEF LeaseLapses, TypeOK
  <2>2. [job[j] EXCEPT !.lease = "lapsed"].st = job[j].st
    BY <2>1 DEF JobRow
  <2> QED BY <1>1, <2>1, <2>2 DEF NoSuccess, Succeeded, TypeOK
<1>5. ASSUME NEW j \in Job, Due(j) PROVE NoSuccess
  <2>1. /\ job' = [job EXCEPT ![j] = [job[j] EXCEPT !.st = "queued"]]
        /\ [job[j] EXCEPT !.st = "queued"].st = "queued"
    BY <1>5 DEF Due, TypeOK, JobRow
  <2> QED BY <1>1, <2>1, QuietRow
<1> QED BY <1>1, <1>2, <1>3, <1>4, <1>5, QuietTable DEF Scheduler, PoolChanges

\* A task writes "succeeded" or publishes in its publication alone.
LEMMA ExecutorQuiet ==
  ASSUME Safe, NEW s \in Slot, Executor(s), ~Publish(s)
  PROVE  NoSuccess
<1> DEFINE j == task[s].job
<1> USE DEF Safe
<1>1. published' = published
  BY DEF Executor, CheckStart, OpenBrowser, MarkWaiting, AwaitOwner, Begin, Collect,
     Heartbeat, Defer, Record, Complete, Unrecorded
<1>0. task[s].pc # "idle" => j \in Job /\ job[j] \in JobRow /\ Unleased(job[j]) \in JobRow
  BY LiveRow, KeptRow DEF TypeOK
<1>2. CASE MarkWaiting(s)
  <2>1. /\ [job[j] EXCEPT !.st = "waiting"].st # "succeeded"
        /\ job' = [job EXCEPT ![j] = [job[j] EXCEPT !.st = "waiting"]] \/ job' = job
    BY <1>0, <1>2 DEF MarkWaiting, TypeOK, JobRow
  <2> QED BY <1>0, <1>1, <1>2, <2>1, QuietRow, QuietTable DEF MarkWaiting
<1>3. CASE Begin(s)
  <2>1. /\ [job[j] EXCEPT !.st = "running"].st # "succeeded"
        /\ job' = [job EXCEPT ![j] = [job[j] EXCEPT !.st = "running"]] \/ job' = job
    BY <1>0, <1>3 DEF Begin, TypeOK, JobRow
  <2> QED BY <1>0, <1>1, <1>3, <2>1, QuietRow, QuietTable DEF Begin
<1>4. CASE Defer(s)
  <2>1. /\ Deferred(j).st # "succeeded"
        /\ job' = [job EXCEPT ![j] = Deferred(j)] \/ job' = job
    BY <1>0, <1>4 DEF Defer, Deferred, JobRow
  <2> QED BY <1>0, <1>1, <1>4, <2>1, QuietRow, QuietTable DEF Defer
<1>5. CASE Record(s)
  <2> DEFINE e == task[s].err
             x == IF e = "retryable" /\ job[j].att < MaxAttempts THEN "delayed" ELSE "failed"
  <2>1. Finished(j, e) = [Unleased(job[j]) EXCEPT !.st = x] /\ x # "succeeded"
    BY DEF Finished
  <2>2. job' = [job EXCEPT ![j] = Finished(j, e)] \/ job' = job
    BY <1>5 DEF Record, TypeOK
  <2> HIDE DEF x
  <2>3. j \in Job /\ Finished(j, e).st # "succeeded"
    BY <1>0, <1>5, <2>1 DEF Record, JobRow
  <2> QED BY <1>1, <2>2, <2>3, QuietRow, QuietTable
<1>6. CASE UNCHANGED job
  BY <1>1, <1>6, QuietTable
<1> QED BY <1>2, <1>3, <1>4, <1>5, <1>6 DEF Executor, CheckStart, OpenBrowser, AwaitOwner,
    Collect, Heartbeat, Complete, Unrecorded

\* What a publication closure adds.
LEMMA PublicationAdds ==
  ASSUME Safe, NEW j \in Job, PublishAndFinish(j) \/ PublishOnly(j)
  PROVE  published' \subseteq published \cup {j} /\ Succeeded' \subseteq Succeeded \cup {j}
BY DEF PublishAndFinish, PublishOnly, Succeeded, Safe, TypeOK

\* Only a step whose guard holds publishes a job's data or ends the job with success.
LEMMA OnlyGuarded ==
  ASSUME Safe, [Next]_vars,
         NEW j \in (published' \ published) \cup (Succeeded' \ Succeeded)
  PROVE  Guard(j)
<1> USE DEF Safe
<1>1. ~NoSuccess
  BY DEF NoSuccess
<1>2. ASSUME NEW s \in Slot, Executor(s) PROVE Guard(j)
  <2>1. Publish(s)
    BY <1>1, <1>2, ExecutorQuiet
  <2>2. task[s].job \in Job
    BY <2>1, LiveRow DEF Publish
  <2>3. Guard(task[s].job) /\ (PublishAndFinish(task[s].job) \/ PublishOnly(task[s].job))
    BY <1>1, <2>1, QuietTable DEF Publish
  <2>4. j = task[s].job
    BY <2>2, <2>3, PublicationAdds
  <2> QED BY <2>3, <2>4
<1>3. CASE Process
  <2>1. ASSUME NEW c \in detached, RunDetached(c) PROVE Guard(j)
    <3>1. c.job \in Job
      BY DEF TypeOK, Closure
    <3>2. Guard(c.job) /\ (PublishAndFinish(c.job) \/ PublishOnly(c.job))
      BY <1>1, <2>1, QuietTable DEF RunDetached
    <3>3. j = c.job
      BY <3>1, <3>2, PublicationAdds
    <3> QED BY <3>2, <3>3
  <2>2. CASE Stop
    BY <1>1, <2>2, QuietTable DEF Stop
  <2>3. ASSUME NEW torn \in SUBSET Job, Restart(torn) PROVE Guard(j)
    <3> DEFINE lost == LostAtStart
    <3>1. ASSUME NEW k \in Job PROVE job'[k].st = "succeeded" => job[k].st = "succeeded"
      <4> DEFINE x == IF job[k].att >= MaxAttempts THEN "failed" ELSE "queued"
      <4>1. Unleased(job[k]) \in JobRow
        BY KeptRow DEF TypeOK
      <4>2. \/ job'[k] = job[k]
            \/ job'[k] = [Unleased(job[k]) EXCEPT !.st = x]
        BY <2>3 DEF Restart, Recovered
      <4>3. x # "succeeded"
        OBVIOUS
      <4> HIDE DEF x
      <4> QED BY <4>1, <4>2, <4>3 DEF JobRow
    <3>2. j \in torn
      BY <2>3, <3>1 DEF Restart, Succeeded
    <3> QED BY <2>3, <3>2 DEF Restart
  <2> QED BY <1>3, <2>1, <2>2, <2>3 DEF Process
<1>4. CASE UNCHANGED vars
  BY <1>1, <1>4, QuietTable DEF vars
<1> QED BY <1>1, <1>2, <1>3, <1>4, RequestsQuiet, SchedulerQuiet DEF Next

\* The one way from the publication to its completion.
LEMMA CompletedByGuard ==
  ASSUME Safe, [Next]_vars,
         NEW s \in Slot, task[s].pc = "publish", task'[s].pc = "completed"
  PROVE  Guard(task[s].job)
<1> USE DEF Safe
<1>1. task' # task
  OBVIOUS
<1>2. ASSUME NEW r \in Slot, Executor(r) PROVE Guard(task[s].job)
  <2>1. CASE r = s /\ Publish(s)
    <3>1. ASSUME NEW e \in TaskError, Fail(s, e) PROVE FALSE
      <4>1. task'[s].pc = IF e = "busy" THEN "defer" ELSE "record"
        BY <3>1, LiveRow DEF Fail, TypeOK, TaskRow
      <4> QED BY <4>1
    <3>2. task[s].job \in Job /\ {"retryable", "fatal"} \subseteq TaskError
      BY LiveRow DEF TaskError
    <3>3. ~Fail(s, GuardError(task[s].job)) /\ ~Fail(s, "fatal") /\ ~Fail(s, "retryable")
      BY <3>1, <3>2, GuardErrorType
    <3> QED BY <2>1, <3>3 DEF Publish
  <2>2. CASE r = s /\ Heartbeat(s)
    <3>1. ASSUME NEW e, Fail(s, e) PROVE FALSE
      <4>1. task'[s].pc = IF e = "busy" THEN "defer" ELSE "record"
        BY <3>1, LiveRow DEF Fail, TypeOK, TaskRow
      <4> QED BY <4>1
    <3> QED BY <2>2, <3>1 DEF Heartbeat
  <2>3. CASE r # s
    <3>1. task'[s] = task[s]
      BY <1>2, <2>3 DEF Executor, CheckStart, OpenBrowser, MarkWaiting, AwaitOwner, Begin,
         Collect, Publish, Heartbeat, Defer, Record, Complete, Unrecorded, GoTo, Fail, TypeOK
    <3> QED BY <3>1
  <2>4. CASE r = s
    <3>1. ~CheckStart(s) /\ ~OpenBrowser(s) /\ ~MarkWaiting(s) /\ ~AwaitOwner(s) /\ ~Begin(s)
      BY DEF CheckStart, OpenBrowser, MarkWaiting, AwaitOwner, Begin
    <3>2. ~Collect(s) /\ ~Defer(s) /\ ~Record(s) /\ ~Complete(s) /\ ~Unrecorded(s)
      BY DEF Collect, Defer, Record, Complete, Unrecorded
    <3> QED BY <1>2, <2>1, <2>2, <2>4, <3>1, <3>2 DEF Executor
  <2> QED BY <2>3, <2>4
<1>3. CASE Scheduler
  <2>1. ASSUME NEW r \in Slot, NEW k \in Job, Claim(r, k) PROVE FALSE
    <3>1. r # s
      BY <2>1 DEF Claim, Idle
    <3>2. task'[s] = task[s]
      BY <2>1, <3>1 DEF Claim, TypeOK
    <3> QED BY <3>2
  <2> QED BY <1>1, <1>3, <2>1 DEF Scheduler, RecoverExpired, LeaseLapses, Due, PoolChanges
<1>4. CASE Process
  BY <1>1, <1>4 DEF Process, RunDetached, Stop, Restart, Idle
<1>5. CASE Requests
  BY <1>1, <1>5 DEF Requests, Enqueue, Cancel, SetServes, SetGrant, StopConnection,
     SaveConnection, AbandonConnection
<1> QED BY <1>1, <1>2, <1>3, <1>4, <1>5 DEF Next, vars

\* A task that completes its publication read its data from a session with the
\* credentials of the moment.
LEMMA SessionIsCurrent ==
  ASSUME Safe, RevisionsInOrder, [Next]_vars,
         NEW s \in Slot, task[s].pc = "publish", task'[s].pc = "completed"
  PROVE  task[s].sess = conn[ConnOf[task[s].job]].rev
<1> DEFINE j == task[s].job
<1> USE DEF Safe
<1>1. /\ j \in Job /\ ConnOf[j] \in Conn /\ task[s].sess \in Int
      /\ conn[ConnOf[j]].rev \in Int
  BY LiveRow, MapAssumption, LimitAssumption DEF TypeOK, TaskRow
<1>2. job[j].rev <= task[s].sess /\ task[s].sess <= conn[ConnOf[j]].rev
  BY DEF RevisionsInOrder, WithSession
<1>3. Guard(j)
  BY CompletedByGuard
<1> QED BY <1>1, <1>2, <1>3 DEF Guard, Authorised

\* Data is published only under the authority of the moment.
THEOREM PublishedUnderAuthority == Spec => PublicationIsCurrent
<1>1. Safe /\ RevisionsInOrder /\ [Next]_vars =>
        [/\ \A j \in (published' \ published) \cup (Succeeded' \ Succeeded) :
               /\ job[j].lease = "live" /\ job[j].owner = worker
               /\ dsp[Owner(j)].serves /\ conn[ConnOf[j]].enabled
         /\ \A s \in Slot : task[s].pc = "publish" /\ task'[s].pc = "completed" =>
               task[s].sess = conn[ConnOf[task[s].job]].rev]_vars
  BY OnlyGuarded, SessionIsCurrent DEF Guard, Held, Authorised
<1> QED BY <1>1, AlwaysSafe, SessionsInOrder, PTL DEF Spec, PublicationIsCurrent
=============================================================================
