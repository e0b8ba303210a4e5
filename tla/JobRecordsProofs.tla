-------------------------- MODULE JobRecordsProofs --------------------------
(***************************************************************************)
(* Theorems about what the queue leaves behind, for every number of jobs,  *)
(* slots and attempts: the row of the next attempt is free, an attempt's   *)
(* row is sealed once it ended, and no success is recorded without data.   *)
(*                                                                         *)
(* The row a task works under says "running" for as long as the task may   *)
(* still defer or publish (RowRuns): whatever closes it takes the lease or *)
(* the task with it.  Only a publication whose task was dropped may find   *)
(* it closed, and nobody else is then left but that task's last closure    *)
(* (DetachedStand).                                                        *)
(*                                                                         *)
(* Last, about the order in which the DSPs are served (JobTurns).          *)
(***************************************************************************)
EXTENDS JobRecords, JobTurns, JobQueueProofs

RowsTyped ==
    /\ metric \in [Job -> [1 .. MaxAttempts -> Outcome]]
    /\ recorder \in [Job -> [1 .. MaxAttempts -> Sealing]]

\* No row is ahead of the attempts that were counted.
NoRowAhead ==
    \A j \in Job : /\ job[j].st = "absent" => job[j].att = 0
                   /\ \A a \in 1 .. MaxAttempts : a > job[j].att => metric[j][a] = "none"

RowRuns ==
    \A s \in Live : task[s].pc \notin {"record", "completed"} /\ Held(task[s].job) =>
        metric[task[s].job][task[s].att] = "running"

Ends == {"succeeded", "failed", "cancelled"}

DetachedStand ==
    \A c \in detached :
        /\ \A s \in Live : task[s].job = c.job => task[s].pc = "record"
        /\ Held(c.job) => /\ c.att = job[c.job].att
                          /\ metric[c.job][c.att] \in Ends \cup {"running"}

SealedHasData == \A j \in Job, a \in 1 .. MaxAttempts : recorder[j][a] = "succeeded" => j \in published

RecordsInv ==
    /\ Safe /\ RowsTyped /\ NoRowAhead /\ RowRuns /\ DetachedStand /\ SealedHasData /\ SuccessHasData

-----------------------------------------------------------------------------
(* The queue goes on as if nothing were recorded.                          *)

LEMMA RecordsStepIsStep == ASSUME [RecordsNext]_rvars PROVE [Next]_vars
<1>1. CASE Unrecording
  BY <1>1 DEF Unrecording, Next, Scheduler, Executor, Process
<1>2. ASSUME NEW s \in Slot, NEW j \in Job, ClaimRecorded(s, j) PROVE Next
  BY <1>2 DEF ClaimRecorded, Next, Scheduler
<1>3. ASSUME NEW s \in Slot,
             DeferRecorded(s) \/ PublishRecorded(s) \/ RecordRecorded(s) \/ CompleteRecorded(s)
      PROVE  Next
  BY <1>3 DEF DeferRecorded, PublishRecorded, RecordRecorded, CompleteRecorded, Next, Executor
<1>4. ASSUME NEW s \in Slot, Seal(s) PROVE UNCHANGED vars
  BY <1>4 DEF Seal
<1>5. ASSUME NEW c \in detached, DetachedRecorded(c) PROVE Next
  BY <1>5 DEF DetachedRecorded, Next, Process
<1>6. CASE RecoverRecorded
  BY <1>6 DEF RecoverRecorded, Next, Scheduler
<1>7. ASSUME NEW torn \in SUBSET Job, RestartRecorded(torn) PROVE Next
  BY <1>7 DEF RestartRecorded, Next, Process
<1>8. CASE UNCHANGED rvars
  BY <1>8 DEF rvars
<1> QED BY <1>1, <1>2, <1>3, <1>4, <1>5, <1>6, <1>7, <1>8 DEF RecordsNext

\* What is recorded steers nothing: every run of the queue with its records is one of the queue
\* (job_metrics.rs and the audit entries are written in closures the queue runs anyway).
THEOREM RecordsObserve == RecordsSpec => Spec
<1>1. RecordsInit => Init
  BY DEF RecordsInit
<1>2. [RecordsNext]_rvars => [Next]_vars
  BY RecordsStepIsStep
<1> QED BY <1>1, <1>2, PTL DEF RecordsSpec, Spec

-----------------------------------------------------------------------------
(* What the queue's steps do to rows and tasks.                            *)

\* The attempts counted stay, and nothing succeeds.
Kept(k) ==
    /\ job'[k].att = job[k].att
    /\ job'[k].st = "absent" => job[k].st = "absent"
    /\ job'[k].st = "succeeded" => job'[k] = job[k]

\* A row that loses its lease to another status keeps its attempts.
LEMMA UnleasedKeeps ==
    ASSUME Safe, NEW j \in Job, NEW x, x \notin {"absent", "succeeded"},
           job'[j] = [Unleased(job[j]) EXCEPT !.st = x]
    PROVE  Kept(j)
<1>1. job[j] \in JobRow
  BY DEF Safe, TypeOK
<1>2. Unleased(job[j]).att = job[j].att /\ DOMAIN Unleased(job[j]) = DOMAIN job[j]
  BY <1>1 DEF Unleased, JobRow
<1>3. job'[j].att = job[j].att /\ job'[j].st = x
  <2> DEFINE r == Unleased(job[j])
  <2>1. "st" \in DOMAIN r /\ "att" \in DOMAIN r
    BY <1>1, <1>2 DEF JobRow
  <2> HIDE DEF r
  <2>2. job'[j] = [r EXCEPT !.st = x]
    BY DEF r
  <2> QED BY <1>2, <2>1, <2>2 DEF r
<1> QED BY <1>3 DEF Kept

LEMMA RequestsKeep ==
    ASSUME RecordsInv, Requests, NEW k \in Job
    PROVE  Kept(k)
<1> USE DEF RecordsInv
<1>0. job \in [Job -> JobRow]
  BY DEF Safe, TypeOK
<1>1. ASSUME NEW which, CancelJobs(which) PROVE Kept(k)
  <2>1. job'[k] = job[k] \/ job'[k] = [Unleased(job[k]) EXCEPT !.st = "cancelled"]
    BY <1>1 DEF CancelJobs
  <2>2. job'[k] = job[k] => Kept(k)
    BY DEF Kept
  <2> QED BY <2>1, <2>2, UnleasedKeeps
<1>2. ASSUME NEW d \in Dsp, NEW actor \in BOOLEAN, NEW batch \in SUBSET JobsOf(d), Enqueue(d, actor, batch)
      PROVE  Kept(k)
  <2>1. \/ job'[k] = job[k]
        \/ job[k].st = "absent" /\ job'[k].att = 0 /\ job'[k].st = "queued"
    BY <1>2 DEF Enqueue
  <2> QED BY <2>1 DEF Kept, NoRowAhead
<1>3. ASSUME job' = job PROVE Kept(k)
  BY <1>3 DEF Kept
<1> QED BY <1>1, <1>2, <1>3 DEF Requests, Cancel, SetServes, SetGrant, StopConnection, SaveConnection,
        AbandonConnection

LEMMA RecoveredKeeps ==
    ASSUME RecordsInv, NEW lost, job' = Recovered(lost), NEW k \in Job
    PROVE  Kept(k)
<1>1. Safe
  BY DEF RecordsInv
<1>2. \/ job'[k] = job[k]
      \/ \E x \in {"failed", "queued"} : job'[k] = [Unleased(job[k]) EXCEPT !.st = x]
  BY DEF Recovered
<1>3. job'[k] = job[k] => Kept(k)
  BY DEF Kept
<1> QED BY <1>1, <1>2, <1>3, UnleasedKeeps

\* Every step of a task but a claim, a deferral and a publication.
LEMMA TasksKeep ==
    ASSUME RecordsInv, NEW k \in Job, NEW s \in Slot,
           \/ CheckStart(s) \/ OpenBrowser(s) \/ MarkWaiting(s) \/ AwaitOwner(s) \/ Begin(s)
           \/ Collect(s) \/ Heartbeat(s) \/ Unrecorded(s) \/ Record(s) \/ Complete(s)
    PROVE  Kept(k)
<1>0. Safe /\ job \in [Job -> JobRow]
  BY DEF RecordsInv, Safe, TypeOK
<1>1. ASSUME NEW j \in Job, NEW x \in {"waiting", "running"}, job' = [job EXCEPT ![j].st = x]
      PROVE  Kept(k)
  BY <1>0, <1>1 DEF Kept, JobRow
<1>2. ASSUME job' = job PROVE Kept(k)
  BY <1>2 DEF Kept
<1>3. CASE MarkWaiting(s)
  <2>1. task[s].job \in Job
    BY <1>0, <1>3, LiveRow DEF MarkWaiting, Safe
  <2> QED BY <1>1, <1>2, <1>3, <2>1 DEF MarkWaiting
<1>4. CASE Begin(s)
  <2>1. task[s].job \in Job
    BY <1>0, <1>4, LiveRow DEF Begin, Safe
  <2> QED BY <1>1, <1>2, <1>4, <2>1 DEF Begin
<1>5. CASE Record(s)
  <2> DEFINE j == task[s].job
             retry == task[s].err = "retryable" /\ job[j].att < MaxAttempts
             x == IF retry THEN "delayed" ELSE "failed"
             row == IF Held(j) THEN Finished(j, task[s].err) ELSE job[j]
  <2>1. job' = [job EXCEPT ![j] = row]
    BY <1>5 DEF Record
  <2>2. Finished(j, task[s].err) = [Unleased(job[j]) EXCEPT !.st = x]
    BY DEF Finished
  <2>3. k = j => row = job[k] \/ row = [Unleased(job[k]) EXCEPT !.st = x]
    BY <2>2
  <2>4. x \in {"delayed", "failed"}
    OBVIOUS
  <2> HIDE DEF row, x
  <2>5. job'[k] = job[k] \/ job'[k] = [Unleased(job[k]) EXCEPT !.st = x]
    BY <1>0, <2>1, <2>3
  <2>6. job'[k] = job[k] => Kept(k)
    BY DEF Kept
  <2>7. x \notin {"absent", "succeeded"}
    BY <2>4
  <2> QED BY <1>0, <2>5, <2>6, <2>7, UnleasedKeeps
<1> QED BY <1>2, <1>3, <1>4, <1>5 DEF CheckStart, OpenBrowser, AwaitOwner, Collect, Heartbeat, Unrecorded, Complete

LEMMA ScheduledKeep ==
    ASSUME RecordsInv, NEW k \in Job, NEW j \in Job, LeaseLapses(j) \/ Due(j)
    PROVE  Kept(k)
<1>1. job \in [Job -> JobRow]
  BY DEF RecordsInv, Safe, TypeOK
<1>2. CASE LeaseLapses(j)
  <2>1. job[j].st # "succeeded"
    BY <1>2 DEF LeaseLapses, RecordsInv, Safe, LeasesAreOurs, Leased, LeasedStatus
  <2> QED BY <1>1, <1>2, <2>1 DEF LeaseLapses, Kept, JobRow
<1>3. CASE Due(j)
  BY <1>1, <1>3 DEF Due, Kept, JobRow
<1> QED BY <1>2, <1>3

-----------------------------------------------------------------------------
\* A task that is about to record its end does no more than that.
Closing(s) ==
    /\ task[s].pc = "record" => task'[s].pc \in {"record", "idle"}
    /\ task[s].pc = "completed" => task'[s].pc \in {"completed", "record", "idle"}

LEMMA TasksClose == ASSUME Safe, Next, NEW o \in Slot PROVE Closing(o)
<1>0. task \in [Slot -> TaskRow \cup {Idle}] /\ Idle.pc = "idle"
  BY DEF Safe, TypeOK, Idle
<1>1. CASE task'[o] = task[o] \/ task'[o] = Idle
  BY <1>0, <1>1 DEF Closing
<1>2. ASSUME NEW s \in Slot, NEW x, GoTo(s, x), task[s].pc \notin {"record", "completed"} PROVE Closing(o)
  BY <1>0, <1>1, <1>2 DEF GoTo, Closing
<1>3. ASSUME NEW s \in Slot, NEW e, Fail(s, e), task[s].pc \notin {"record", "completed"} PROVE Closing(o)
  BY <1>0, <1>1, <1>3 DEF Fail, Closing
<1>4. ASSUME NEW s \in Slot, Executor(s) PROVE Closing(o)
  <2>1. CASE OpenBrowser(s)
    <3>1. o = s => Closing(o)
      BY <2>1 DEF OpenBrowser, Closing
    <3>2. o # s => task'[o] = task[o]
      BY <1>0, <2>1 DEF OpenBrowser, Fail
    <3> QED BY <1>1, <3>1, <3>2
  <2>2. CASE Heartbeat(s)
    <3>1. \E e \in {"fatal", "job_cancelled"} : Fail(s, e)
      BY <2>2 DEF Heartbeat, GuardError
    <3>2. PICK e \in {"fatal", "job_cancelled"} : Fail(s, e)
      BY <3>1
    <3>3. task[s].pc # "record" /\ task'[s].pc \in {"record"}
      BY <1>0, <2>2, <3>2 DEF Heartbeat, Fail
    <3>4. o # s => task'[o] = task[o]
      BY <1>0, <3>2 DEF Fail
    <3> QED BY <1>1, <3>3, <3>4 DEF Closing
  <2>3. CASE CheckStart(s) \/ MarkWaiting(s) \/ AwaitOwner(s) \/ Begin(s) \/ Collect(s) \/ Publish(s)
    BY <1>2, <1>3, <2>3 DEF CheckStart, MarkWaiting, AwaitOwner, Begin, Collect, Publish
  <2>4. CASE Defer(s)
    <3>1. CASE GoTo(s, "record")
      BY <1>2, <2>4, <3>1 DEF Defer
    <3>2. CASE task' = [task EXCEPT ![s] = Idle]
      BY <1>0, <1>1, <3>2
    <3> QED BY <2>4, <3>1, <3>2 DEF Defer
  <2>5. CASE Record(s) \/ Complete(s) \/ Unrecorded(s)
    <3>1. task' = [task EXCEPT ![s] = Idle]
      BY <2>5 DEF Record, Complete, Unrecorded
    <3> QED BY <1>0, <1>1, <3>1
  <2> QED BY <1>4, <2>1, <2>2, <2>3, <2>4, <2>5 DEF Executor
<1>5. CASE Requests
  BY <1>1, <1>5 DEF Requests, Enqueue, Cancel, SetServes, SetGrant, StopConnection, SaveConnection,
        AbandonConnection
<1>6. CASE Scheduler
  <2>1. ASSUME NEW s \in Slot, NEW j \in Job, Claim(s, j) PROVE Closing(o)
    <3>1. task[s].pc = "idle" /\ (o # s => task'[o] = task[o])
      BY <1>0, <2>1 DEF Claim
    <3> QED BY <1>1, <3>1 DEF Closing
  <2> QED BY <1>1, <1>6, <2>1 DEF Scheduler, RecoverExpired, LeaseLapses, Due, PoolChanges
<1>7. CASE Process
  BY <1>1, <1>7 DEF Process, RunDetached, Stop, Restart
<1> QED BY <1>4, <1>5, <1>6, <1>7 DEF Next

-----------------------------------------------------------------------------
(* Calm steps.                                                             *)

\* A row stays, or ends once no task works under it, or is interrupted when its job was lost.
RowMoves(j, a) ==
    \/ metric'[j][a] = metric[j][a]
    \/ /\ metric[j][a] = "running" /\ metric'[j][a] \in Ends
       /\ metric'[j][a] = "succeeded" => j \in published'
       /\ \A s \in Live' : task'[s].job = j => task'[s].pc \in {"record", "completed"}
    \/ metric[j][a] = "running" /\ metric'[j][a] = "interrupted" /\ ~Held(j)'

\* The attempts counted stay, and a job that succeeds has a row that ended.
JobMoves(j) ==
    /\ job'[j].att = job[j].att
    /\ job'[j].st = "absent" => job[j].st = "absent"
    /\ job'[j].st = "succeeded" => job'[j] = job[j] \/ metric'[j][job'[j].att] \in Ends

\* A publication whose task is dropped.
Dropped(c) ==
    \E s \in Slot : /\ task[s].pc = "publish" /\ task'[s].pc = "record"
                    /\ c.job = task[s].job /\ c.att = task[s].att

LEMMA HeldStays ==
    ASSUME Safe, Calm, NEW j \in Job, job'[j].owner = worker', job'[j].st \in LeasedStatus
    PROVE  Held(j) /\ job'[j].att = job[j].att
<1>2. ~Settled(job'[j])
  BY DEF Settled
<1> QED BY <1>2 DEF Calm, RowsCalm, Held, Leased

LEMMA StaysLive ==
    ASSUME Calm, NEW s \in Live'
    PROVE  s \in Live /\ task'[s].job = task[s].job /\ task'[s].att = task[s].att
BY DEF Calm, TasksCalm, Live, Idle

LEMMA CalmKeepsRecords ==
    ASSUME RecordsInv, [Next]_vars, Calm, RowsTyped', SealedHasData', published \subseteq published',
           \A j \in Job : JobMoves(j),
           \A j \in Job : \A a \in 1 .. MaxAttempts : RowMoves(j, a),
           \A c \in detached' : c \in detached \/ Dropped(c)
    PROVE  RecordsInv'
<1>1. Safe /\ TypeOK /\ Safe' /\ TypeOK'
  BY NextIsSafe DEF RecordsInv, Safe
<1>2. \A o \in Slot : Closing(o)
  <2>1. CASE Next
    BY <1>1, <2>1, TasksClose
  <2>2. CASE UNCHANGED vars
    BY <2>2 DEF vars, Closing
  <2> QED BY <2>1, <2>2
<1>3. NoRowAhead'
  <2> SUFFICES ASSUME NEW j \in Job
               PROVE  /\ job'[j].st = "absent" => job'[j].att = 0
                      /\ \A a \in 1 .. MaxAttempts : a > job'[j].att => metric'[j][a] = "none"
    BY DEF NoRowAhead
  <2>1. /\ job[j].st = "absent" => job[j].att = 0
        /\ \A a \in 1 .. MaxAttempts : a > job[j].att => metric[j][a] = "none"
    BY DEF RecordsInv, NoRowAhead
  <2>2. JobMoves(j) /\ \A a \in 1 .. MaxAttempts : RowMoves(j, a)
    OBVIOUS
  <2> QED BY <2>1, <2>2 DEF JobMoves, RowMoves
<1>4. RowRuns'
  <2> SUFFICES ASSUME NEW s \in Live', task'[s].pc \notin {"record", "completed"}, Held(task[s].job)'
               PROVE  metric'[task'[s].job][task'[s].att] = "running"
    BY DEF RowRuns
  <2>1. s \in Live /\ s \in Slot /\ task'[s].job = task[s].job /\ task'[s].att = task[s].att
    BY StaysLive DEF Live
  <2>2. task[s].job \in Job /\ task[s].att \in 1 .. MaxAttempts
    BY <1>1, <2>1, LiveRow DEF Live
  <2>3. task[s].pc \notin {"record", "completed"}
    BY <1>2, <2>1 DEF Closing, Live
  <2>4. Held(task[s].job)
    <3>1. job'[task'[s].job].owner = worker' /\ job'[task'[s].job].st \in LeasedStatus
      BY DEF Held
    <3> QED BY <1>1, <2>1, <2>2, <3>1, HeldStays
  <2>5. metric[task[s].job][task[s].att] = "running"
    BY <2>1, <2>3, <2>4 DEF RecordsInv, RowRuns
  <2>6. RowMoves(task[s].job, task[s].att)
    BY <2>2
  <2>7. Held(task[s].job)' => job'[task'[s].job].st \in LeasedStatus /\ job'[task'[s].job].owner = worker'
    BY DEF Held
  <2> QED BY <2>1, <2>5, <2>6, <2>7 DEF RowMoves, Held
<1>5. DetachedStand'
  <2> SUFFICES ASSUME NEW c \in detached'
               PROVE  /\ \A s \in Live' : task'[s].job = c.job => task'[s].pc = "record"
                      /\ Held(c.job)' => /\ c.att = job'[c.job].att
                                         /\ metric'[c.job][c.att] \in Ends \cup {"running"}
    BY DEF DetachedStand
  <2>1. c.job \in Job /\ c.att \in 1 .. MaxAttempts
    BY <1>1 DEF TypeOK, Closure
  <2>2. Held(c.job)' => Held(c.job) /\ job'[c.job].att = job[c.job].att
    BY <1>1, <2>1, HeldStays DEF Held
  <2>3. RowMoves(c.job, c.att)
    BY <2>1
  <2>4. CASE c \in detached
    <3>1. /\ \A s \in Live : task[s].job = c.job => task[s].pc = "record"
          /\ Held(c.job) => /\ c.att = job[c.job].att
                            /\ metric[c.job][c.att] \in Ends \cup {"running"}
      BY <2>4 DEF RecordsInv, DetachedStand
    <3>2. \A s \in Live' : task'[s].job = c.job => task'[s].pc = "record"
      <4> SUFFICES ASSUME NEW s \in Live', task'[s].job = c.job PROVE task'[s].pc = "record"
        OBVIOUS
      <4>1. s \in Live /\ s \in Slot /\ task[s].pc = "record"
        BY <3>1, StaysLive DEF Live
      <4> QED BY <1>2, <4>1 DEF Closing, Live
    <3> QED BY <2>2, <2>3, <3>1, <3>2 DEF RowMoves
  <2>5. ASSUME NEW o \in Slot, task[o].pc = "publish", task'[o].pc = "record",
               c.job = task[o].job, c.att = task[o].att
        PROVE  /\ \A s \in Live' : task'[s].job = c.job => task'[s].pc = "record"
               /\ Held(c.job)' => /\ c.att = job'[c.job].att
                                  /\ metric'[c.job][c.att] \in Ends \cup {"running"}
    <3>1. o \in Live /\ o \in Live'
      BY <2>5 DEF Live
    <3>2. task'[o].job = c.job
      BY <2>5, <3>1, StaysLive
    <3>3. \A s \in Live' : task'[s].job = c.job => s = o
      BY <1>1, <3>1, <3>2 DEF Safe, OneCollectionPerDsp, Owner
    <3>4. Held(c.job) => c.att = job[c.job].att /\ metric[c.job][c.att] = "running"
      BY <2>5, <3>1 DEF RecordsInv, RowRuns, Safe, HolderIsNewest
    <3> QED BY <2>2, <2>3, <2>5, <3>3, <3>4 DEF RowMoves
  <2> QED BY <2>4, <2>5 DEF Dropped
<1>6. SuccessHasData'
  <2> SUFFICES ASSUME NEW j \in Job, NEW a \in 1 .. MaxAttempts
               PROVE  /\ metric'[j][a] = "succeeded" => j \in published'
                      /\ job'[j].st = "succeeded" /\ job'[j].att = a =>
                             metric'[j][a] \in {"succeeded", "failed", "cancelled"}
    BY DEF SuccessHasData
  <2>1. /\ metric[j][a] = "succeeded" => j \in published
        /\ job[j].st = "succeeded" /\ job[j].att = a =>
               metric[j][a] \in {"succeeded", "failed", "cancelled"}
    BY DEF RecordsInv, SuccessHasData
  <2>2. JobMoves(j) /\ RowMoves(j, a)
    OBVIOUS
  <2> QED BY <2>1, <2>2 DEF JobMoves, RowMoves, Ends
<1> QED BY <1>1, <1>3, <1>4, <1>5, <1>6 DEF RecordsInv

-----------------------------------------------------------------------------
(* The actions that write rows and recorders.                              *)

LEMMA SaveMoves ==
    ASSUME RowsTyped, NEW k \in Job, NEW b \in 1 .. MaxAttempts, NEW o \in Ends,
           metric' = Save(k, b, o)
    PROVE  /\ metric' \in [Job -> [1 .. MaxAttempts -> Outcome]]
           /\ \A j \in Job : \A a \in 1 .. MaxAttempts :
                \/ metric'[j][a] = metric[j][a]
                \/ j = k /\ a = b /\ metric[j][a] = "running" /\ metric'[j][a] = o
           /\ metric[k][b] \in Ends \cup {"running"} => metric'[k][b] \in Ends
<1>1. o \in Outcome
  BY DEF Ends, Outcome
<1>2. CASE metric[k][b] # "running"
  BY <1>2 DEF Save, RowsTyped
<1>3. CASE metric[k][b] = "running"
  BY <1>1, <1>3 DEF Save, RowsTyped
<1> QED BY <1>2, <1>3

LEMMA SealedMoves ==
    ASSUME RowsTyped, NEW k \in Job, NEW b \in 1 .. MaxAttempts, NEW o \in Ends,
           recorder' = Sealed(k, b, o)
    PROVE  /\ recorder' \in [Job -> [1 .. MaxAttempts -> Sealing]]
           /\ \A j \in Job : \A a \in 1 .. MaxAttempts :
                recorder'[j][a] = recorder[j][a] \/ (j = k /\ recorder'[j][a] = o)
           /\ recorder'[k][b] \in Ends
<1>1. o \in Sealing
  BY DEF Ends, Sealing
<1>2. CASE recorder[k][b] # "running"
  <2>1. recorder' = recorder
    BY <1>2 DEF Sealed
  <2>2. recorder[k][b] \in Sealing
    BY DEF RowsTyped
  <2> QED BY <1>2, <2>1, <2>2 DEF RowsTyped, Sealing, Ends
<1>3. CASE recorder[k][b] = "running"
  <2>1. recorder' = [recorder EXCEPT ![k][b] = o]
    BY <1>3 DEF Sealed
  <2>2. recorder' \in [Job -> [1 .. MaxAttempts -> Sealing]]
    BY <1>1, <2>1 DEF RowsTyped
  <2>3. recorder'[k][b] = o
    BY <2>1 DEF RowsTyped
  <2>4. \A j \in Job : \A a \in 1 .. MaxAttempts :
            recorder'[j][a] = recorder[j][a] \/ (j = k /\ recorder'[j][a] = o)
    BY <2>1 DEF RowsTyped
  <2> QED BY <2>2, <2>3, <2>4
<1> QED BY <1>2, <1>3

\* A step that saves nothing.
LEMMA UnsavedKeeps ==
    ASSUME RecordsInv, [Next]_vars, Calm, UNCHANGED <<published, metric, recorder>>,
           \A j \in Job : Kept(j), \A c \in detached' : c \in detached \/ Dropped(c)
    PROVE  RecordsInv'
<1>1. RowsTyped' /\ SealedHasData' /\ published \subseteq published'
  BY DEF RecordsInv, RowsTyped, SealedHasData
<1>2. \A j \in Job : JobMoves(j) /\ \A a \in 1 .. MaxAttempts : RowMoves(j, a)
  BY DEF Kept, JobMoves, RowMoves
<1> QED BY <1>1, <1>2, CalmKeepsRecords

LEMMA UnrecordingKeeps == ASSUME RecordsInv, Unrecording, UNCHANGED records PROVE RecordsInv'
<1>1. Safe /\ [Next]_vars
  BY DEF RecordsInv, Unrecording, Next, Scheduler, Executor, Process
<1>2. UNCHANGED <<metric, recorder>>
  BY DEF records
<1>3. CASE Requests
  <2>1. UNCHANGED <<published, detached>>
    BY <1>3 DEF Requests, Enqueue, Cancel, SetServes, SetGrant, StopConnection, SaveConnection,
         AbandonConnection
  <2>2. \A j \in Job : Kept(j)
    BY <1>3, RequestsKeep
  <2> QED BY <1>1, <1>2, <1>3, <2>1, <2>2, RequestsCalm, UnsavedKeeps
<1>4. ASSUME NEW j \in Job, LeaseLapses(j) \/ Due(j) PROVE RecordsInv'
  <2>1. UNCHANGED <<published, detached>>
    BY <1>4 DEF LeaseLapses, Due
  <2>2. \A k \in Job : Kept(k)
    BY <1>4, ScheduledKeep
  <2> QED BY <1>1, <1>2, <1>4, <2>1, <2>2, ScheduledCalm, UnsavedKeeps
<1>5. CASE (\E d \in Dsp : PoolChanges(d)) \/ Stop
  <2>1. UNCHANGED <<published, detached, job>>
    BY <1>5 DEF PoolChanges, Stop
  <2>2. \A k \in Job : Kept(k)
    BY <2>1 DEF Kept
  <2>3. Calm
    BY <1>1, <1>5, SchedulerCalm, ProcessCalm
  <2> QED BY <1>1, <1>2, <2>1, <2>2, <2>3, UnsavedKeeps
<1>6. ASSUME NEW s \in Slot,
             \/ CheckStart(s) \/ OpenBrowser(s) \/ MarkWaiting(s) \/ AwaitOwner(s)
             \/ Begin(s) \/ Collect(s) \/ Heartbeat(s) \/ Unrecorded(s)
      PROVE  RecordsInv'
  <2>1. UNCHANGED published
    BY <1>6 DEF CheckStart, OpenBrowser, MarkWaiting, AwaitOwner, Begin, Collect, Heartbeat, Unrecorded
  <2>2. \A c \in detached' : c \in detached \/ Dropped(c)
    <3>1. CASE Heartbeat(s)
      <4>1. task \in [Slot -> TaskRow \cup {Idle}]
        BY <1>1 DEF Safe, TypeOK
      <4>2. \E e \in {"fatal", "job_cancelled"} : Fail(s, e)
        BY <3>1 DEF Heartbeat, GuardError
      <4>3. task'[s].pc = "record"
        BY <3>1, <4>1, <4>2 DEF Heartbeat, Fail, Idle, TaskRow
      <4>4. \A c \in detached' : \/ c \in detached
                                 \/ /\ task[s].pc = "publish"
                                    /\ c = [job |-> task[s].job, att |-> task[s].att]
        BY <3>1 DEF Heartbeat
      <4> QED BY <4>3, <4>4 DEF Dropped
    <3>2. CASE ~Heartbeat(s)
      BY <1>6, <3>2 DEF CheckStart, OpenBrowser, MarkWaiting, AwaitOwner, Begin, Collect, Unrecorded
    <3> QED BY <3>1, <3>2
  <2>3. \A k \in Job : Kept(k)
    BY <1>6, TasksKeep
  <2>4. Calm
    BY <1>1, <1>6, ExecutorCalm DEF Executor
  <2> QED BY <1>1, <1>2, <2>1, <2>2, <2>3, <2>4, UnsavedKeeps
<1> QED BY <1>3, <1>4, <1>5, <1>6 DEF Unrecording

LEMMA SealKeeps == ASSUME RecordsInv, NEW s \in Slot, Seal(s) PROVE RecordsInv'
<1>1. Safe /\ UNCHANGED vars /\ [Next]_vars /\ metric' = metric
  BY DEF RecordsInv, Seal
<1>2. task[s].job \in Job /\ task[s].att \in 1 .. MaxAttempts
  BY <1>1, LiveRow DEF Seal, Safe
<1>3. Calm
  BY <1>1, TasksStay, NoRowCalm DEF vars, Safe, TypeOK
<1>4. PICK o \in {"cancelled", "failed"} : recorder' = Sealed(task[s].job, task[s].att, o)
  BY DEF Seal
<1>5. /\ recorder' \in [Job -> [1 .. MaxAttempts -> Sealing]]
      /\ \A j \in Job : \A a \in 1 .. MaxAttempts :
            recorder'[j][a] = recorder[j][a] \/ recorder'[j][a] = o
  BY <1>2, <1>4, SealedMoves DEF RecordsInv, Ends
<1>6. RowsTyped' /\ SealedHasData'
  BY <1>1, <1>5 DEF RecordsInv, RowsTyped, SealedHasData, vars
<1>7. \A j \in Job : JobMoves(j) /\ \A a \in 1 .. MaxAttempts : RowMoves(j, a)
  BY <1>1 DEF JobMoves, RowMoves, vars
<1> QED BY <1>1, <1>3, <1>6, <1>7, CalmKeepsRecords DEF vars

LEMMA CompleteKeeps == ASSUME RecordsInv, NEW s \in Slot, CompleteRecorded(s) PROVE RecordsInv'
<1>1. Safe /\ Complete(s) /\ [Next]_vars /\ Calm
  BY ExecutorCalm DEF RecordsInv, CompleteRecorded, Next, Executor
<1>2. \A k \in Job : Kept(k)
  BY <1>1, TasksKeep
<1>3. UNCHANGED <<published, metric, recorder, detached>>
  BY <1>1 DEF CompleteRecorded, Complete
<1> QED BY <1>1, <1>2, <1>3, UnsavedKeeps

LEMMA RecordKeeps == ASSUME RecordsInv, NEW s \in Slot, RecordRecorded(s) PROVE RecordsInv'
<1> DEFINE k == task[s].job
           b == task[s].att
           o == recorder[k][b]
<1>1. Safe /\ Record(s) /\ [Next]_vars /\ Calm
  BY ExecutorCalm DEF RecordsInv, RecordRecorded, Next, Executor
<1>2. k \in Job /\ b \in 1 .. MaxAttempts /\ s \in Live
  BY <1>1, LiveRow DEF Record, Safe, Live
<1>3. o \in Ends /\ (o = "succeeded" => k \in published)
  <2>1. o \in Sealing /\ o # "running"
    BY <1>2 DEF RecordRecorded, RecordsInv, RowsTyped
  <2> QED BY <1>2, <2>1 DEF RecordsInv, Sealing, Ends, SealedHasData
<1>4. metric' = Save(k, b, o) /\ UNCHANGED <<recorder, published, detached>>
  BY <1>1 DEF RecordRecorded, Record
<1>5. \A t \in Live' : task'[t].job # k
  <2>1. task' = [task EXCEPT ![s] = Idle]
    BY <1>1 DEF Record
  <2>2. \A t \in Live' : t \in Live /\ t # s /\ task'[t].job = task[t].job
    BY <1>1, <2>1 DEF Live, Idle, Safe, TypeOK
  <2> QED BY <1>1, <1>2, <2>2 DEF Safe, OneCollectionPerDsp
<1> HIDE DEF k, b, o
<1>6. /\ metric' \in [Job -> [1 .. MaxAttempts -> Outcome]]
      /\ \A j \in Job : \A a \in 1 .. MaxAttempts :
            \/ metric'[j][a] = metric[j][a]
            \/ j = k /\ metric[j][a] = "running" /\ metric'[j][a] = o
  BY <1>2, <1>3, <1>4, SaveMoves DEF RecordsInv
<1>7. RowsTyped' /\ SealedHasData'
  BY <1>4, <1>6 DEF RecordsInv, RowsTyped, SealedHasData
<1>8. \A j \in Job : \A a \in 1 .. MaxAttempts : RowMoves(j, a)
  BY <1>3, <1>4, <1>5, <1>6 DEF RowMoves
<1>9. \A j \in Job : JobMoves(j)
  BY <1>1, TasksKeep DEF Kept, JobMoves
<1> QED BY <1>1, <1>4, <1>7, <1>8, <1>9, CalmKeepsRecords

LEMMA RecoverKeeps == ASSUME RecordsInv, RecoverRecorded PROVE RecordsInv'
<1>1. Safe /\ RecoverExpired /\ [Next]_vars /\ Calm
  BY SchedulerCalm DEF RecordsInv, RecoverRecorded, Next, Scheduler
<1>2. metric' = Interrupted(metric, Expired) /\ UNCHANGED <<recorder, published, detached>>
  BY <1>1 DEF RecoverRecorded, RecoverExpired
<1>3. \A j \in Job : Kept(j)
  BY <1>1, RecoveredKeeps DEF RecoverExpired
<1>4. \A j \in Expired : ~Held(j)'
  <2>1. \A j \in Expired : Settled(job'[j])
    BY <1>1, RecoveredRows DEF RecoverExpired, Expired
  <2> QED BY <2>1 DEF Held, Settled
<1>5. metric' \in [Job -> [1 .. MaxAttempts -> Outcome]]
  BY <1>2 DEF RecordsInv, RowsTyped, Interrupted, Outcome
<1>6. \A j \in Job : \A a \in 1 .. MaxAttempts :
        \/ metric'[j][a] = metric[j][a]
        \/ j \in Expired /\ metric[j][a] = "running" /\ metric'[j][a] = "interrupted"
  BY <1>2 DEF Interrupted
<1>7. RowsTyped' /\ SealedHasData'
  BY <1>2, <1>5 DEF RecordsInv, RowsTyped, SealedHasData
<1>8. \A j \in Job : JobMoves(j) /\ \A a \in 1 .. MaxAttempts : RowMoves(j, a)
  BY <1>3, <1>4, <1>6 DEF Kept, JobMoves, RowMoves
<1> QED BY <1>1, <1>2, <1>7, <1>8, CalmKeepsRecords

-----------------------------------------------------------------------------
(* Publications, by a task and after it was dropped.                       *)

\* A publication of job k under its attempt b, whose row was open or had ended.
LEMMA PublicationKeeps ==
    ASSUME RecordsInv, [Next]_vars, Calm, NEW k \in Job, NEW b \in 1 .. MaxAttempts,
           b = job[k].att, metric[k][b] \in Ends \cup {"running"},
           recorder' = Sealed(k, b, "succeeded"),
           \/ metric' = Save(k, b, recorder'[k][b])
           \/ metric' = metric /\ job' = job,
           published' = published \cup {k}, detached' \subseteq detached,
           \A j \in Job : j # k => job'[j] = job[j],
           job'[k].att = job[k].att /\ job'[k].st # "absent",
           \A s \in Live' : task'[s].job = k => task'[s].pc \in {"record", "completed"}
    PROVE  RecordsInv'
<1>1. RowsTyped /\ SealedHasData
  BY DEF RecordsInv
<1>2. /\ recorder' \in [Job -> [1 .. MaxAttempts -> Sealing]]
      /\ \A j \in Job : \A a \in 1 .. MaxAttempts :
            recorder'[j][a] = recorder[j][a] \/ (j = k /\ recorder'[j][a] = "succeeded")
      /\ recorder'[k][b] \in Ends
  BY <1>1, SealedMoves DEF Ends
<1>3. SealedHasData'
  BY <1>1, <1>2 DEF SealedHasData
<1>4. CASE metric' = metric /\ job' = job
  <2>1. RowsTyped'
    BY <1>1, <1>2, <1>4 DEF RowsTyped
  <2>2. \A j \in Job : JobMoves(j) /\ \A a \in 1 .. MaxAttempts : RowMoves(j, a)
    BY <1>4 DEF JobMoves, RowMoves
  <2> QED BY <1>3, <2>1, <2>2, CalmKeepsRecords
<1>5. CASE metric' = Save(k, b, recorder'[k][b])
  <2>1. /\ metric' \in [Job -> [1 .. MaxAttempts -> Outcome]]
        /\ \A j \in Job : \A a \in 1 .. MaxAttempts :
              \/ metric'[j][a] = metric[j][a]
              \/ j = k /\ metric[j][a] = "running" /\ metric'[j][a] = recorder'[k][b]
        /\ metric'[k][b] \in Ends
    <3> DEFINE o == recorder'[k][b]
    <3>1. o \in Ends /\ metric' = Save(k, b, o)
      BY <1>2, <1>5
    <3> HIDE DEF o
    <3>2. /\ metric' \in [Job -> [1 .. MaxAttempts -> Outcome]]
          /\ \A j \in Job : \A a \in 1 .. MaxAttempts :
                \/ metric'[j][a] = metric[j][a]
                \/ j = k /\ a = b /\ metric[j][a] = "running" /\ metric'[j][a] = o
          /\ metric[k][b] \in Ends \cup {"running"} => metric'[k][b] \in Ends
      BY <1>1, <3>1, SaveMoves
    <3> QED BY <3>2 DEF o
  <2>2. RowsTyped'
    BY <1>2, <2>1 DEF RowsTyped
  <2>3. \A j \in Job : JobMoves(j)
    BY <2>1 DEF JobMoves
  <2>4. \A j \in Job : \A a \in 1 .. MaxAttempts : RowMoves(j, a)
    BY <1>2, <2>1 DEF RowMoves
  <2> QED BY <1>3, <2>2, <2>3, <2>4, CalmKeepsRecords
<1> QED BY <1>4, <1>5

LEMMA FinishedRow ==
    ASSUME Safe, NEW k \in Job, Guard(k), PublishAndFinish(k) \/ PublishOnly(k)
    PROVE  /\ published' = published \cup {k}
           /\ \A j \in Job : j # k => job'[j] = job[j]
           /\ job'[k].att = job[k].att /\ job'[k].st # "absent"
<1>1. job \in [Job -> JobRow] /\ job[k].st \in LeasedStatus
  BY DEF Safe, TypeOK, Guard, Held
<1>2. CASE PublishOnly(k)
  BY <1>1, <1>2 DEF PublishOnly, LeasedStatus
<1>3. CASE PublishAndFinish(k)
  <2> DEFINE row == [Unleased(job[k]) EXCEPT !.st = "succeeded"]
  <2>1. row.att = job[k].att /\ row.st = "succeeded"
    BY <1>1 DEF Unleased, JobRow
  <2>2. job' = [job EXCEPT ![k] = row]
    BY <1>3 DEF PublishAndFinish
  <2> HIDE DEF row
  <2>3. job'[k] = row /\ \A j \in Job : j # k => job'[j] = job[j]
    BY <1>1, <2>2
  <2> QED BY <1>3, <2>1, <2>3 DEF PublishAndFinish
<1> QED BY <1>2, <1>3

LEMMA PublishKeeps == ASSUME RecordsInv, NEW s \in Slot, PublishRecorded(s) PROVE RecordsInv'
<1> DEFINE k == task[s].job
           b == task[s].att
<1>1. Safe /\ Publish(s) /\ [Next]_vars /\ Calm
  BY ExecutorCalm DEF RecordsInv, PublishRecorded, Next, Executor
<1>2. k \in Job /\ b \in 1 .. MaxAttempts /\ s \in Live /\ task \in [Slot -> TaskRow \cup {Idle}]
  BY <1>1, LiveRow DEF Publish, Safe, Live, TypeOK
<1>3. Guard(k) => b = job[k].att /\ metric[k][b] \in Ends \cup {"running"}
  <2>1. task[s].pc = "publish"
    BY <1>1 DEF Publish
  <2> QED BY <1>1, <1>2, <2>1 DEF RecordsInv, RowRuns, Safe, HolderIsNewest, Guard
<1>4. task'[s].pc \in {"record", "completed"}
  <2>1. \/ GoTo(s, "completed")
        \/ \E e \in {"retryable", "fatal", "job_cancelled"} : Fail(s, e)
    BY <1>1 DEF Publish, GuardError
  <2>2. DOMAIN task[s] = {"pc", "job", "att", "sess", "err"}
    BY <1>2 DEF TaskRow, Idle
  <2>3. GoTo(s, "completed") => task'[s].pc = "completed"
    BY <1>2, <2>2 DEF GoTo
  <2>4. ASSUME NEW e \in {"retryable", "fatal", "job_cancelled"}, Fail(s, e) PROVE task'[s].pc = "record"
    BY <1>2, <2>2, <2>4 DEF Fail
  <2> QED BY <2>1, <2>3, <2>4
<1>5. \A t \in Live' : task'[t].job = k => task'[t].pc \in {"record", "completed"}
  <2> SUFFICES ASSUME NEW t \in Live', task'[t].job = k PROVE task'[t].pc \in {"record", "completed"}
    OBVIOUS
  <2>1. t \in Live /\ task[t].job = k
    BY <1>1, StaysLive
  <2>2. t = s
    BY <1>1, <1>2, <2>1 DEF Safe, OneCollectionPerDsp
  <2> QED BY <1>4, <2>2
<1>6. detached' = detached
  BY <1>1 DEF Publish
<1>7. CASE task'[s].pc = "completed" /\ Published(k, b)
  <2>1. Guard(k) /\ PublishAndFinish(k)
    <3>1. DOMAIN task[s] = {"pc", "job", "att", "sess", "err"}
      BY <1>2 DEF TaskRow, Idle
    <3>2. ASSUME NEW e \in {"retryable", "fatal", "job_cancelled"}, Fail(s, e) PROVE task'[s].pc = "record"
      BY <1>2, <3>1, <3>2 DEF Fail
    <3>3. ~\E e \in {"retryable", "fatal", "job_cancelled"} : Fail(s, e)
      BY <1>7, <3>2
    <3> QED BY <1>1, <3>3 DEF Publish, GuardError
  <2>2. /\ published' = published \cup {k}
        /\ \A j \in Job : j # k => job'[j] = job[j]
        /\ job'[k].att = job[k].att /\ job'[k].st # "absent"
    BY <1>1, <1>2, <2>1, FinishedRow
  <2>3. recorder' = Sealed(k, b, "succeeded") /\ metric' = Save(k, b, recorder'[k][b])
    BY <1>7 DEF Published
  <2> HIDE DEF k, b
  <2> QED BY <1>1, <1>2, <1>3, <1>5, <1>6, <2>1, <2>2, <2>3, PublicationKeeps
<1>8. CASE PublishedOnly(k, b)
  <2>1. Guard(k) /\ PublishOnly(k) /\ job' = job
    BY <1>8 DEF PublishedOnly, PublishOnly
  <2>2. /\ published' = published \cup {k}
        /\ \A j \in Job : j # k => job'[j] = job[j]
        /\ job'[k].att = job[k].att /\ job'[k].st # "absent"
    BY <1>1, <1>2, <2>1, FinishedRow
  <2>3. /\ recorder' = Sealed(k, b, "succeeded")
        /\ metric' = Save(k, b, recorder'[k][b]) \/ (metric' = metric /\ job' = job)
    BY <1>8, <2>1 DEF PublishedOnly
  <2> HIDE DEF k, b
  <2> QED BY <1>1, <1>2, <1>3, <1>5, <1>6, <2>1, <2>2, <2>3, PublicationKeeps
<1>9. CASE task'[s].pc # "completed" /\ UNCHANGED <<published, metric, recorder>>
  <2>1. ~GoTo(s, "completed")
    <3>1. "pc" \in DOMAIN task[s]
      BY <1>2 DEF TaskRow, Idle
    <3> QED BY <1>2, <1>9, <3>1 DEF GoTo
  <2>2. job' = job
    BY <1>1, <2>1 DEF Publish, PublishOnly
  <2>3. \A j \in Job : Kept(j)
    BY <2>2 DEF Kept
  <2> QED BY <1>1, <1>6, <1>9, <2>3, UnsavedKeeps
<1> QED BY <1>7, <1>8, <1>9 DEF PublishRecorded

LEMMA DetachedKeeps == ASSUME RecordsInv, NEW c \in detached, DetachedRecorded(c) PROVE RecordsInv'
<1>1. Safe /\ RunDetached(c) /\ [Next]_vars /\ Calm
  BY ProcessCalm DEF RecordsInv, DetachedRecorded, Next, Process
<1>2. c.job \in Job /\ c.att \in 1 .. MaxAttempts
  BY <1>1 DEF Safe, TypeOK, Closure
<1>3. Guard(c.job) => c.att = job[c.job].att /\ metric[c.job][c.att] \in Ends \cup {"running"}
  BY DEF RecordsInv, DetachedStand, Guard
<1>4. detached' \subseteq detached /\ task' = task
  BY <1>1 DEF RunDetached
<1>5. \A t \in Live' : task'[t].job = c.job => task'[t].pc \in {"record", "completed"}
  BY <1>4 DEF Live, RecordsInv, DetachedStand
<1>6. CASE job' # job /\ Published(c.job, c.att)
  <2>1. Guard(c.job) /\ PublishAndFinish(c.job)
    BY <1>1, <1>6 DEF RunDetached, PublishOnly
  <2>2. /\ published' = published \cup {c.job}
        /\ \A j \in Job : j # c.job => job'[j] = job[j]
        /\ job'[c.job].att = job[c.job].att /\ job'[c.job].st # "absent"
    BY <1>1, <1>2, <2>1, FinishedRow
  <2>3. recorder' = Sealed(c.job, c.att, "succeeded") /\ metric' = Save(c.job, c.att, recorder'[c.job][c.att])
    BY <1>6 DEF Published
  <2> QED BY <1>1, <1>2, <1>3, <1>4, <1>5, <2>1, <2>2, <2>3, PublicationKeeps
<1>7. CASE PublishedOnly(c.job, c.att)
  <2>1. Guard(c.job) /\ PublishOnly(c.job) /\ job' = job
    BY <1>7 DEF PublishedOnly, PublishOnly
  <2>2. /\ published' = published \cup {c.job}
        /\ \A j \in Job : j # c.job => job'[j] = job[j]
        /\ job'[c.job].att = job[c.job].att /\ job'[c.job].st # "absent"
    BY <1>1, <1>2, <2>1, FinishedRow
  <2>3. /\ recorder' = Sealed(c.job, c.att, "succeeded")
        /\ metric' = Save(c.job, c.att, recorder'[c.job][c.att]) \/ (metric' = metric /\ job' = job)
    BY <1>7, <2>1 DEF PublishedOnly
  <2> QED BY <1>1, <1>2, <1>3, <1>4, <1>5, <2>1, <2>2, <2>3, PublicationKeeps
<1>8. CASE UNCHANGED <<job, published, metric, recorder>>
  <2>1. \A j \in Job : Kept(j)
    BY <1>8 DEF Kept
  <2> QED BY <1>1, <1>4, <1>8, <2>1, UnsavedKeeps
<1> QED BY <1>6, <1>7, <1>8 DEF DetachedRecorded

-----------------------------------------------------------------------------
(* A claim, a deferral and a start: the steps that are not calm.           *)

LEMMA ClaimKeeps == ASSUME RecordsInv, NEW s \in Slot, NEW k \in Job, ClaimRecorded(s, k) PROVE RecordsInv'
<1> DEFINE b == job[k].att + 1
           row == [job[k] EXCEPT !.st = "running", !.att = b, !.owner = worker, !.lease = "live"]
           t == [pc |-> "guard", job |-> k, att |-> b, sess |-> 0, err |-> "none"]
<1>1. Safe /\ Claim(s, k) /\ RowsTyped
  BY DEF RecordsInv, ClaimRecorded
<1>2. Safe'
  BY <1>1, ClaimIsSafe
<1>3. job \in [Job -> JobRow] /\ task \in [Slot -> TaskRow \cup {Idle}]
  BY <1>1 DEF Safe, TypeOK
<1>4. b \in 1 .. MaxAttempts /\ job[k].att \in Nat
  <2>1. job[k].st = "queued" /\ job[k].att \in 0 .. MaxAttempts
    BY <1>1, <1>3 DEF Claim, Claimable, JobRow
  <2>2. job[k].att < MaxAttempts
    BY <1>1, <2>1 DEF Safe, WaitingHasAttempts
  <2> QED BY <2>1, <2>2, LimitAssumption
<1>5. job' = [job EXCEPT ![k] = row] /\ task' = [task EXCEPT ![s] = t]
  BY <1>1, <1>3 DEF Claim, JobRow
<1>6. row.st = "running" /\ row.att = b
  BY <1>3 DEF JobRow
<1>7. /\ metric' = [metric EXCEPT ![k][b] = "running"]
      /\ recorder' = [recorder EXCEPT ![k][b] = "running"]
      /\ metric[k][b] = "none" /\ UNCHANGED <<published, detached, worker>>
  BY <1>1 DEF ClaimRecorded, Claim
<1>8. /\ \A c \in detached : c.job # k
      /\ \A o \in Live : task[o].job # k
      /\ task[s] = Idle
  <2>1. \A o \in Live : task[o].job # k
    BY <1>1 DEF Claim, Claimable, RunningDsps
  <2> QED BY <1>1, <2>1 DEF Claim
<1> HIDE DEF b, row
<1>9. /\ job'[k].st = "running" /\ job'[k].att = b
      /\ \A j \in Job : j # k => job'[j] = job[j]
  BY <1>3, <1>5, <1>6
<1>10. /\ metric' \in [Job -> [1 .. MaxAttempts -> Outcome]] /\ recorder' \in [Job -> [1 .. MaxAttempts -> Sealing]]
       /\ metric'[k][b] = "running" /\ recorder'[k][b] = "running"
       /\ \A j \in Job : \A a \in 1 .. MaxAttempts :
             (j = k /\ a = b) \/ (metric'[j][a] = metric[j][a] /\ recorder'[j][a] = recorder[j][a])
  <2>1. metric' \in [Job -> [1 .. MaxAttempts -> Outcome]] /\ recorder' \in [Job -> [1 .. MaxAttempts -> Sealing]]
    BY <1>1, <1>4, <1>7 DEF RowsTyped, Outcome, Sealing
  <2>2. metric'[k][b] = "running" /\ recorder'[k][b] = "running"
    BY <1>1, <1>4, <1>7 DEF RowsTyped
  <2>3. \A j \in Job : \A a \in 1 .. MaxAttempts : (j = k /\ a = b) \/ metric'[j][a] = metric[j][a]
    BY <1>1, <1>7 DEF RowsTyped
  <2>4. \A j \in Job : \A a \in 1 .. MaxAttempts : (j = k /\ a = b) \/ recorder'[j][a] = recorder[j][a]
    BY <1>1, <1>7 DEF RowsTyped
  <2> QED BY <2>1, <2>2, <2>3, <2>4
<1>11. /\ task'[s] = t
       /\ \A o \in Live' : o = s \/ (o \in Live /\ task'[o] = task[o])
  BY <1>3, <1>5 DEF Live
<1>12. NoRowAhead'
  <2>1. b = job[k].att + 1
    BY DEF b
  <2>2. \A a \in 1 .. MaxAttempts : a > b => a > job[k].att /\ a # b
    BY <1>4, <2>1
  <2> QED BY <1>9, <1>10, <2>2 DEF RecordsInv, NoRowAhead
<1>13. RowRuns'
  <2> SUFFICES ASSUME NEW o \in Live', task'[o].pc \notin {"record", "completed"}, Held(task[o].job)'
               PROVE  metric'[task'[o].job][task'[o].att] = "running"
    BY DEF RowRuns
  <2>1. CASE o = s
    BY <1>10, <1>11, <2>1
  <2>2. CASE o \in Live /\ task'[o] = task[o]
    <3>1. task[o].job \in Job /\ task[o].att \in 1 .. MaxAttempts /\ task[o].job # k
      BY <1>1, <1>8, <2>2, LiveRow DEF Live, Safe
    <3>2. Held(task[o].job)
      BY <1>7, <1>9, <2>2, <3>1 DEF Held
    <3> QED BY <1>10, <2>2, <3>1, <3>2 DEF RecordsInv, RowRuns
  <2> QED BY <1>11, <2>1, <2>2
<1>14. DetachedStand'
  <2> SUFFICES ASSUME NEW c \in detached
               PROVE  /\ \A o \in Live' : task'[o].job = c.job => task'[o].pc = "record"
                      /\ Held(c.job)' => /\ c.att = job'[c.job].att
                                         /\ metric'[c.job][c.att] \in Ends \cup {"running"}
    BY <1>7 DEF DetachedStand
  <2>1. c.job \in Job /\ c.att \in 1 .. MaxAttempts /\ c.job # k
    BY <1>1, <1>8 DEF Safe, TypeOK, Closure
  <2>2. \A o \in Live' : task'[o].job = c.job => task'[o].pc = "record"
    BY <1>11, <2>1 DEF RecordsInv, DetachedStand
  <2>3. Held(c.job)' => Held(c.job)
    BY <1>7, <1>9, <2>1 DEF Held
  <2> QED BY <1>9, <1>10, <2>1, <2>2, <2>3 DEF RecordsInv, DetachedStand
<1>15. SealedHasData'
  BY <1>7, <1>10 DEF RecordsInv, SealedHasData
<1>16. SuccessHasData'
  BY <1>7, <1>9, <1>10 DEF RecordsInv, SuccessHasData
<1> QED BY <1>2, <1>10, <1>12, <1>13, <1>14, <1>15, <1>16 DEF RecordsInv, RowsTyped

\* The row a deferral deletes says "running".
LEMMA DeferredRowRuns ==
    ASSUME RecordsInv, NEW s \in Slot, Defer(s), task'[s] = Idle
    PROVE  /\ task[s].job \in Job /\ task[s].att \in 1 .. MaxAttempts /\ s \in Live
           /\ job[task[s].job].st = "running" /\ task[s].att = job[task[s].job].att
           /\ metric[task[s].job][task[s].att] = "running"
           /\ job' = [job EXCEPT ![task[s].job] = Deferred(task[s].job)]
           /\ task' = [task EXCEPT ![s] = Idle]
<1>1. Safe /\ task[s].pc = "defer" /\ task \in [Slot -> TaskRow \cup {Idle}]
  BY DEF RecordsInv, Safe, TypeOK, Defer
<1>2. task[s].job \in Job /\ task[s].att \in 1 .. MaxAttempts /\ s \in Live
  BY <1>1, LiveRow DEF Safe, Live
<1>3. ~GoTo(s, "record")
  <2>1. "pc" \in DOMAIN task[s] /\ Idle.pc = "idle"
    BY <1>1 DEF TaskRow, Idle
  <2> QED BY <1>1, <2>1 DEF GoTo
<1>4. /\ job[task[s].job].owner = worker /\ job[task[s].job].st = "running"
      /\ job' = [job EXCEPT ![task[s].job] = Deferred(task[s].job)]
      /\ task' = [task EXCEPT ![s] = Idle]
  BY <1>3 DEF Defer
<1>5. Held(task[s].job)
  BY <1>4 DEF Held, LeasedStatus
<1> QED BY <1>1, <1>2, <1>4, <1>5 DEF Safe, HolderIsNewest, RecordsInv, RowRuns

LEMMA DeferKeeps == ASSUME RecordsInv, NEW s \in Slot, DeferRecorded(s) PROVE RecordsInv'
<1> DEFINE k == task[s].job
           b == task[s].att
<1>1. Safe /\ Defer(s) /\ RowsTyped /\ [Next]_vars
  BY DEF RecordsInv, DeferRecorded, Next, Executor
<1>2. UNCHANGED <<recorder, published, detached, worker>>
  BY <1>1 DEF DeferRecorded, Defer
<1>3. CASE task'[s] # Idle
  <2>1. job' = job /\ metric' = metric
    <3>1. task' = [task EXCEPT ![s] = Idle] => task'[s] = Idle
      BY <1>1 DEF Safe, TypeOK
    <3> QED BY <1>1, <1>3, <3>1 DEF Defer, DeferRecorded
  <2>2. \A j \in Job : Kept(j)
    BY <2>1 DEF Kept
  <2>3. Calm
    BY <1>1, ExecutorCalm DEF Executor
  <2> QED BY <1>1, <1>2, <2>1, <2>2, <2>3, UnsavedKeeps
<1>4. CASE task'[s] = Idle
  <2>1. /\ k \in Job /\ b \in 1 .. MaxAttempts /\ s \in Live
        /\ job[k].st = "running" /\ b = job[k].att /\ metric[k][b] = "running"
        /\ job' = [job EXCEPT ![k] = Deferred(k)]
        /\ task' = [task EXCEPT ![s] = Idle]
    BY <1>1, <1>4, DeferredRowRuns
  <2>2. metric' = [metric EXCEPT ![k][b] = "none"]
    BY <1>4 DEF DeferRecorded, RowDeleted
  <2>3. Safe'
    BY <1>1, NextIsSafe
  <2>4. job \in [Job -> JobRow] /\ task \in [Slot -> TaskRow \cup {Idle}]
    BY <1>1 DEF Safe, TypeOK
  <2>5. /\ job'[k].st = "delayed" /\ job'[k].att = b - 1 /\ job'[k].owner = NoOwner
        /\ \A j \in Job : j # k => job'[j] = job[j]
    <3>1. Deferred(k).st = "delayed" /\ Deferred(k).att = job[k].att - 1 /\ Deferred(k).owner = NoOwner
      <4> DEFINE n == job[k].att - 1
      <4>1. job[k] \in JobRow /\ Deferred(k) = [Unleased(job[k]) EXCEPT !.st = "delayed", !.att = n]
        BY <2>1, <2>4 DEF Deferred
      <4> HIDE DEF n
      <4>2. Deferred(k).st = "delayed" /\ Deferred(k).att = n /\ Deferred(k).owner = NoOwner
        BY <4>1 DEF Unleased, JobRow
      <4> QED BY <4>2 DEF n
    <3> QED BY <2>1, <2>4, <3>1
  <2>6. \A o \in Live' : o \in Live /\ task'[o] = task[o] /\ task[o].job # k
    <3>1. \A o \in Live' : o \in Live /\ o # s /\ task'[o] = task[o]
      BY <2>1, <2>4 DEF Live, Idle
    <3> QED BY <1>1, <2>1, <3>1 DEF Safe, OneCollectionPerDsp
  <2>7. \A c \in detached : c.job # k
    <3>1. task[s].pc # "record"
      BY <1>1 DEF Defer
    <3> QED BY <2>1, <3>1 DEF RecordsInv, DetachedStand
  <2> HIDE DEF k, b
  <2>8. /\ metric' \in [Job -> [1 .. MaxAttempts -> Outcome]] /\ metric'[k][b] = "none"
        /\ \A j \in Job : \A a \in 1 .. MaxAttempts : (j = k /\ a = b) \/ metric'[j][a] = metric[j][a]
    <3>1. metric' \in [Job -> [1 .. MaxAttempts -> Outcome]]
      BY <1>1, <2>1, <2>2 DEF RowsTyped, Outcome
    <3>2. metric'[k][b] = "none"
      BY <1>1, <2>1, <2>2 DEF RowsTyped
    <3>3. \A j \in Job : \A a \in 1 .. MaxAttempts : (j = k /\ a = b) \/ metric'[j][a] = metric[j][a]
      BY <1>1, <2>1, <2>2 DEF RowsTyped
    <3> QED BY <3>1, <3>2, <3>3
  <2>9. NoRowAhead'
    <3>1. \A a \in 1 .. MaxAttempts : a > b - 1 => a = b \/ a > job[k].att
      BY <2>1
    <3>2. \A a \in 1 .. MaxAttempts : a > job'[k].att => metric'[k][a] = "none"
      BY <2>1, <2>5, <2>8, <3>1 DEF RecordsInv, NoRowAhead
    <3> QED BY <2>1, <2>5, <2>8, <3>2 DEF RecordsInv, NoRowAhead
  <2>10. RowRuns'
    <3> SUFFICES ASSUME NEW o \in Live', task'[o].pc \notin {"record", "completed"}, Held(task[o].job)'
                 PROVE  metric'[task'[o].job][task'[o].att] = "running"
      BY DEF RowRuns
    <3>1. task[o].job \in Job /\ task[o].att \in 1 .. MaxAttempts /\ task[o].job # k /\ o \in Live
      BY <1>1, <2>6, LiveRow DEF Live, Safe
    <3>2. Held(task[o].job)
      BY <1>2, <2>5, <2>6, <3>1 DEF Held
    <3> QED BY <2>6, <2>8, <3>1, <3>2 DEF RecordsInv, RowRuns
  <2>11. DetachedStand'
    <3> SUFFICES ASSUME NEW c \in detached
                 PROVE  /\ \A o \in Live' : task'[o].job = c.job => task'[o].pc = "record"
                        /\ Held(c.job)' => /\ c.att = job'[c.job].att
                                           /\ metric'[c.job][c.att] \in Ends \cup {"running"}
      BY <1>2 DEF DetachedStand
    <3>1. c.job \in Job /\ c.att \in 1 .. MaxAttempts /\ c.job # k
      BY <1>1, <2>7 DEF Safe, TypeOK, Closure
    <3>2. \A o \in Live' : task'[o].job = c.job => task'[o].pc = "record"
      BY <2>6 DEF RecordsInv, DetachedStand
    <3>3. Held(c.job)' => Held(c.job)
      BY <1>2, <2>5, <3>1 DEF Held
    <3> QED BY <2>5, <2>8, <3>1, <3>2, <3>3 DEF RecordsInv, DetachedStand
  <2>12. SealedHasData'
    BY <1>2 DEF RecordsInv, SealedHasData
  <2>13. SuccessHasData'
    BY <1>2, <2>1, <2>5, <2>8 DEF RecordsInv, SuccessHasData
  <2> QED BY <1>1, <1>2, <2>3, <2>8, <2>9, <2>10, <2>11, <2>12, <2>13 DEF RecordsInv, RowsTyped
<1> QED BY <1>3, <1>4

LEMMA StartKeeps ==
    ASSUME RecordsInv, NEW torn \in SUBSET Job, RestartRecorded(torn)
    PROVE  RecordsInv'
<1>1. Safe /\ Restart(torn) /\ RowsTyped
  BY DEF RecordsInv, RestartRecorded
<1>2. Safe'
  BY <1>1, RestartIsSafe
<1>3. /\ task' = [s \in Slot |-> Idle] /\ detached' = {} /\ published' = published \cup torn
      /\ job' = Recovered(LostAtStart) /\ recorder' = recorder
  BY <1>1 DEF Restart, RestartRecorded
<1>4. \A j \in Job : Kept(j)
  BY <1>3, RecoveredKeeps
<1>5. metric' \in [Job -> [1 .. MaxAttempts -> Outcome]]
  BY <1>1 DEF RestartRecorded, RowsTyped, Interrupted, Cancelled, Outcome
<1>6. \A j \in Job : \A a \in 1 .. MaxAttempts :
        \/ metric'[j][a] = metric[j][a]
        \/ metric[j][a] = "running" /\ metric'[j][a] \in {"interrupted", "cancelled"}
  BY DEF RestartRecorded, Interrupted, Cancelled
<1>7. Live' = {}
  BY <1>3 DEF Live, Idle
<1>8. RowRuns' /\ DetachedStand'
  BY <1>3, <1>7 DEF RowRuns, DetachedStand
<1>9. NoRowAhead'
  BY <1>4, <1>6 DEF RecordsInv, NoRowAhead, Kept
<1>10. SealedHasData'
  BY <1>3 DEF RecordsInv, SealedHasData
<1>11. SuccessHasData'
  <2> SUFFICES ASSUME NEW j \in Job, NEW a \in 1 .. MaxAttempts
               PROVE  /\ metric'[j][a] = "succeeded" => j \in published'
                      /\ job'[j].st = "succeeded" /\ job'[j].att = a =>
                             metric'[j][a] \in {"succeeded", "failed", "cancelled"}
    BY DEF SuccessHasData
  <2> QED BY <1>3, <1>4, <1>6 DEF RecordsInv, SuccessHasData, Kept
<1> QED BY <1>1, <1>2, <1>3, <1>5, <1>8, <1>9, <1>10, <1>11 DEF RecordsInv, RowsTyped

-----------------------------------------------------------------------------
(* The theorems.                                                           *)

LEMMA RecordsInvInit == RecordsInit => RecordsInv
<1> SUFFICES ASSUME RecordsInit PROVE RecordsInv
  OBVIOUS
<1>1. Safe
  BY InitIsSafe DEF RecordsInit
<1>2. Live = {} /\ detached = {} /\ \A j \in Job : job[j] = Absent
  BY DEF RecordsInit, Init, Live, Idle
<1>3. RowsTyped /\ \A j \in Job : \A a \in 1 .. MaxAttempts : metric[j][a] = "none" /\ recorder[j][a] = "running"
  BY DEF RecordsInit, RowsTyped, Outcome, Sealing
<1>4. NoRowAhead /\ SealedHasData /\ SuccessHasData
  BY <1>2, <1>3 DEF NoRowAhead, SealedHasData, SuccessHasData, Absent
<1> QED BY <1>1, <1>2, <1>3, <1>4 DEF RecordsInv, RowRuns, DetachedStand

LEMMA RecordsInvNext == RecordsInv /\ [RecordsNext]_rvars => RecordsInv'
<1> SUFFICES ASSUME RecordsInv, [RecordsNext]_rvars PROVE RecordsInv'
  OBVIOUS
<1>1. CASE UNCHANGED rvars
  <2>1. UNCHANGED vars /\ [Next]_vars /\ UNCHANGED <<metric, recorder>>
    BY <1>1 DEF rvars, records
  <2>2. Calm
    BY <2>1, TasksStay, NoRowCalm DEF vars, Safe, TypeOK, RecordsInv
  <2>3. \A j \in Job : Kept(j)
    BY <2>1 DEF Kept, vars
  <2> QED BY <2>1, <2>2, <2>3, UnsavedKeeps DEF vars
<1> QED BY <1>1, UnrecordingKeeps, ClaimKeeps, DeferKeeps, PublishKeeps, SealKeeps, RecordKeeps,
           CompleteKeeps, DetachedKeeps, RecoverKeeps, StartKeeps DEF RecordsNext

\* The inductive invariant of the queue with its records: no row is ahead of the attempts that were
\* counted, the row of a task that may still defer or publish says "running", and a publication
\* whose task was dropped is alone with that task's last closure.
THEOREM RecordsInvHolds == RecordsSpec => []RecordsInv
  BY RecordsInvInit, RecordsInvNext, PTL DEF RecordsSpec

\* The insert of the next attempt's row finds its key free (claim_job, queue.rs), through retries,
\* deferrals that give the number back, recoveries and restarts.
THEOREM NextRowIsFree == RecordsSpec => []NextAttemptHasNoRow
<1>1. RecordsInv => NextAttemptHasNoRow
  <2> SUFFICES ASSUME RecordsInv, NEW j \in Job, NEW a \in job[j].att + 1 .. MaxAttempts
               PROVE  metric[j][a] = "none"
    BY DEF NextAttemptHasNoRow
  <2>1. job[j].att \in Nat
    BY DEF RecordsInv, Safe, TypeOK, JobRow
  <2>2. a \in 1 .. MaxAttempts /\ a > job[j].att
    BY <2>1, LimitAssumption
  <2> QED BY <2>2 DEF RecordsInv, NoRowAhead
<1> QED BY <1>1, RecordsInvHolds, PTL

\* A row says "succeeded" only of a job whose data was published, and the last attempt of a job that
\* succeeded has ended, also when its publication outlived its task (executor.rs, job_metrics.rs).
THEOREM SuccessWasPublished == RecordsSpec => []SuccessHasData
<1>1. RecordsInv => SuccessHasData
  BY DEF RecordsInv
<1> QED BY <1>1, RecordsInvHolds, PTL

\* What MetricsSealed says of a step.
OutcomesStay ==
    \A j \in Job, a \in 1 .. MaxAttempts :
        metric[j][a] \notin {"none", "running"} => metric'[j][a] = metric[j][a]

LEMMA RecordsNextSeals == ASSUME RecordsInv, RecordsNext PROVE OutcomesStay
<1>0. RowsTyped /\ Safe
  BY DEF RecordsInv
<1>1. ASSUME NEW k, NEW b, NEW x, metric[k][b] \in {"none", "running"}, metric' = [metric EXCEPT ![k][b] = x]
      PROVE  OutcomesStay
  BY <1>0, <1>1 DEF RowsTyped, OutcomesStay
<1>2. ASSUME metric' = metric PROVE OutcomesStay
  BY <1>2 DEF OutcomesStay
<1>3. ASSUME NEW k, NEW b, NEW x, metric' = Save(k, b, x) PROVE OutcomesStay
  BY <1>1, <1>2, <1>3 DEF Save
<1>4. ASSUME NEW s \in Slot, NEW j \in Job, ClaimRecorded(s, j) PROVE OutcomesStay
  BY <1>1, <1>4 DEF ClaimRecorded
<1>5. ASSUME NEW s \in Slot, DeferRecorded(s) PROVE OutcomesStay
  <2>1. CASE task'[s] = Idle
    <3>1. metric[task[s].job][task[s].att] = "running"
      BY <1>5, <2>1, DeferredRowRuns DEF DeferRecorded
    <3>2. metric' = [metric EXCEPT ![task[s].job][task[s].att] = "none"]
      BY <1>5, <2>1 DEF DeferRecorded, RowDeleted
    <3> QED BY <1>1, <3>1, <3>2
  <2> QED BY <1>2, <1>5, <2>1 DEF DeferRecorded
<1>6. ASSUME NEW s \in Slot, PublishRecorded(s) \/ RecordRecorded(s) PROVE OutcomesStay
  BY <1>2, <1>3, <1>6 DEF PublishRecorded, RecordRecorded, Published, PublishedOnly
<1>7. ASSUME NEW c \in detached, DetachedRecorded(c) PROVE OutcomesStay
  BY <1>2, <1>3, <1>7 DEF DetachedRecorded, Published, PublishedOnly
<1>8. ASSUME RecoverRecorded PROVE OutcomesStay
  BY <1>8 DEF RecoverRecorded, Interrupted, OutcomesStay
<1>9. ASSUME NEW torn \in SUBSET Job, RestartRecorded(torn) PROVE OutcomesStay
  BY <1>9 DEF RestartRecorded, Interrupted, Cancelled, OutcomesStay
<1>10. ASSUME NEW s \in Slot, Seal(s) \/ CompleteRecorded(s) PROVE OutcomesStay
  BY <1>2, <1>10 DEF Seal, CompleteRecorded
<1>11. CASE Unrecording /\ UNCHANGED records
  BY <1>2, <1>11 DEF records
<1> QED BY <1>4, <1>5, <1>6, <1>7, <1>8, <1>9, <1>10, <1>11 DEF RecordsNext

\* An attempt's outcome is written once (save_metrics, INTERRUPT_METRICS, the deferral's DELETE).
THEOREM OutcomesAreSealed == RecordsSpec => MetricsSealed
<1>1. RecordsInv /\ [RecordsNext]_rvars => [OutcomesStay]_rvars
  BY RecordsNextSeals
<1>2. RecordsSpec => [][OutcomesStay]_rvars
  BY <1>1, RecordsInvHolds, PTL DEF RecordsSpec
<1> QED BY <1>2 DEF MetricsSealed, OutcomesStay

-----------------------------------------------------------------------------
(***************************************************************************)
(* Whose turn it is: whoever ended a job while another DSP waited has      *)
(* completed later than that one (OvertakenStand), and the claim takes the *)
(* one that completed first.                                               *)
(***************************************************************************)

\* A step stamps the DSPs whose jobs end in it, and no others.
Stamps == later' = Completed(Ending)

OvertakenStand ==
    /\ overtaken \in [Dsp -> SUBSET Dsp]
    /\ \A d \in Dsp : \A e \in overtaken[d] : <<e, d>> \in later

LEMMA HitsEnd ==
  ASSUME Safe, NEW hit \in SUBSET Job,
         \A j \in hit : job[j].st \notin FinalStatus /\ job'[j].st \in FinalStatus,
         \A j \in Job \ hit : job'[j].st \in FinalStatus => job[j].st \in FinalStatus,
         later' = Completed({Owner(j) : j \in hit})
  PROVE  Stamps
<1>1. {k \in Job : job[k].st \notin FinalStatus /\ job'[k].st \in FinalStatus} = hit
  OBVIOUS
<1> QED BY <1>1 DEF Stamps, Ending

LEMMA NothingEnds ==
  ASSUME Safe, later' = later,
         \A j \in Job : job'[j].st \in FinalStatus => job[j].st \in FinalStatus
  PROVE  Stamps
<1>1. Ending = {}
  BY DEF Ending
<1>2. Completed({}) = later
  BY DEF Safe, TypeOK, Completed
<1> QED BY <1>1, <1>2 DEF Stamps

LEMMA CancelStamps == ASSUME Safe, NEW which \in SUBSET Job, CancelJobs(which) PROVE Stamps
<1> DEFINE hit == Cancellable(which)
<1>1. hit \in SUBSET Job /\ \A j \in hit : job[j].st \notin FinalStatus
  BY DEF Cancellable, ActiveStatus, LeasedStatus, FinalStatus
<1>2. \A j \in hit : job'[j].st = "cancelled"
  <2> SUFFICES ASSUME NEW j \in hit PROVE job'[j].st = "cancelled"
    OBVIOUS
  <2>1. job[j] \in JobRow
    BY <1>1 DEF Safe, TypeOK
  <2>2. job'[j] = [Unleased(job[j]) EXCEPT !.st = "cancelled"]
    BY <1>1 DEF CancelJobs
  <2> QED BY <2>1, <2>2 DEF Unleased, JobRow
<1>3. \A j \in Job \ hit : job'[j] = job[j]
  BY DEF CancelJobs
<1>4. later' = Completed({Owner(j) : j \in hit})
  BY DEF CancelJobs
<1> HIDE DEF hit
<1> QED BY <1>1, <1>2, <1>3, <1>4, HitsEnd DEF FinalStatus

LEMMA RecoveryStamps ==
  ASSUME Safe, NEW lost \in SUBSET Leased, job' = Recovered(lost), later' = Completed(Ended(lost))
  PROVE  Stamps
<1> DEFINE hit == {k \in lost : job[k].att >= MaxAttempts}
<1>1. lost \in SUBSET Job /\ \A j \in lost : job[j].st \notin FinalStatus
  BY DEF Leased, LeasedStatus, FinalStatus
<1>2. ASSUME NEW j \in lost
      PROVE  job'[j].st = IF job[j].att >= MaxAttempts THEN "failed" ELSE "queued"
  <2>1. job[j] \in JobRow
    BY <1>1 DEF Safe, TypeOK
  <2>2. job'[j] = [Unleased(job[j]) EXCEPT !.st =
            IF job[j].att >= MaxAttempts THEN "failed" ELSE "queued"]
    BY <1>1 DEF Recovered
  <2> QED BY <2>1, <2>2 DEF Unleased, JobRow
<1>3. \A j \in Job \ lost : job'[j] = job[j]
  BY DEF Recovered
<1>4. hit \in SUBSET Job /\ \A j \in hit : job[j].st \notin FinalStatus /\ job'[j].st \in FinalStatus
  BY <1>1, <1>2 DEF FinalStatus
<1>5. \A j \in Job \ hit : job'[j].st \in FinalStatus => job[j].st \in FinalStatus
  BY <1>2, <1>3 DEF FinalStatus
<1>6. later' = Completed({Owner(j) : j \in hit})
  BY DEF Ended
<1> HIDE DEF hit
<1> QED BY <1>4, <1>5, <1>6, HitsEnd

\* A held job's row is replaced: its DSP is stamped if the row is final.
LEMMA RowStamps ==
  ASSUME Safe, NEW j \in Job, job[j].st \notin FinalStatus, NEW row, row.st \in FinalStatus,
         job' = [job EXCEPT ![j] = row], later' = Completed({Owner(j)})
  PROVE  Stamps
<1>1. job'[j] = row /\ \A k \in Job \ {j} : job'[k] = job[k]
  BY DEF Safe, TypeOK
<1>2. {Owner(k) : k \in {j}} = {Owner(j)}
  OBVIOUS
<1> QED BY <1>1, <1>2, HitsEnd

LEMMA PublicationStamps ==
  ASSUME Safe, NEW j \in Job, Guard(j), PublishAndFinish(j) PROVE Stamps
<1>1. job[j].st \notin FinalStatus
  BY DEF Guard, Held, LeasedStatus, FinalStatus
<1> DEFINE row == [Unleased(job[j]) EXCEPT !.st = "succeeded"]
<1>2. row.st \in FinalStatus
  BY DEF Safe, TypeOK, Unleased, JobRow, FinalStatus
<1>3. job' = [job EXCEPT ![j] = row] /\ later' = Completed({Owner(j)})
  BY DEF PublishAndFinish
<1> HIDE DEF row
<1> QED BY <1>1, <1>2, <1>3, RowStamps

LEMMA RowsStand == ASSUME Safe, UNCHANGED <<job, later>> PROVE Stamps
BY NothingEnds

LEMMA RequestsStamp == ASSUME Safe, Requests PROVE Stamps
<1>1. ASSUME NEW d \in Dsp, NEW actor, NEW batch, Enqueue(d, actor, batch) PROVE Stamps
  <2>1. \A j \in Job : job'[j].st \in FinalStatus => job[j].st \in FinalStatus
    BY <1>1 DEF Enqueue, FinalStatus
  <2> QED BY <1>1, <2>1, NothingEnds DEF Enqueue
<1>2. ASSUME NEW j \in Job, Cancel(j) PROVE Stamps
  BY <1>2, CancelStamps DEF Cancel
<1>3. ASSUME NEW d \in Dsp, NEW on, NEW partial, SetServes(d, on, partial) PROVE Stamps
  BY <1>3, CancelStamps, RowsStand DEF SetServes, JobsOf
<1>4. ASSUME NEW c \in Conn, StopConnection(c) PROVE Stamps
  BY <1>4, CancelStamps DEF StopConnection
<1> QED BY <1>1, <1>2, <1>3, <1>4, RowsStand DEF Requests, SetGrant, AbandonConnection, SaveConnection

LEMMA SchedulerStamps == ASSUME Safe, Scheduler PROVE Stamps
<1>1. ASSUME NEW s \in Slot, NEW j \in Job, Claim(s, j) PROVE Stamps
  <2>1. job[j].st \notin FinalStatus /\ job'[j].st = "running" /\ \A k \in Job \ {j} : job'[k] = job[k]
    BY <1>1 DEF Claim, Claimable, FinalStatus, Safe, TypeOK, JobRow
  <2> QED BY <1>1, <2>1, NothingEnds DEF Claim, FinalStatus
<1>2. CASE RecoverExpired
  BY <1>2, RecoveryStamps DEF RecoverExpired, Expired
<1>3. ASSUME NEW j \in Job, LeaseLapses(j) \/ Due(j) PROVE Stamps
  <2>1. \A k \in Job : job'[k].st \in FinalStatus => job[k].st \in FinalStatus
    <3>1. job[j] \in JobRow
      BY DEF Safe, TypeOK
    <3>2. job'[j].st \in {job[j].st, "queued"}
      <4>1. CASE LeaseLapses(j)
        BY <3>1, <4>1 DEF LeaseLapses, Safe, TypeOK, JobRow
      <4>2. CASE Due(j)
        BY <3>1, <4>2 DEF Due, Safe, TypeOK, JobRow
      <4> QED BY <1>3, <4>1, <4>2
    <3>3. \A k \in Job \ {j} : job'[k] = job[k]
      BY <1>3 DEF LeaseLapses, Due, Safe, TypeOK
    <3> QED BY <3>2, <3>3 DEF FinalStatus
  <2> QED BY <1>3, <2>1, NothingEnds DEF LeaseLapses, Due
<1> QED BY <1>1, <1>2, <1>3, RowsStand DEF Scheduler, PoolChanges

LEMMA ExecutorStamps == ASSUME Safe, NEW s \in Slot, Executor(s) PROVE Stamps
<1> DEFINE j == task[s].job
<1>0. task[s].pc # "idle" => j \in Job
  BY LiveRow DEF Safe, Live
<1>1. CASE MarkWaiting(s) \/ Begin(s)
  <2>1. \A k \in Job : job'[k].st \in FinalStatus => job[k].st \in FinalStatus
    BY <1>0, <1>1 DEF MarkWaiting, Begin, FinalStatus, Safe, TypeOK, JobRow
  <2> QED BY <1>1, <2>1, NothingEnds DEF MarkWaiting, Begin
<1>2. CASE Publish(s)
  <2>1. CASE Guard(j) /\ PublishAndFinish(j)
    BY <1>0, <1>2, <2>1, PublicationStamps DEF Publish
  <2> QED BY <1>2, <2>1, RowsStand DEF Publish, PublishOnly
<1>3. CASE Defer(s)
  <2>1. \A k \in Job : job'[k].st \in FinalStatus => job[k].st \in FinalStatus
    <3>1. CASE job' = [job EXCEPT ![j] = Deferred(j)]
      <4>1. j \in Job /\ job[j] \in JobRow
        BY <1>0, <1>3 DEF Defer, Safe, TypeOK
      <4>2. Deferred(j).st = "delayed"
        BY <4>1 DEF Deferred, Unleased, JobRow
      <4>3. job'[j] = Deferred(j) /\ \A k \in Job \ {j} : job'[k] = job[k]
        BY <3>1, <4>1 DEF Safe, TypeOK
      <4> QED BY <4>2, <4>3 DEF FinalStatus
    <3> QED BY <1>3, <3>1 DEF Defer
  <2> QED BY <1>3, <2>1, NothingEnds DEF Defer
<1>4. CASE Record(s)
  <2> DEFINE row == IF Held(j) THEN Finished(j, task[s].err) ELSE job[j]
  <2>1. j \in Job /\ job[j] \in JobRow
    BY <1>0, <1>4 DEF Record, Safe, TypeOK
  <2>2. /\ job' = [job EXCEPT ![j] = row]
        /\ later' = Completed(IF Held(j) /\ row.st = "failed" THEN {Owner(j)} ELSE {})
    BY <1>4 DEF Record
  <2>3. Held(j) => job[j].st \notin FinalStatus /\ row.st \in {"failed", "delayed"}
    BY <2>1 DEF Held, LeasedStatus, FinalStatus, Finished, Unleased, JobRow
  <2>4. ~Held(j) => row = job[j]
    OBVIOUS
  <2>5. Completed({}) = later
    BY DEF Safe, TypeOK, Completed
  <2>6. job'[j] = row /\ \A k \in Job \ {j} : job'[k] = job[k]
    BY <2>1, <2>2 DEF Safe, TypeOK
  <2> HIDE DEF row, j
  <2>7. CASE Held(j) /\ row.st = "failed"
    <3>1. later' = Completed({Owner(j)}) /\ row.st \in FinalStatus
      BY <2>2, <2>7 DEF FinalStatus
    <3> QED BY <2>1, <2>2, <2>3, <2>7, <3>1, RowStamps
  <2>8. CASE ~(Held(j) /\ row.st = "failed")
    <3>1. later' = later
      BY <2>2, <2>5, <2>8
    <3>2. \A k \in Job : job'[k].st \in FinalStatus => job[k].st \in FinalStatus
      BY <2>3, <2>4, <2>6, <2>8 DEF FinalStatus
    <3> QED BY <3>1, <3>2, NothingEnds
  <2> QED BY <2>7, <2>8
<1> QED BY <1>1, <1>2, <1>3, <1>4, RowsStand DEF Executor, CheckStart, OpenBrowser,
    AwaitOwner, Collect, Heartbeat, Complete, Unrecorded

LEMMA ProcessStamps == ASSUME Safe, Process PROVE Stamps
<1>1. ASSUME NEW c \in detached, RunDetached(c) PROVE Stamps
  <2>1. c.job \in Job
    BY DEF Safe, TypeOK, Closure
  <2> QED BY <1>1, <2>1, PublicationStamps, RowsStand DEF RunDetached, PublishOnly
<1>2. ASSUME NEW torn, Restart(torn) PROVE Stamps
  BY <1>2, RecoveryStamps DEF Restart, LostAtStart
<1> QED BY <1>1, <1>2, RowsStand DEF Process, Stop

\* Whatever ends a job stamps its DSP, in the same closure.
LEMMA EveryEndIsStamped == ASSUME Safe, [Next]_vars PROVE Stamps
BY RequestsStamp, SchedulerStamps, ExecutorStamps, ProcessStamps, RowsStand DEF Next, vars

LEMMA OvertakenKeeps ==
  ASSUME Safe, OvertakenStand, [Next /\ Observe]_tvars PROVE OvertakenStand'
<1>1. CASE UNCHANGED tvars
  BY <1>1 DEF tvars, vars, OvertakenStand
<1>2. CASE Next /\ Observe
  <2>1. later' = Completed(Ending)
    BY <1>2, EveryEndIsStamped DEF Stamps
  <2>2. Ending \in SUBSET Dsp
    BY Operators DEF Ending, Safe
  <2>3. \A d \in Dsp : overtaken'[d] # {} =>
          d \notin Ending /\ overtaken'[d] \subseteq overtaken[d] \cup Ending
    BY <1>2 DEF Observe
  <2>4. overtaken' \in [Dsp -> SUBSET Dsp]
    BY <1>2, <2>2 DEF Observe, OvertakenStand
  <2>5. ASSUME NEW d \in Dsp, NEW e \in overtaken'[d] PROVE <<e, d>> \in later'
    <3>1. d \notin Ending /\ e \in overtaken[d] \cup Ending
      BY <2>3, <2>5
    <3>2. CASE e \in overtaken[d]
      BY <2>1, <3>1, <3>2 DEF OvertakenStand, Completed
    <3>3. CASE e \in Ending
      BY <2>1, <3>1, <3>3 DEF Completed
    <3> QED BY <3>1, <3>2, <3>3
  <2> QED BY <2>4, <2>5 DEF OvertakenStand
<1> QED BY <1>1, <1>2

\* Only a claim gives an empty place a task.
LEMMA OnlyClaimsServe ==
  ASSUME Safe, Next, NEW s \in Slot, task[s] = Idle, task'[s] # Idle
  PROVE  \E j \in Job : Claim(s, j) /\ task'[s].job = j
<1>1. Calm => task'[s] = Idle
  BY DEF Calm, TasksCalm, Idle
<1>2. ASSUME NEW j \in Job, LeaseLapses(j) \/ Due(j) PROVE Calm
  BY <1>2, ScheduledCalm
<1>3. ASSUME NEW o \in Slot, NEW j \in Job, Claim(o, j) PROVE o = s /\ task'[s].job = j
  BY <1>3 DEF Claim, Safe, TypeOK
<1>4. ASSUME NEW torn, Restart(torn) PROVE task'[s] = Idle
  BY <1>4 DEF Restart
<1>5. \E o \in Slot, j \in Job : Claim(o, j)
  BY <1>1, <1>2, <1>4, RequestsCalm, SchedulerCalm, ExecutorCalm, ProcessCalm
     DEF Next, Scheduler, Process
<1> QED BY <1>3, <1>5

LEMMA NobodyIsPassed ==
  ASSUME Safe, OvertakenStand, [Next /\ Observe]_tvars,
         NEW d \in Dsp, NEW e \in Dsp, Waiting(d), Served(e)
  PROVE  e \notin overtaken[d]
<1>1. PICK s \in Slot : task[s] = Idle /\ task'[s] # Idle /\ Owner(task'[s].job) = e
  BY DEF Served
<1>2. Next
  BY <1>1 DEF tvars, vars
<1>3. PICK j \in Job : Claim(s, j) /\ task'[s].job = j
  BY <1>1, <1>2, OnlyClaimsServe
<1>4. PICK k \in Job : Owner(k) = d /\ Claimable(k)
  BY DEF Waiting, JobsOf
<1>5. <<e, d>> \notin later
  BY <1>1, <1>3, <1>4 DEF Claim, Precedes
<1> QED BY <1>5 DEF OvertakenStand

\* The observer changes nothing: every run of JobTurns is one of the queue.
LEMMA TurnsObserve == TurnsSpec => Spec
<1>1. TurnsInit => Init
  BY DEF TurnsInit
<1>2. [Next /\ Observe]_tvars => [Next]_vars
  BY DEF tvars
<1> QED BY <1>1, <1>2, PTL DEF TurnsSpec, Spec

\* A busy DSP passes a waiting one at most once (CLAIMABLE's order, jobs/queue.rs), for any
\* number of DSPs, jobs and slots.
THEOREM WaitingIsPassedOnce == TurnsSpec => NobodyPassesTwice
<1>1. TurnsInit => OvertakenStand
  BY DEF TurnsInit, OvertakenStand
<1>2. Safe /\ OvertakenStand /\ [Next /\ Observe]_tvars => OvertakenStand'
  BY OvertakenKeeps
<1>3. Safe /\ OvertakenStand /\ [Next /\ Observe]_tvars =>
        [\A d, e \in Dsp : Waiting(d) /\ Served(e) => e \notin overtaken[d]]_tvars
  BY NobodyIsPassed
<1> QED BY <1>1, <1>2, <1>3, AlwaysSafe, TurnsObserve, PTL DEF TurnsSpec, NobodyPassesTwice
=============================================================================
