----------------------------- MODULE JobRecords -----------------------------
(***************************************************************************)
(* What the collection queue leaves behind for its readers: one row of     *)
(* job_metrics per attempt (job_metrics.rs, jobs/queue.rs) and the audit   *)
(* entries of the executor (jobs/executor.rs).  Every action is one of     *)
(* JobQueue with what the same closure writes here.  A row that says       *)
(* "running" is always of this process: recovery closes the others, so the *)
(* owner column is not modelled.                                           *)
(***************************************************************************)
EXTENDS JobQueue

VARIABLES
    metric,  \* metric[j][a]: outcome of attempt a of job j, "none" without a row
    recorder,\* recorder[j][a]: the outcome in the Recorder that the attempt's task shares
             \* with its publication closure (job_metrics.rs), "running" until sealed
    log      \* log[j]: the executor's audit entries about job j

records == <<metric, recorder, log>>
rvars == <<vars, records>>

Outcome == {"none", "running", "succeeded", "failed", "cancelled", "interrupted"}
Sealing == {"running", "succeeded", "failed", "cancelled"}
Entry   == {"completed", "failed", "retrying"}

RecordsTypeOK ==
    /\ TypeOK
    /\ metric \in [Job -> [1 .. MaxAttempts -> Outcome]]
    /\ recorder \in [Job -> [1 .. MaxAttempts -> Sealing]]
    /\ log \in [Job -> SUBSET Entry]

RecordsInit ==
    /\ Init
    /\ metric = [j \in Job |-> [a \in 1 .. MaxAttempts |-> "none"]]
    /\ recorder = [j \in Job |-> [a \in 1 .. MaxAttempts |-> "running"]]
    /\ log = [j \in Job |-> {}]

-----------------------------------------------------------------------------
\* save_metrics: only a row that still says "running" is written.
Save(j, a, outcome) ==
    IF metric[j][a] = "running" THEN [metric EXCEPT ![j][a] = outcome] ELSE metric

\* INTERRUPT_METRICS over the leased jobs `lost`, whatever attempt their rows are of.
InterruptedAll(table, lost) ==     \* (Weakened: earlier attempts too.)
    [j \in Job |-> [a \in 1 .. MaxAttempts |->
        IF j \in lost /\ table[j][a] # "none" THEN "interrupted" ELSE table[j][a]]]
Interrupted(table, lost) ==
    [j \in Job |-> [a \in 1 .. MaxAttempts |->
        IF j \in lost /\ table[j][a] = "running" THEN "interrupted" ELSE table[j][a]]]

\* CANCEL_RUNNING_METRICS.
Cancelled(table) ==
    [j \in Job |-> [a \in 1 .. MaxAttempts |->
        IF job[j].st = "cancelled" /\ table[j][a] = "running" THEN "cancelled"
        ELSE table[j][a]]]

\* Recorder::finish: the first outcome stays.
Sealed(j, a, outcome) ==
    IF recorder[j][a] = "running" THEN [recorder EXCEPT ![j][a] = outcome] ELSE recorder

\* The insert is a part of the claim's transaction; its key must be free.
ClaimRecorded(s, j) ==
    LET a == job[j].att + 1 IN
    /\ Claim(s, j)
    /\ metric[j][a] = "none"
    /\ metric' = [metric EXCEPT ![j][a] = "running"]
    /\ recorder' = [recorder EXCEPT ![j][a] = "running"]
    /\ UNCHANGED log

\* A deferral deletes the row of the attempt that never was.
RowLeft(j, a)    == metric   \* (Weakened.)
RowDeleted(j, a) == [metric EXCEPT ![j][a] = "none"]

DeferRecorded(s) ==
    /\ Defer(s)
    /\ metric' = IF task'[s] = Idle THEN RowDeleted(task[s].job, task[s].att) ELSE metric
    /\ UNCHANGED <<recorder, log>>

\* The publication closure seals the recorder between the collector's commit and the
\* transaction that saves its snapshot and finishes the job.
Published(j, a) ==
    /\ recorder' = Sealed(j, a, "succeeded")
    /\ metric' = Save(j, a, recorder'[j][a])

\* When that transaction fails, the sampler may still save the snapshot.
PublishedOnly(j, a) ==
    /\ Guard(j) /\ PublishOnly(j)
    /\ recorder' = Sealed(j, a, "succeeded")
    /\ metric' \in {metric, Save(j, a, recorder'[j][a])}

PublishRecorded(s) ==
    LET t == task[s] IN
    /\ Publish(s)
    /\ \/ task'[s].pc = "completed" /\ Published(t.job, t.att)
       \/ task'[s].err = "fatal" /\ PublishedOnly(t.job, t.att)
       \/ task'[s].pc # "completed" /\ UNCHANGED <<published, metric, recorder>>
    /\ UNCHANGED log

DetachedRecorded(c) ==
    /\ RunDetached(c)
    /\ \/ job' # job /\ Published(c.job, c.att)
       \/ PublishedOnly(c.job, c.att)
       \/ UNCHANGED <<job, published, metric, recorder>>
    /\ UNCHANGED log

\* The failed task seals its recorder: "cancelled" when the job is found cancelled now,
\* or when the error is one of a withdrawal, as some that retry nothing are.
Seal(s) ==
    LET t == task[s] IN
    /\ t.pc = "record" /\ recorder[t.job][t.att] = "running"
    /\ \E outcome \in {"cancelled", "failed"} :
         /\ outcome = "cancelled" =>
                job[t.job].st = "cancelled" \/ t.err \in {"job_cancelled", "fatal"}
         /\ outcome = "failed" => t.err # "job_cancelled"
         /\ recorder' = Sealed(t.job, t.att, outcome)
    /\ UNCHANGED <<vars, metric, log>>

\* The last closure saves the recorder's outcome; its audit entry goes by the error
\* and by whether the job is queued again.
RecordRecorded(s) ==
    LET t == task[s] IN
    /\ Record(s)
    /\ recorder[t.job][t.att] # "running"
    /\ metric' = Save(t.job, t.att, recorder[t.job][t.att])
    /\ IF t.err = "job_cancelled" THEN UNCHANGED log
       ELSE log' = [log EXCEPT ![t.job] = @ \cup
                {IF job'[t.job].st \in {"queued", "delayed"} THEN "retrying" ELSE "failed"}]
    /\ UNCHANGED recorder

CompleteRecorded(s) ==
    /\ Complete(s)
    /\ log' = [log EXCEPT ![task[s].job] = @ \cup {"completed"}]
    /\ UNCHANGED <<metric, recorder>>

RecoverRecorded ==
    /\ RecoverExpired
    /\ metric' = Interrupted(metric, Expired)
    /\ UNCHANGED <<recorder, log>>

RestartRecorded(torn) ==
    /\ Restart(torn)
    /\ metric' = Interrupted(Cancelled(metric), LostAtStart)
    /\ UNCHANGED <<recorder, log>>

\* Steps that write neither table.
Unrecording ==
    \/ Requests
    \/ \E j \in Job : LeaseLapses(j) \/ Due(j)
    \/ \E d \in Dsp : PoolChanges(d)
    \/ \E s \in Slot : \/ CheckStart(s) \/ OpenBrowser(s) \/ MarkWaiting(s) \/ AwaitOwner(s)
                       \/ Begin(s) \/ Collect(s) \/ Heartbeat(s) \/ Unrecorded(s)
    \/ Stop

RecordsNext ==
    \/ Unrecording /\ UNCHANGED records
    \/ \E s \in Slot, j \in Job : ClaimRecorded(s, j)
    \/ \E s \in Slot : \/ DeferRecorded(s) \/ PublishRecorded(s)
                       \/ Seal(s) \/ RecordRecorded(s) \/ CompleteRecorded(s)
    \/ \E c \in detached : DetachedRecorded(c)
    \/ RecoverRecorded
    \/ \E torn \in SUBSET Job : RestartRecorded(torn)

RecordsSpec == RecordsInit /\ [][RecordsNext]_rvars

-----------------------------------------------------------------------------
(* Properties                                                              *)

\* claim_job inserts the row of the next attempt: a row left there would make every
\* claim fail, and with it the whole queue.  Deferring gives the number back.
NextAttemptHasNoRow ==
    \A j \in Job : job[j].st \in {"absent", "queued", "delayed"} =>
        \A a \in job[j].att + 1 .. MaxAttempts : metric[j][a] = "none"

\* job_metrics.rs:327: an attempt's diagnostics are sealed once it ended.
MetricsSealed ==
    [][\A j \in Job, a \in 1 .. MaxAttempts :
        metric[j][a] \notin {"none", "running"} => metric'[j][a] = metric[j][a]]_rvars

\* A row says "succeeded" only when data was published, and a job that succeeded never
\* leaves its last attempt running or interrupted.
SuccessHasData ==
    \A j \in Job, a \in 1 .. MaxAttempts :
        /\ metric[j][a] = "succeeded" => j \in published
        /\ job[j].st = "succeeded" /\ job[j].att = a =>
               metric[j][a] \in {"succeeded", "failed", "cancelled"}

\* executor.rs:156: each attempt's outcome is recorded.  Then the task of an attempt
\* that published never runs its last closure with an error, which says nothing of the
\* success or calls it a failure.
SuccessIsRecorded ==
    [][\A s \in Slot : LET t == task[s] IN
        t.pc = "record" /\ job[t.job].st = "succeeded" /\ job[t.job].att = t.att
            => ~RecordRecorded(s)]_rvars
=============================================================================
