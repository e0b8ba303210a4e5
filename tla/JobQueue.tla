------------------------------ MODULE JobQueue ------------------------------
(***************************************************************************)
(* The collection queue of the backend: the `jobs` table with its leases   *)
(* (jobs/queue.rs), the scheduler that claims and recovers jobs            *)
(* (jobs/scheduler.rs), the executor tasks that run them                   *)
(* (jobs/executor.rs), and the requests that cancel jobs or withdraw the   *)
(* authority they run under while a task is between two database steps.    *)
(*                                                                         *)
(* One action is one closure given to State::run (lib.rs), which holds the *)
(* write side of the `transition` lock: closures never interleave, tasks   *)
(* do between closures.  Time is abstracted: a lease is "live" until the   *)
(* action LeaseLapses, and a queued job whose available_at is in the       *)
(* future is "delayed" until Due.  job_metrics and the audit log are in    *)
(* JobRecords, which conjoins what these actions write there.              *)
(***************************************************************************)
EXTENDS Integers, FiniteSets

CONSTANTS
    Dsp,          \* tenants
    Conn,         \* provider connections, one per DSP and provider
    Job,          \* rows of the jobs table, identified by (DSP, idempotency key)
    Slot,         \* places for executor tasks; as many as config.browser_capacity
    DspOf,        \* the DSP of a connection
    ConnOf,       \* the connection a job collects through
    MaxAttempts,  \* jobs.max_attempts (3 in the code)
    QueueLimit,   \* unfinished jobs a DSP may have (5 in the code)
    MaxRev,       \* bound: credential changes per connection
    MaxWorker,    \* bound: starts of the process
    NoJob         \* what an empty slot runs

ASSUME FiniteAssumption == IsFiniteSet(Job) /\ IsFiniteSet(Slot)
ASSUME MapAssumption == DspOf \in [Conn -> Dsp] /\ ConnOf \in [Job -> Conn]
ASSUME LimitAssumption ==
    /\ MaxAttempts \in Nat \ {0}
    /\ QueueLimit \in Nat /\ MaxRev \in Nat /\ MaxWorker \in Nat \ {0}
    /\ NoJob \notin Job

VARIABLES
    job,       \* the jobs table
    conn,      \* the connections rows: enabled, revision
    dsp,       \* serves: the DSP is active with its schedules' page on;
               \* grant: the requesting member holds collections.run there
    changing,  \* connections whose change stopped its jobs and has yet to save
    task,      \* the executor task in each slot (Scheduler.tasks, running_dsps)
    detached,  \* publication closures whose task was dropped before they ran
    blocked,   \* DSPs the browser pool cannot serve now
    later,     \* <<d, e>>: MAX(completed_at) of d's jobs is later than of e's
    published, \* jobs whose data reached the collector database
    worker,    \* the lease owner id of this process, new at every start
    phase      \* "up", or "stopping" after the stop signal

vars == <<job, conn, dsp, changing, task, detached, blocked, later, published,
          worker, phase>>

-----------------------------------------------------------------------------
(* Types and small operators                                               *)

LeasedStatus == {"running", "waiting"}
ActiveStatus == {"queued", "delayed"} \cup LeasedStatus
FinalStatus  == {"succeeded", "failed", "cancelled"}
TaskError    == {"busy", "retryable", "fatal", "job_cancelled"}
TaskStep     == {"guard", "browser", "verify", "challenge", "begin", "collect",
                 "publish", "completed", "defer", "record"}
NoOwner      == 0

JobRow == [st : {"absent"} \cup ActiveStatus \cup FinalStatus,
           att : 0 .. MaxAttempts, owner : 0 .. MaxWorker,
           lease : {"none", "live", "lapsed"}, rev : 0 .. MaxRev,
           actor : BOOLEAN]

Closure == [job : Job, att : 1 .. MaxAttempts]

TaskRow == [pc : TaskStep, job : Job, att : 1 .. MaxAttempts,
            sess : 0 .. MaxRev, err : {"none"} \cup TaskError]
Idle    == [pc |-> "idle", job |-> NoJob, att |-> 0, sess |-> 0, err |-> "none"]

TypeOK ==
    /\ job \in [Job -> JobRow]
    /\ conn \in [Conn -> [enabled : BOOLEAN, rev : 0 .. MaxRev]]
    /\ dsp \in [Dsp -> [serves : BOOLEAN, grant : BOOLEAN]]
    /\ changing \in SUBSET Conn
    /\ task \in [Slot -> TaskRow \cup {Idle}]
    /\ detached \in SUBSET Closure
    /\ blocked \in SUBSET Dsp
    /\ later \in SUBSET (Dsp \X Dsp)
    /\ published \in SUBSET Job
    /\ worker \in 1 .. MaxWorker
    /\ phase \in {"up", "stopping"}

Owner(j)    == DspOf[ConnOf[j]]
JobsOf(d)   == {j \in Job : Owner(j) = d}
Leased      == {j \in Job : job[j].st \in LeasedStatus}
Active(d)   == {j \in JobsOf(d) : job[j].st \in ActiveStatus}
Succeeded   == {j \in Job : job[j].st = "succeeded"}
Live        == {s \in Slot : task[s].pc # "idle"}
RunningDsps == {Owner(task[s].job) : s \in Live}

\* JobRow::held_by, for this process' owner id.
Held(j) == job[j].owner = worker /\ job[j].st \in LeasedStatus

\* (Weakened: credentials may have changed since the job was queued.)
AuthorisedAnyRevision(j) ==
    /\ dsp[Owner(j)].serves
    /\ job[j].actor => dsp[Owner(j)].grant
    /\ conn[ConnOf[j]].enabled

\* The part of Store::guard about the DSP, the actor and the connection.
Authorised(j) ==
    LET d == dsp[Owner(j)]
        c == conn[ConnOf[j]]
    IN  /\ d.serves
        /\ job[j].actor => d.grant
        /\ c.enabled /\ c.rev = job[j].rev

\* Store::guard, and the error it answers with when it refuses.
Guard(j)      == Held(j) /\ job[j].lease = "live" /\ Authorised(j)
GuardError(j) == IF Held(j) /\ job[j].lease = "live"
                 THEN "fatal" ELSE "job_cancelled"

\* completed_at = iso() on a job of each DSP of ds: later than the rest, as late as
\* one another.
CompletedUnseen(ds) == later   \* (Weakened: nothing is stamped.)
Completed(ds) == {p \in later : p[2] \notin ds} \cup (ds \X (Dsp \ ds))

Unleased(row) == [row EXCEPT !.owner = NoOwner, !.lease = "none"]

Absent == [st |-> "absent", att |-> 0, owner |-> NoOwner, lease |-> "none",
           rev |-> 0, actor |-> FALSE]

Init ==
    /\ job = [j \in Job |-> Absent]
    /\ conn = [c \in Conn |-> [enabled |-> TRUE, rev |-> 0]]
    /\ dsp = [d \in Dsp |-> [serves |-> TRUE, grant |-> TRUE]]
    /\ changing = {} /\ detached = {} /\ published = {} /\ blocked = {}
    /\ task = [s \in Slot |-> Idle]
    /\ later = {}
    /\ worker = 1 /\ phase = "up"

-----------------------------------------------------------------------------
(* Requests: enqueue, cancel, and what withdraws a running job's authority *)

\* Store::enqueue_batch for a member's request (actor) or a due schedule: every
\* job of the batch or none.  Both callers refuse while the DSP has unfinished
\* jobs: enqueue_batch itself for an actor, enqueue_schedule for a schedule.
\* A job already in the table is answered as it stands.
Enqueue(d, actor, batch) ==
    LET missing == {j \in batch : job[j].st = "absent"}
        row(j)  == [st |-> "queued", att |-> 0, owner |-> NoOwner, lease |-> "none",
                    rev |-> conn[ConnOf[j]].rev, actor |-> actor]
    IN  /\ phase = "up"
        /\ dsp[d].serves
        /\ actor => dsp[d].grant
        /\ \A j \in batch : conn[ConnOf[j]].enabled
        /\ missing # {}
        /\ Active(d) = {}
        /\ Cardinality(missing) <= QueueLimit
        /\ job' = [j \in Job |-> IF j \in missing THEN row(j) ELSE job[j]]
        /\ UNCHANGED <<conn, dsp, changing, task, detached, blocked, later, published,
                       worker, phase>>

\* The jobs a cancellation reaches: those that are not finished.
Cancellable(which) == {j \in which : job[j].st \in ActiveStatus}

\* The rows and ranks after Store::cancel_jobs.
CancelJobs(which) ==
    LET hit == Cancellable(which)
    IN  /\ job' = [j \in Job |-> IF j \in hit
                                 THEN [Unleased(job[j]) EXCEPT !.st = "cancelled"]
                                 ELSE job[j]]
        /\ later' = Completed({Owner(j) : j \in hit})

\* Store::cancel, for a member.
Cancel(j) ==
    /\ phase = "up" /\ dsp[Owner(j)].serves
    /\ job[j].st \in ActiveStatus
    /\ CancelJobs({j})
    /\ UNCHANGED <<conn, dsp, changing, task, detached, blocked, published, worker,
                   phase>>

\* set_status and set_feature: suspending the DSP, or switching its schedules' page
\* off, commits in the platform database and then cancels its jobs in theirs; the
\* second step can fail (`partial`).  The way back leaves jobs as they are.
SetServes(d, on, partial) ==
    /\ phase = "up" /\ dsp[d].serves # on
    /\ dsp' = [dsp EXCEPT ![d].serves = on]
    /\ IF on \/ partial THEN UNCHANGED <<job, later>> ELSE CancelJobs(JobsOf(d))
    /\ UNCHANGED <<conn, changing, task, detached, blocked, published, worker, phase>>

\* The requesting member gains or loses collections.run, or is disabled: no job
\* is touched, the guard of a running one finds out.
SetGrant(d, on) ==
    /\ phase = "up" /\ dsp[d].grant # on
    /\ dsp' = [dsp EXCEPT ![d].grant = on]
    /\ UNCHANGED <<job, conn, changing, task, detached, blocked, later, published,
                   worker, phase>>

\* connections.rs save and disable, in two closures under the DSP's operation lock:
\* `stop` cancels the provider's jobs, then the credentials or the row change.
StopConnection(c) ==
    /\ phase = "up" /\ dsp[DspOf[c]].serves
    /\ \A o \in changing : DspOf[o] # DspOf[c]
    /\ conn[c].rev < MaxRev
    /\ changing' = changing \cup {c}
    /\ CancelJobs({j \in Job : ConnOf[j] = c})
    /\ UNCHANGED <<conn, dsp, task, detached, blocked, published, worker, phase>>

SaveConnection(c, enabled) ==
    /\ c \in changing /\ conn[c].rev < MaxRev
    /\ conn' = [conn EXCEPT ![c] = [enabled |-> enabled, rev |-> conn[c].rev + 1]]
    /\ changing' = changing \ {c}
    /\ UNCHANGED <<job, dsp, task, detached, blocked, later, published, worker, phase>>

\* The second closure failed (permission lost, platform_busy): nothing is saved.
AbandonConnection(c) ==
    /\ c \in changing
    /\ changing' = changing \ {c}
    /\ UNCHANGED <<job, conn, dsp, task, detached, blocked, later, published, worker,
                   phase>>

-----------------------------------------------------------------------------
(* The scheduler                                                           *)

\* (Weakened: the DSP's earlier task may still run.)
ClaimableBesideTask(j) ==
    /\ job[j].st = "queued"
    /\ \A k \in JobsOf(Owner(j)) : job[k].st \notin LeasedStatus
    /\ Owner(j) \notin blocked

\* CLAIMABLE and the closure `eligible`: queued, due, no leased job and no running
\* task of its DSP, and a browser for it.
Claimable(j) ==
    /\ job[j].st = "queued"
    /\ \A k \in JobsOf(Owner(j)) : job[k].st \notin LeasedStatus
    /\ Owner(j) \notin RunningDsps
    /\ Owner(j) \notin blocked

\* ORDER BY the DSP's last completion.  Then created_at, which tells apart only jobs
\* of one batch and DSPs that never completed: left open.
Precedes(k, j) == <<Owner(j), Owner(k)>> \in later

\* The first check of claim_job.
BelowCapacity == Cardinality(Leased) < Cardinality(Slot)

\* Store::claim_job (START) and the task it spawns.
Claim(s, j) ==
    LET a == job[j].att + 1
    IN  /\ phase = "up" /\ task[s] = Idle
        /\ BelowCapacity
        /\ Claimable(j)
        /\ \A k \in Job : Claimable(k) => ~Precedes(k, j)
        /\ \A c \in detached : c.job # j   \* a closure waits less than a claim takes
        /\ job' = [job EXCEPT ![j].st = "running", ![j].att = a, ![j].owner = worker,
                              ![j].lease = "live"]
        /\ task' = [task EXCEPT ![s] = [pc |-> "guard", job |-> j, att |-> a,
                                        sess |-> 0, err |-> "none"]]
        /\ UNCHANGED <<conn, dsp, changing, detached, blocked, later, published,
                       worker, phase>>

\* RECOVER over the jobs `lost`: queued again while attempts remain, else failed.
RecoveredAll(lost) ==   \* (Weakened: attempts are not counted.)
    [j \in Job |-> IF j \in lost THEN [Unleased(job[j]) EXCEPT !.st = "queued"] ELSE job[j]]
Recovered(lost) ==
    [j \in Job |-> IF j \notin lost THEN job[j] ELSE
        [Unleased(job[j]) EXCEPT !.st = IF job[j].att >= MaxAttempts THEN "failed" ELSE "queued"]]
Ended(lost) == {Owner(j) : j \in {k \in lost : job[k].att >= MaxAttempts}}

\* What recover_jobs(false) takes, at a tick, and what recover_jobs(true) takes, at a
\* start.
ExpiredWithAttempts == {j \in Leased : job[j].lease = "lapsed" /\ job[j].att < MaxAttempts}
Expired == {j \in Leased : job[j].lease = "lapsed"}
LostAtStart == Leased

\* Store::recover_jobs(false), at the tick after a lease ran out.
RecoverExpired ==
    LET lost == Expired
    IN  /\ phase = "up" /\ lost # {}
        /\ job' = Recovered(lost)
        /\ later' = Completed(Ended(lost))
        /\ UNCHANGED <<conn, dsp, changing, task, detached, blocked, published,
                       worker, phase>>

\* Time passes: 120 s without a heartbeat (a stalled host, or a task that ended
\* without recording its outcome), or available_at is reached.
LeaseLapses(j) ==
    /\ job[j].lease = "live"
    /\ job' = [job EXCEPT ![j].lease = "lapsed"]
    /\ UNCHANGED <<conn, dsp, changing, task, detached, blocked, later, published,
                   worker, phase>>

Due(j) ==
    /\ job[j].st = "delayed"
    /\ job' = [job EXCEPT ![j].st = "queued"]
    /\ UNCHANGED <<conn, dsp, changing, task, detached, blocked, later, published,
                   worker, phase>>

\* The browser pool fills or frees: memory, sessions of the settings page.
PoolChanges(d) ==
    /\ blocked' = IF d \in blocked THEN blocked \ {d} ELSE blocked \cup {d}
    /\ UNCHANGED <<job, conn, dsp, changing, task, detached, later, published, worker,
                   phase>>

-----------------------------------------------------------------------------
(* The executor task in slot s                                             *)

GoTo(s, step)  == task' = [task EXCEPT ![s].pc = step]
\* The task's future ended with error e: a full pool is put back, anything else
\* is recorded.
Fail(s, e) == task' = [task EXCEPT ![s].err = e,
                           ![s].pc = IF e = "busy" THEN "defer" ELSE "record"]

\* The first guard of `execute`.
CheckStart(s) ==
    /\ task[s].pc = "guard"
    /\ IF Guard(task[s].job) THEN GoTo(s, "browser")
       ELSE Fail(s, GuardError(task[s].job))
    /\ UNCHANGED <<job, conn, dsp, changing, detached, blocked, later, published,
                   worker, phase>>

\* ensure_provider_browser: a session bound to the connection's revision of now,
\* ready or waiting for the owner, or no session.
OpenBrowser(s) ==
    LET c == ConnOf[task[s].job] IN
    /\ task[s].pc = "browser"
    /\ \/ /\ dsp[DspOf[c]].serves /\ conn[c].enabled
          /\ \E step \in {"begin", "verify"} :
                task' = [task EXCEPT ![s].sess = conn[c].rev, ![s].pc = step]
       \/ DspOf[c] \in blocked /\ Fail(s, "busy")
       \/ \E e \in {"retryable", "fatal"} : Fail(s, e)
    /\ UNCHANGED <<job, conn, dsp, changing, detached, blocked, later, published,
                   worker, phase>>

\* Store::progress to waiting_verification asks only for the lease, not the guard.
MarkWaiting(s) ==
    LET j == task[s].job IN
    /\ task[s].pc = "verify"
    /\ IF Held(j)
       THEN job' = [job EXCEPT ![j].st = "waiting"] /\ GoTo(s, "challenge")
       ELSE UNCHANGED job /\ Fail(s, "job_cancelled")
    /\ UNCHANGED <<conn, dsp, changing, detached, blocked, later, published, worker,
                   phase>>

\* The polling loop: the owner completes the challenge, or the session closes.
AwaitOwner(s) ==
    /\ task[s].pc = "challenge"
    /\ GoTo(s, "begin") \/ Fail(s, "fatal")
    /\ UNCHANGED <<job, conn, dsp, changing, detached, blocked, later, published,
                   worker, phase>>

\* guard and progress(10, Running) in one closure.
Begin(s) ==
    LET j == task[s].job IN
    /\ task[s].pc = "begin"
    /\ IF Guard(j)
       THEN job' = [job EXCEPT ![j].st = "running"] /\ GoTo(s, "collect")
       ELSE UNCHANGED job /\ Fail(s, GuardError(j))
    /\ UNCHANGED <<conn, dsp, changing, detached, blocked, later, published, worker,
                   phase>>

\* Session::collect: data, a provider error, or job_cancelled because the session
\* closed under it (revoked, 30 minutes old, or closed by the stop signal).
Collect(s) ==
    /\ task[s].pc = "collect"
    /\ \/ GoTo(s, "publish")
       \/ \E e \in {"retryable", "fatal", "job_cancelled"} : Fail(s, e)
    /\ UNCHANGED <<job, conn, dsp, changing, detached, blocked, later, published,
                   worker, phase>>

\* (Weakened: the job is finished first, and the data after it may fail.)
FinishThenPublish(j) ==
    /\ published' \in {published, published \cup {j}}
    /\ job' = [job EXCEPT ![j] = [Unleased(job[j]) EXCEPT !.st = "succeeded"]]
    /\ later' = Completed({Owner(j)})

\* The publication closure of job j, when its guard holds: publish, then finish(None).
PublishAndFinish(j) ==
    /\ published' = published \cup {j}
    /\ job' = [job EXCEPT ![j] = [Unleased(job[j]) EXCEPT !.st = "succeeded"]]
    /\ later' = Completed({Owner(j)})

\* The data is committed in the collector database, and the transaction of the jobs
\* database after it fails.
PublishOnly(j) == published' = published \cup {j} /\ UNCHANGED <<job, later>>

Publish(s) ==
    LET j == task[s].job IN
    /\ task[s].pc = "publish"
    /\ \/ Guard(j) /\ PublishAndFinish(j) /\ GoTo(s, "completed")
       \/ /\ ~Guard(j) /\ Fail(s, GuardError(j))
          /\ UNCHANGED <<job, later, published>>
       \/ /\ Guard(j) /\ \E e \in {"retryable", "fatal"} : Fail(s, e)
          /\ UNCHANGED <<job, later, published>>
       \/ Guard(j) /\ PublishOnly(j) /\ Fail(s, "fatal")
    /\ UNCHANGED <<conn, dsp, changing, detached, blocked, worker, phase>>

\* The heartbeat's guard refuses, or its closure is answered platform_busy: the
\* task's future is dropped.  A publication closure it had already handed to
\* spawn_blocking is not: it stays detached and runs later.  One that has already
\* committed ("completed") gives up the lease, and the guard refuses that too if
\* it runs before the loop polls the task's result.
Heartbeat(s) ==
    LET j == task[s].job IN
    /\ task[s].pc \in TaskStep \ {"defer", "record"}
    /\ \/ ~Guard(j) /\ Fail(s, GuardError(j))
       \/ Fail(s, "fatal")
    /\ \/ UNCHANGED detached
       \/ /\ task[s].pc = "publish"
          /\ detached' = detached \cup {[job |-> j, att |-> task[s].att]}
    /\ UNCHANGED <<job, conn, dsp, changing, blocked, later, published, worker, phase>>

RunDetached(c) ==
    /\ c \in detached
    /\ detached' = detached \ {c}
    /\ \/ Guard(c.job) /\ (PublishAndFinish(c.job) \/ PublishOnly(c.job))
       \/ UNCHANGED <<job, later, published>>
    /\ UNCHANGED <<conn, dsp, changing, task, blocked, worker, phase>>

\* The row of a deferred job: the attempt never was.
DeferredTwice(j) == [Unleased(job[j]) EXCEPT !.st = "delayed", !.att = job[j].att - 2]
Deferred(j) == [Unleased(job[j]) EXCEPT !.st = "delayed", !.att = job[j].att - 1]

\* No browser was admitted: the job goes back, unless it is no longer this worker's
\* running one or the closure is refused.
Defer(s) ==
    LET j == task[s].job
        mine == job[j].owner = worker /\ job[j].st = "running"
    IN
    /\ task[s].pc = "defer"
    /\ \/ /\ mine
          /\ job' = [job EXCEPT ![j] = Deferred(j)]
          /\ task' = [task EXCEPT ![s] = Idle]
       \/ GoTo(s, "record") /\ UNCHANGED job
    /\ UNCHANGED <<conn, dsp, changing, detached, blocked, later, published, worker,
                   phase>>

\* Store::finish with an error: retried later while attempts remain.
Finished(j, e) ==
    LET retry == e = "retryable" /\ job[j].att < MaxAttempts
    IN  [Unleased(job[j]) EXCEPT !.st = IF retry THEN "delayed" ELSE "failed"]

\* The last closure of a failed task: finish(error) and the audit entry.
Record(s) ==
    LET j == task[s].job
        e == task[s].err
        row == IF Held(j) THEN Finished(j, e) ELSE job[j]
    IN
    /\ task[s].pc = "record"
    /\ job' = [job EXCEPT ![j] = row]
    /\ later' = Completed(IF Held(j) /\ row.st = "failed" THEN {Owner(j)} ELSE {})
    /\ task' = [task EXCEPT ![s] = Idle]
    /\ UNCHANGED <<conn, dsp, changing, detached, blocked, published, worker, phase>>

Complete(s) ==
    /\ task[s].pc = "completed"
    /\ task' = [task EXCEPT ![s] = Idle]
    /\ UNCHANGED <<job, conn, dsp, changing, detached, blocked, later, published,
                   worker, phase>>

\* The last closure is refused (platform_busy): the task ends with nothing recorded,
\* and a job it still holds waits for its lease to run out.
Unrecorded(s) ==
    /\ task[s].pc \in {"record", "completed"}
    /\ task' = [task EXCEPT ![s] = Idle]
    /\ UNCHANGED <<job, conn, dsp, changing, detached, blocked, later, published,
                   worker, phase>>

-----------------------------------------------------------------------------
(* The process                                                             *)

\* The stop signal: the scheduler ticks no more, every browser closes and the
\* tasks are drained.
Stop ==
    /\ phase = "up" /\ worker < MaxWorker
    /\ phase' = "stopping"
    /\ UNCHANGED <<job, conn, dsp, changing, task, detached, blocked, later,
                   published, worker>>

\* A crash at any moment, or the end of a drained stop, and the next start with
\* its recover_jobs(true).  A crash inside a publication closure may leave its
\* data in the collector database (`torn`) and the jobs row as it was.
Restart(torn) ==
    /\ worker < MaxWorker
    /\ torn \subseteq {task[s].job : s \in {x \in Live : task[x].pc = "publish"}}
                      \cup {c.job : c \in detached}
    /\ Cardinality(torn) <= 1
    /\ \A j \in torn : Guard(j)
    /\ worker' = worker + 1 /\ phase' = "up"
    /\ task' = [s \in Slot |-> Idle] /\ detached' = {} /\ changing' = {}
    /\ blocked' = {}
    /\ published' = published \cup torn
    /\ job' = Recovered(LostAtStart)
    /\ later' = Completed(Ended(LostAtStart))
    /\ UNCHANGED <<conn, dsp>>

-----------------------------------------------------------------------------
Requests ==
    \/ \E d \in Dsp, actor \in BOOLEAN : \E batch \in SUBSET JobsOf(d) : Enqueue(d, actor, batch)
    \/ \E j \in Job : Cancel(j)
    \/ \E d \in Dsp, on, partial \in BOOLEAN : SetServes(d, on, partial)
    \/ \E d \in Dsp, on \in BOOLEAN : SetGrant(d, on)
    \/ \E c \in Conn : StopConnection(c) \/ AbandonConnection(c)
    \/ \E c \in Conn, enabled \in BOOLEAN : SaveConnection(c, enabled)

Scheduler ==
    \/ \E s \in Slot, j \in Job : Claim(s, j)
    \/ RecoverExpired
    \/ \E j \in Job : LeaseLapses(j) \/ Due(j)
    \/ \E d \in Dsp : PoolChanges(d)

Executor(s) ==
    \/ CheckStart(s) \/ OpenBrowser(s) \/ MarkWaiting(s) \/ AwaitOwner(s)
    \/ Begin(s) \/ Collect(s) \/ Publish(s) \/ Heartbeat(s)
    \/ Defer(s) \/ Record(s) \/ Complete(s) \/ Unrecorded(s)

Process ==
    \/ \E c \in detached : RunDetached(c)
    \/ Stop
    \/ \E torn \in SUBSET Job : Restart(torn)

Next == Requests \/ Scheduler \/ (\E s \in Slot : Executor(s)) \/ Process

Spec == Init /\ [][Next]_vars

\* A leased job nobody runs: its task ended without recording an outcome.
Orphan(j) == j \in Leased /\ \A s \in Live : task[s].job # j

\* Every await of a task has a timeout, an unrenewed lease runs out, the scheduler
\* ticks every second, and a stopped process is started again.  Nothing is assumed
\* of members, providers or the browser pool.
Fairness ==
    /\ \A s \in Slot : WF_vars(Executor(s))
    /\ \A s \in Slot : WF_vars(\E j \in Job : Claim(s, j))
    /\ WF_vars(RecoverExpired)
    /\ \A j \in Job : WF_vars(Due(j)) /\ WF_vars(Orphan(j) /\ LeaseLapses(j))
    /\ WF_vars(\E c \in detached : RunDetached(c))
    /\ WF_vars(phase = "stopping" /\ Live = {} /\ Restart({}))

FairSpec == Spec /\ Fairness

-----------------------------------------------------------------------------
(* Properties                                                              *)

\* Never two collections for one DSP, neither two leases nor two tasks: a recovered
\* job is not claimed again while the task of its lost lease still runs.
OneCollectionPerDsp ==
    /\ \A j, k \in Leased : Owner(j) = Owner(k) => j = k
    /\ \A s, t \in Live : Owner(task[s].job) = Owner(task[t].job) => s = t

\* Leases are those of the process that runs: none survives a restart, and none is
\* left on a job that stopped.
LeasesAreOurs ==
    \A j \in Job : /\ j \in Leased <=> job[j].owner # NoOwner
                   /\ j \in Leased <=> job[j].lease # "none"
                   /\ j \in Leased => job[j].owner = worker

\* Leases never exceed the browsers, the ones their tasks left behind included.
LeasesFit == Cardinality(Leased) <= Cardinality(Slot)

\* finish and progress ask for the process' owner id and not for the attempt: a task
\* that outlived its attempt must never find its job leased again.
HolderIsNewest ==
    \A s \in Live : Held(task[s].job) => task[s].att = job[task[s].job].att

\* A job that waits has an attempt left, whatever mix of retries, recoveries,
\* deferrals and restarts put it back.
WaitingHasAttempts ==
    \A j \in Job : /\ job[j].st \in {"queued", "delayed"} => job[j].att < MaxAttempts
                   /\ j \in Leased => job[j].att \in 1 .. MaxAttempts

\* A finished job is never touched again, by a late task, a detached publication,
\* a cancellation or a recovery.
FinalStays ==
    [][\A j \in Job : job[j].st \in FinalStatus => job'[j] = job[j]]_vars

\* Data is published, and a job succeeds, only under the authority of the moment: by a
\* lease that is still this process', for a DSP that is served, and from the credentials
\* the connection has now.
PublicationIsCurrent ==
    [][/\ \A j \in (published' \ published) \cup (Succeeded' \ Succeeded) :
            /\ job[j].lease = "live" /\ job[j].owner = worker
            /\ dsp[Owner(j)].serves /\ conn[ConnOf[j]].enabled
       /\ \A s \in Slot : task[s].pc = "publish" /\ task'[s].pc = "completed" =>
            task[s].sess = conn[ConnOf[task[s].job]].rev]_vars

\* executor.rs:186 and error.rs:83: job_cancelled means that someone withdrew the job.
\* Then no task that ends so still holds its job, lease and all, to fail it.
CancelledByWithdrawal ==
    [][\A s \in Slot : LET j == task[s].job IN
        task[s].pc = "record" /\ task[s].err = "job_cancelled" /\ job[j].lease = "live"
            => ~(Held(j) /\ job'[j].st = "failed")]_vars

\* Every queued job ends once the pool has a browser for its DSP for good: no crash,
\* stop, lost task, stalled lease or refused closure strands it.
EveryJobEnds ==
    \A j \in Job : <>[](Owner(j) \notin blocked) =>
        (job[j].st \in ActiveStatus ~> job[j].st \in FinalStatus)

-----------------------------------------------------------------------------
(* What all of it is for: the abstract specification, with the leases as the *)
(* turns and the attempt counter as the turns that counted.                  *)

OutcomeOf(st) == IF st = "absent" THEN "none" ELSE IF st \in ActiveStatus THEN "pending" ELSE st

Promise == INSTANCE Collection WITH
    Tenant  <- [j \in Job |-> Owner(j)],
    Limit   <- QueueLimit,
    outcome <- [j \in Job |-> OutcomeOf(job[j].st)],
    tries   <- [j \in Job |-> job[j].att],
    turn    <- Leased,
    data    <- published

\* The queue keeps the promise of Collection.tla: one collection per DSP at a time, at
\* most MaxAttempts that count, one outcome each, data only out of a lease that holds.
PromiseKept == Promise!Spec
=============================================================================
