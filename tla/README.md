# A verification of the dispatch platform

TLA+ models of the parts of the dispatch platform where concurrency, failure and
ordering decide whether it is right, checked with TLC on small instances and, where it
matters most, proved with TLAPS for every size. The modules are translated from the
Rust sources under `src/backend/` (the server, the host manager in `host/`, the release
and pull request tooling in `ci/` and `host/`) and, where a page decides when to read
again, from the dashboard; `PROJECT.json` maps every definition to its lines.

Contents: 1 the system, 2 the plan, 3 modules and code, 4 runs, 5 what the
violations show, 6 fairness, 7 proofs, 8 what is only checked or not modelled.

## 1. The system

One process (`dispatch-backend serve`) serves the HTTP API, owns every SQLite file
under its data directory, drives BrowserOS sessions to collect data from two
providers (Paycom, Cortex) for many DSPs, and runs background loops: the job
scheduler, browser expiry, the mail outbox, backups. A second binary, the host
manager, sets hosts up, makes releases, and installs and rolls them back; a third one
(`ci/`) takes pull requests through their checks. The dashboard reads through a cache of
its own that listens to the server's changes; the mail worker keeps no state.

**How the parts interact.** Every database write goes through `State::run`
(`lib.rs`), which sends a closure to a blocking thread that takes the write side of
the `transition` lock, within a time limit, and answers `platform_busy` otherwise;
reads share the lock (`State::read`). Closures that write therefore never interleave;
what interleaves are the async tasks between two closures. Dropping a task's future does
not stop a closure already handed over. Each closure may commit in more than one
database (platform, collectors, jobs), one after the other. Cancellation reaches a
running collection in two ways: the guard of its next closure or heartbeat, and the
browser session that closes under it. A collection reads its provider in two tabs, saves
a checkpoint and shows live rows as it goes, and publishes at its end; a dashboard hears
of each change after its commit. Schedules and requests queue jobs, accounts and roles
say who may, and the host manager stops and starts all of it.

| Component | State | Operations | Hard behaviour | What makes it correct |
|---|---|---|---|---|
| Job queue (`jobs/queue.rs`) | rows of `jobs`: status, attempts, lease owner and end, `available_at`, revision, actor | enqueue batch, cancel (job, provider, DSP), claim, progress, finish, defer, recover, guard | a lease may lapse under a running task; attempts go up, down and are compared in four places | one collection per DSP; a task writes only for its own attempt; a job ends once, after at most `max_attempts`, and always ends |
| Scheduler (`jobs/scheduler.rs`) | running tasks and their DSPs, the wake-up | tick: recover, claim while there is room; start, stop and drain | leases without tasks and tasks without leases both hold a place; DSPs compete for browsers | capacity holds; a waiting DSP gets its turn |
| Executor (`jobs/executor.rs`) | one future per claimed job, a heartbeat beside it, a Recorder shared with its publication closure | guard, open browser, wait for the owner, collect, publish and finish, record | the future is dropped while its closure is on the way; any closure may be refused; a cancellation lands between two steps | data is published only under the authority of the moment; each outcome is recorded once and truthfully |
| Attempt metrics, audit (`job_metrics.rs`, `audit.rs`) | rows of `job_metrics`, audit entries | insert at claim, delete at deferral, save, interrupt | written by other closures than the job's own row | rows agree with the jobs; a sealed row stays |
| Process (`lib.rs`, `cli.rs`) | worker id, phase, locks | serve, stop signal, crash, recovery at start | anything may be cut off between two closures | nothing of an old process survives, nothing is lost |
| Connections, browser sessions (`browsers/*.rs`, `http/routes/connections.rs`) | `connections` rows with a revision and a status; a registry of sessions in memory; the attempt record on disk | save, disable, open, check, verify, collect, expire, revoke | a session outlives the credentials it began with; jobs, owners and the scheduler close sessions under each other; a dropped request leaves what it held; sign-ins are limited by the provider, a crash must not lose count | the connection is shown as ready only for credentials the provider accepted; no session is lost, none blocks its connection for good; failed sign-ins stay within the limit |
| DSPs, features, roles (`tenants.rs`, `features.rs`, `roles.rs`) | status, feature flags, memberships | suspend, switch features, change roles, delete accounts | two databases without one transaction | withdrawn authority reaches running jobs; a DSP keeps an owner |
| Browser runtime (`browsers/browseros/`) | slots, profile locks, a supervisor task and a sandboxed worker per browser, a pipe between them | start with a second try, send a command, close, reap | the pipe carries no request numbers; senders leave, commands outlive their deadline, starts are dropped | every answer reaches its own command; no two browsers on a profile, no more than slots |
| Provider drivers (`browsers/paycom`, `browsers/cortex`, `browsers/attempt.rs`) | pages of third parties; the record of sign-in attempts beside the browser's profile; the vault | submit credentials, answer challenges, observe, replace and remove credentials | a crash, a dropped request or a lost page after a submission | few rejections of the same credentials; after a submission whose outcome nobody saw they are not filled in again |
| Reading Paycom (`browsers/paycom/collection.rs`) | roster, queue of employees, a response proven or not | read rendered pages in two lanes, take responses instead once proven, sample | the roster changes between attempts; a response differs from its page | a publication is of one roster, from pages or proven responses |
| Reading Cortex (`browsers/cortex/collection.rs`, `meals/`) | listed routes, those read, those that moved; live rows; the active publication | list, read, list again until nothing moved, publish, compare | routes move under two readers; writes of an attempt that is gone land late | what is shown is of one moment, and never older than what was published |
| Schedules (`schedules.rs`) | rows with `next_run`, the next deadline | create, edit, delete, run when due, retime with the time zone | a crash between the batch and `next_run`; clocks that change | each occurrence is queued once, and eventually |
| Checkpoints, live runs (`collection_checkpoint.rs`, `live_collection.rs`) | a row per job with token, fingerprint, revision; a run's token and rows | prepare, save, resume, discard, show | an attempt continues what an earlier one began; a replaced attempt still writes | only of the same job, scope and roster |
| Collectors, publication (`collectors/`, `workforce/`, `meals/`) | databases per DSP and provider, markers of storage added later | provision, open, add, back up, restore, publish | provisioning and upgrades cut off, files lost, releases that come and go | served data is all there, nothing lost is made again empty, startup refuses only a loss |
| Mail outbox (`mail/`) | rows of `outbox` | queue, batch, deliver, record, retry, discard | delivered outside the lock | sent or given up |
| Accounts and sessions (`accounts/sessions.rs`, `passwords.rs`, `security.rs`) | users, sessions, reset links, passkeys, authenticators, recovery codes | sign in, prove again, change and reset passwords, enroll, verify | passwords are hashed between two closures | sessions know the present password; a code is used once |
| Team (`accounts/invitations.rs`, `roles.rs`, `features.rs`, `tenants.rs`) | memberships, roles, open invitations, features | invite, accept, change roles and members, switch features | an acceptance hashes a password between two closures; roles change under invitations | a DSP keeps its owner; who joins gets what was offered |
| Live updates, read cache (`live_updates.rs`, `read_cache.rs`, dashboard `live-collection.ts`) | 128 changes per DSP with an epoch; cached answers with a revision; the page's own cache | publish, subscribe, read | missed, late or absent notifications, reads beside writes | an answer is of its moment; a quiet page is as new as its last announcement |
| Database files (`db/`) | files, migrations | open, migrate, verify | start-up work cut off, older releases on newer files | a database is migrated as far as its release knows |
| Host setup (`host/setup/`) | a journal, a staging directory, what is in place | prepare, seal, move into place, recover | a kill between any two moves | the application never starts on half an environment |
| Host updater (`host/updater.rs`) | runtimes, checkout, receipt, status, the service and the manager's copy | select, download, activate, recover | a kill after any file, git or service step; the owner moves the checkout | the old runtime survives until the new one is proven; one runtime as a whole |
| Releases (`host/release/`) | a journal per version, prepared bytes; GitHub's drafts, tags, assets | pin, check, prepare, smoke, draft, publish, complete | killed uploads, moved tags, meddled drafts | a complete release is what was pinned, checked, served and smoked |
| Pull requests (`ci/src/ship.rs`) | what the command remembers; what GitHub shows | look, review, label, queue, end | GitHub shows things late and apart; a count outlives the head it was made of | two looks at one head tell a merge from a removal |
| HTTP layer (`http/`) | none of its own | routes | – | – |
| Workforce, scorecard, uniforms, operations | tables per DSP | single transactions | – | arithmetic of assessments and stock |
| The rest of CI and the dashboard, mail worker | – | – | – | – |

`PROJECT.json` lists these components with their files, and the hazards of each with
the properties that would notice them.

## 2. The plan

The queue came first: everything the platform is for passes through it, it has most
of the concurrency, and it is what the other parts act on. Then, in the order of what a
failure would cost, what decides *whose authority* things happen under, what keeps the
data, and what reads and shows it.

1. **JobQueue** (done): queue, scheduler, executor, process, and the requests that
   withdraw authority. Abstract specification **Collection** (done). **JobRecords** and
   **JobTurns** (done) compose it with what it writes for its readers and with an
   observer of its fairness. Proofs: **JobQueueProofs**, **JobQueueAuthority**,
   **JobQueuePromise**, **JobRecordsProofs** (done).
2. **BrowserSessions**, **BrowserRuntime** below it (done); proofs: **BrowserProofs** (done).
   **ProviderSignIn** (done) beside them.
   To come: two providers of one DSP; admission by memory.
3. **ScheduleTimes** and **Schedules** (done), **MailOutbox** (done): the loops.
4. **SignIn** and **Team** (done): who may do what.
5. **HostUpdater**, **HostSetup**, **Releasing**, **Shipping**, **Storage** (done): what is
   installed, and what keeps the data; proofs: **HostProofs** (done).
6. **TimecardReading**, **RouteReading**, **LiveReads** (done): what is read, and what is
   seen of it; proofs: **ReadingProofs**, and **AppProofs** for TimecardReading and parts 2
   (ProviderSignIn), 3 and 4 (done). To come: the scorecard's collection and publication,
   several meal scopes of a day with the matching of their drivers, publications kept beside
   the active one.
7. To come: the retention clean-up; the sampler and the phases of `job_metrics`.

Theorems: every safety and action property that a passing run checks is stated by one
(section 7). To come: an abstract specification of a provider connection, and of a day's
meals, that BrowserSessions and RouteReading are shown to implement.

## 3. Modules and code

### JobQueue

One action is one closure of `State::run`, or one thing that happens between two.

| Variable | Code |
|---|---|
| `job` | a row of `jobs`: `status`, `attempts`, `lease_owner`, `lease_until` as live or lapsed, `connection_revision`, and whether `actor_user_id` is set. `waiting` is `waiting_verification`; `delayed` is `queued` with `available_at` in the future |
| `conn` | `enabled` and `revision` of a `connections` row |
| `dsp` | `serves`: the DSP is active and its page of the schedules on, which the guard asks for together; `grant`: the requesting member is enabled and holds `collections.run` |
| `changing` | a change of credentials between the two closures of `connections.rs`, which hold the DSP's operation lock |
| `task` | a place in the scheduler's `JoinSet`: where `execute` awaits, its job, its attempt, the revision its session is bound to, the error it ends with |
| `detached` | publication closures in `spawn_blocking` whose task was dropped |
| `blocked` | DSPs that `eligible` and `ensure_provider_browser` refuse now for want of a browser |
| `later` | the order of `MAX(completed_at)` between DSPs, all that `CLAIMABLE` reads of the clock |
| `published` | jobs whose data is committed in the collector database |
| `worker`, `phase` | the owner id of this start of the process; whether the stop signal came |

`Requests` are the HTTP handlers and due schedules; `Scheduler` the tick, and the
passing of time; `Executor(s)` the awaits of `execute` in their order (`CheckStart`,
`OpenBrowser`, `MarkWaiting`, `AwaitOwner`, `Begin`, `Collect`, `Publish`), the
heartbeat beside them, and the ends (`Defer`, `Record`, `Complete`, `Unrecorded`);
`Process` the detached closures, the stop and a crash with the next start.

Decisions a reader should know:

- *Refused closures.* Where `platform_busy` changes what follows, it is an outcome of
  the action (`Heartbeat`'s second disjunct, `Publish`'s third, `Unrecorded`,
  `Defer`'s second). A refused request changes nothing and is not an action.
- *Partial commits.* `PublishOnly` is the collector's commit without the jobs
  transaction; `torn` in `Restart` the same cut by a crash; `partial` in `SetServes` a
  suspension whose `cancel_dsp` failed.
- *The heartbeat after the commit.* At `completed` the publication has committed and
  the loop has not polled its task yet: the heartbeat may still run its guard.
- *A claim finds no closure pending for its job.* A detached closure waits for the
  lock within its time limit, while the job's next claim needs a deferral, a retry
  delay or a lapsed lease, all longer. This is the only timing assumption, stated in
  `Claim`.
- *Left open.* The order of `created_at` among DSPs never served; the pool; what a
  provider answers; whether a challenge is ever completed.
- *Left out.* Progress percentages and messages, detached progress closures (they
  write only those), the error's text, the retention clean-up.

### Collection

What the queue promises to those who use it: for each collection an outcome, turns that
count, data. It has no leases, tasks, credentials or processes. `Promise` in JobQueue is
the refinement mapping: the turn is the lease, the tries are `attempts`.

### JobRecords

Each action is an action of JobQueue conjoined with what the same closure writes to
`job_metrics` and to the audit log. `recorder` is the in-memory Recorder an attempt
shares with its publication closure: the first outcome stays, `Seal` is the executor's
call between the loop and the last closure. The sampler matters in one place, where a
sealed recorder's row may be saved although the transaction failed (`PublishedOnly`).
Phases, page reads and memory samples are left out, and so is the owner column of
`job_metrics`: a row that says "running" is always of this process.

### JobTurns

JobQueue with an observer `overtaken`, which changes nothing: the DSPs that ended a job
while a DSP waited with a claimable one. `CLAIMABLE` orders by last completion, so no
other DSP should be served again.

### BrowserSessions

One action is what a task does between two awaits, or less where another thread may
come between (`Weigh` and `Write`, the three steps of `Session::close`).

| Variable | Code |
|---|---|
| `conn` | a row of `connections`: `enabled`, `revision`, `status`; `serves`: its DSP is active |
| `registry` | `Manager.sessions`, by connection |
| `session` | the `Session` objects: revision, `status`, `cancel`, `collecting`, the task that holds `worker`, and the browser with its slot and profile lease |
| `flow` | tasks: a claimed job, an owner's save, check, disable or verification, a job's cancellation, a suspension, the scheduler's expiry; where they await and what they hold |
| `proved` | history: the connections whose present credentials the provider accepted |

`Save`, `Check`, ... begin a task; `Stop`, `End`, `RevokeCurrent`, `Close`, `Take`, `Reap`
revoke a session; `Lease` to `Write` are `ensure_provider_browser` with `Session::request`
and `browser_result`; `Opened` to `Collected` what a job does in its session. `Abandon`
drops a task at an await (a closed request, a job's heartbeat) and releases its locks;
`Drop` is the last reference to a session going, which ends its browser, and happens
before anything else does. `Exited` is the browser's supervisor reaped, which frees slot
and profile.

Decisions a reader should know:

- *Every connection belongs to a DSP of its own*, so the operation lock and the limit of
  one job per DSP are per connection.
- *A dropped task whose closure is on the way* counts as having run it or as never having
  handed it over.
- *Time* is abstract. `Expirable` says which sessions may be found too old: all, but a
  start still at work, whose time limits end it before. A session that is too old stays so.
- *Left open*: every answer of a driver, every refusal of a closure, the attempt record's
  preflight and admission by memory (a start may fail at any time).
- *Left out*: screenshots and assistance (they take and return the worker's lock), the
  limit of 32 commands, the closing of all sessions at the stop signal (`Restart` follows
  it), error texts.

### BrowserRuntime

What BrowserSessions knows only as a browser that starts, runs and stops. `slots` and
`leased` are the semaphore and the lock files; `call` is a call of `Runtime::start`, which
may launch a second time; `run` is `serve_child` with its channel, the command in flight,
what the pipe carries each way, and the worker; `command` is who sent what and was given
what. The pipe carries no numbers: the supervisor takes the next frame for the answer to
the command it wrote last, so that one left by its sender, or past its deadline, must end
the browser or be waited for. Senders and starts may be dropped at any await.

### ProviderSignIn

The record of attempts (`record`) around the submissions of both drivers, with what the
provider saw (`rejected`, `lost`, history variables) and the vault (`vault`). A credential
change is the steps of `browsers/mod.rs` in order, so that a crash may stand between the
vault and the record (`change`). The driver moves from page to page as the provider
answers; which forms it may fill in is the code's `check`, and an outcome is written to
the record only in the steps where the code writes it.

An owner's "continue" has the three outcomes of `Paycom::complete`: a form that is taken up
(`Complete` with `held = "form"`), the PINs the page still holds sent once more
(`SendRetained`), or nothing but a look. What the driver may hold of a page is `MayHold`:
PINs it filled in itself, or ones an owner typed into a document they had already acted in.
`SendRetained` is a submission of its own: the record forgets under it what was lost, and
`taken` counts how often. `rejected` counts what is rejected while a driver waits for the
answer, or when that driver is cut off (`CutOff`: whoever waited cannot know whether it was).

### ScheduleTimes and Schedules

ScheduleTimes is the calculation: `LocalInstant`, `NextDaily`, `Anchor`, `NextRun`, over
zones whose offset changes once, in units of a quarter of a day. Schedules is the rest:
`rows` with their occurrence, `batches` with the keys they were queued under, the
scheduler's `deadline`, and the due pass (`due`, `queueing`), whose batch and move are two
commits. A schedule is edited, switched off, deleted, retimed with its DSP's `zone`, paused
with its provider or suspended with its DSP; `busy` refuses it, a stop loses the pass.

### MailOutbox

`outbox` are the rows, `grant` what each message carries, `hand` the batch the mailer has
read, `result` the delivery it has not recorded, `delivered` what arrived (history). Sending
and recording are two steps, so a crash between them sends again.

### SignIn

One account. Signing in, changing and resetting a password and proving it again each read
the row, hash outside the lock and come back with the row they read (`requests`); all else
is one transaction. `sessions` are the rows with their security row; `proved` (history) is
the password a session's holder showed. Second factors are `keys`, `app`, `codes`; `accepted`
(history) are the authenticator's codes that were taken.

### Team

Roles, memberships, features and invitations as in the tables; `views` are the views opened
before a request, whose revision and role must still hold; `accepting` is an acceptance
between its two closures; `joined` (history) remembers what was offered. Permissions are
counted only while the page that owns them is on (`Visible`), and nobody hands out what
they do not hold (`Assignable`).

### Storage

One DSP's databases: `db` tells, of each kind, whether it exists, how many of its
migrations it has, and whether it holds data; `marks` is what the core database says was
laid out and added; `todo` is what startup or provisioning still has to do, in the code's
order, cut off anywhere. Releases are installed forwards and back (`onDisk`), files are
lost, a backup is made and restored. `had` and `lost` are history.

### HostSetup, HostUpdater

Setup seals what it staged with an inventory in `journal`, then moves it into place one
rename at a time, configuration last; the application may start once that is there, and
change what it finds. The updater's `hostAt` is where a run stands: recovery (`inspect`,
`makeRoom`, `putBack`, `reset`, `startOld`, `reportOld`), selection and download,
activation (`stop`, `retain`, `place`, `merge`, `startNew`, `prove`, `commit`). Each is one
rename, git, systemd or status step, any of which may fail, and a kill may follow any of
them. `active`, `previous`, `receipt`, `head`, `clean`, `status`, `service` and `manager`
are on disk and survive; `tip` and `good` are GitHub's.

### Releasing, Shipping

A release's command (`now`, `goal`, `relAt`) works through its journal (`pinned`,
`prepared`, `smoked`, `complete`) and GitHub (`release`, `aims`, `tag`, `assets`, `checks`),
may end anywhere, and is run again while others move tags, edit drafts, push, and Dev and
Production go on. `pr:ship` knows a pull request (`pr`) only by its last `look`, keeps
counts and heads between looks (`ship`), and ends with what it reports; authors, CodeRabbit,
the checks and the queue move between looks. GitHub may show a pull request without its queue
entry just after the entry is made (`fresh`) or removed (`lag`); one answer is late at most,
and the queue, which runs its checks on the squash commit for minutes, does not merge an entry
before the command has looked again after a late answer. `outside`, the number of looks that
found it outside, is set back only by a look that shows the entry; `ship.first` (history) is
the head of the first of them.

### TimecardReading

A job of several attempts: `roster` is what Paycom shows now, `odd` and `worked` the
employees whose response differs or whose page has punches. Two lanes take employees from
the attempt's queue, render or take the response, and stage the row in the checkpoint
(`row`) and the live run (`live`). A response stands for a page only once one was seen to
equal a page with punches, or, in a job long enough, by its sample. An attempt resumes what
has its job's token, fingerprint and revision. The guard of a late closure names the
process and not the attempt: what a replaced attempt writes may land while the job runs
again, and must meet the token.

### RouteReading

`moments` are what Cortex has shown; `sync` is the job; `reader` the attempt with the list
it read, the routes it has still to read and its pass; `tabs` the route each tab is at. A
pass lists, reads what is new or moved (the second tab starts only when the first list has
more than one route), lists again, and goes on until nothing moved or the passes run out.
`overlay` is the live run, `closures` what an attempt that is gone still has under way,
`meals` the active publication, `counted` every route that was published that day: a later
publication that lacks one is refused.

### LiveReads

`State::read` with its cache (`revision`, `loads`, `entries`, `writer`), the history of
announcements (`epoch`, `changes`, `sent`, `unannounced`) and one dashboard: the long poll
(`poll`, `after`), what its cache has observed (`version`), what its timer holds back
(`pending`), and what each page shows (`shown`). Polls fail, the process restarts, the
dashboard is hidden.

Who announces a write is not the write itself: it is the future that awaited its closure, or
the end of `execute`. So `EndWrite` leaves it open: a write that committed may never be
announced (its task was dropped and its last closure refused, or it was `start_cortex`), and
one that was refused may be. `announced` (history) is what each page held when it was last
announced, and the property speaks of that.

## 4. Runs

| Run | Instance | Shows |
|---|---|---|
| `queue_batch` | 1 DSP, 1 connection, a batch of 2 jobs of a member, 2 slots, 2 attempts, 1 credential change, 2 starts | type, one collection per DSP, leases are this process', a holder runs the newest attempt, data only under current authority; JobQueue implements Collection |
| `records` | 1 job with 2 attempts and 2 starts; or 2 DSPs with 3 jobs on 1 slot and steady authority | attempt rows are free when claimed, stay sealed, claim success only with data; nobody passes a waiting DSP twice |
| `sessions` | 1 connection, 2 tasks of any kind at a time, 2 session objects, capacity 1, 1 credential change; or 3 starts on 2 slots and 2 profiles with 2 commands and a queue of 1 | ready only after the present credentials were accepted, no session lost; answers reach their own command, one browser per profile |
| `sessions_live` | 1 connection, an owner's saves and checks beside expiry, fairness | no connection keeps a session nobody can use; requests end |
| `host` | updater: 3 runtimes, 1 move of the checkout, 2 kills; setup: 5 placements, 3 kills; releases: 2 versions, 2 commits, 1 meddling; a pull request: 2 heads, 4 events, 2 attempts; storage: 2 releases, 3 faults | the old runtime survives and settles as a whole; nothing starts on half an environment; complete is true; two looks at a head tell that it left; a served DSP has its data, startup refuses only a loss |
| `progress` | 1 job, 1 slot, 2 attempts, 2 starts; 2 schedules, 2 edits; 2 messages, 1 stop, 1 retry by hand; 2 runtimes, 1 kill, 1 move; fairness | every job ends, every occurrence runs, every message settles, every killed update recovers |
| `app` | 2 schedules with 2 edits and a stop; an account with 2 sessions, 2 requests, a passkey, 2 passwords, 6 acts; a team of 2 with a role, 3 edits, 2 acceptances; a connection with 2 saves, 5 submissions, 2 losses; 3 employees, 2 attempts, 2 rosters | occurrences once and none skipped; sessions know the password, codes once; an owner remains, invitations are kept; three rejections at most but for PINs an owner sends, nothing is filled in over a lost outcome; one roster, proven first |
| `reads` | 2 pages, a history of 1, a cache of 1, 2 writes of a page each, 1 upset; 2 routes with 2 contents, 2 passes, 2 attempts, 2 syncs, 2 moves | answers are current when given, quiet pages show what was announced; the meals shown are the day's |
| `withdrawn`, `success_recorded` | 1 job, 1 slot | section 5 |
| `sign_in_has_session` | 1 connection, 2 tasks and expiry | section 5 |
| `disagreement` | 3 employees, 2 attempts | section 5 |

`records`, `sessions`, `host`, `progress`, `app` and `reads` hold several parts that share
no state. A variable `part` is chosen at the start and each behaviour is one part's, so a
run checks the sum of its parts and not their product, and a part's properties mean what
they would mean alone. What parts that do share state do to each other is modelled in one
module: JobQueue has the connections, DSPs and processes its tasks meet, JobRecords and
JobTurns are conjoined with it, Schedules has the queue's batches.

Why the bounds are enough. Two slots and two jobs of one DSP are what a second task or
lease for a DSP needs; two attempts give a first one that is retried or recovered and a
last one that is not; one credential change makes a session stale, and a second one
would only make it stale again; two starts give a crash or a drained stop with its
recovery, and the state of a third is that of a second. Two DSPs are what an order of
service needs, and the busy one has a job left after its first. Jobs of `queue_batch`
all have an actor, because a scheduled job's guard differs only by not asking for the
grant; the other runs have both.

Two tasks are what a race for a session needs: one that holds or closes it and one that
replaces or reuses it; `sessions_live` adds the scheduler's expiry as a third. Two session
objects are an old one not yet closed and the new one in its place. `sessions` leaves
expiry out for its size; the theorem of section 7 includes it. A second command behind a
first is what a wrong answer needs; a third start competes with two that hold what there
is. There, commands go to the first start's browser only, while no other start is under
way (`InOrder`): commands of two browsers share nothing.

Two kills interrupt an activation and then its recovery; a third runtime is an update
beside a recovery to the first. Five submissions are three rejections, a lost one and one
too many. Two schedules are due at once; the clock passes a change of the zone and
three occurrences. Two requests with two passwords overlap a sign-in with a change, two
steps of the clock are a code and its successor. Three employees are two lanes at work and one in the
queue; two rosters are one that moved between attempts. Two routes are two tabs, two passes
(the code makes six) one pass that finds a move and one that ends, or runs out. A history
of one change overflows at the second, a cache of one answer evicts at the second. A write
of `reads` changes one page (`OneAtATime`), the first of them the first page, as the pages are
alike: one that changes both is two whose announcements follow one another at once. Of two idle
tabs the first takes the next route (`FirstTab`). Both narrow the instance only; the theorems of
section 7 are about the modules without them.

Bounds that cut behaviour: `MaxRev` in `StopConnection` and `SaveConnection` (`Save` and
`Disable` of BrowserSessions), `MaxWorker` in `Stop` and `Restart`, `MaxClock`, `MaxEdits`
and `MaxStops` of Schedules, `MaxMailStops` and `MaxMailRetries`, `MaxPassword`, `MaxLink`,
`MaxSecret`, `MaxStep` and `MaxActs` of SignIn, `MaxTeamEdits` and `MaxAccepts`, `MaxSaves`,
`MaxSubmissions` and `MaxLosses` of ProviderSignIn, `MaxMoves` (of HostUpdater and of
RouteReading) and `MaxKills`, `MaxSetupKills`, `MaxMeddling`, `LastVersion` and `LastCommit`,
`MaxHeads` and `MaxEvents`, `MaxFaults`, `MaxRosters`, `MaxSyncs`, `MaxWrites` and
`MaxUpsets`. They bound what people, providers and faults do, never what the code does by
itself; all other counters are bounded by the code.

Symmetry is used in safety runs only: over the alike tasks and session objects in
`sessions`, and over slots or alike jobs and DSPs in the runs of the queue whose module names a
set for it.

Every passing property has an entry in `PROJECT.json` under "mutants": the definition of
the code it is about, weakened the way a plausible bug would, under which the same run
fails.

## 5. Where the code and its comments disagree

Four runs look for a state that a comment or a message rules out, and find it.

- `withdrawn`: `error.rs` says that `job_cancelled` means someone withdrew the job. The
  stop signal and the 30-minute limit of a session close it under a collection too, with
  the same error; the job is then still held and ends as failed, without a retry and
  without an audit entry.
- `success_recorded`: the heartbeat may run between the commit of a publication and the
  poll of its result. It finds no lease, the loop ends with `job_cancelled`, and the
  success is never recorded as `collection.completed`.
- `sign_in_has_session`: the dashboard says "Verification expired. Check the connection to
  start again." Revoking a session does not touch the connection's row: when a job's
  sign-in is dropped, or its job cancelled, the row stays at `signing_in` or
  `needs_verification` with no session, and the card disables the check in these two
  statuses. Only new credentials, a job's next sign-in or a restart change it.
- `disagreement`: `browsers/paycom/collection.rs:850` says "One disagreement keeps the whole
  job on rendered reads". The proof that responses agree is an attempt's own: when an attempt
  in which a response differed fails, the job's next attempt begins unproven and not
  disproved, may compare again, prove, and publish from responses.

Two more were met while modelling and have no run of their own; the properties are stated so
that they allow for them.

- `browsers/attempt.rs:66` says "Interrupted submissions may only observe an existing
  authenticated session." An owner who continues a challenge while the session may only
  observe has the PINs sent that the page still holds (`browsers/paycom/mod.rs:325-341`).
  `submitted()` clears `manual` and `recover`, so that the owner's next check may submit the
  vault's credentials again. Each time this happens the provider may reject once more than the
  record knows of (`RejectedAtMostThrice` counts them in `taken`), and a lost outcome is no
  longer withheld (`LostIsNotRepeated` is about what a driver fills in).
- `ci/src/ship.rs:354` says "Just queued or just merged, GitHub can briefly show neither; a
  second look decides." Adding a pull request again after a push (lines 526-532) does not set
  `outside` back; only a look that shows the entry does. If one look found the first head
  outside, a single late answer after the second addition is the second look, and the command
  may say that a pull request left the queue which is in it or merged. `LeftMeansUnmerged` is
  therefore stated for two looks at the same head.

## 6. Fairness

`FairSpec` assumes weak fairness of a task's steps (each await has a timeout), of a
claim into each slot and of recovery (the scheduler ticks every second), of `Due` and of
the lapse of a lease that no task renews (the clock), of detached closures (the lock's
time limit), and of the start after a drained stop (the service manager). It assumes
nothing of members, owners, providers or the pool; `EveryJobEnds` therefore asks that the
pool keep a browser for the DSP from some time on. A lease of a *running* task may lapse
but need not.

MCProgress states this again for its part of the queue, and for the others:

- *Schedules*: weak fairness of the deadline's refresh, of the due pass and its steps, and
  of a running job's end (`EveryJobEnds`); strong fairness of `QueueOccurrence`, for a DSP is
  not found busy at every look: members would have to queue a new collection within the
  minute after each one ends, for ever. The clock is not fair: the property is about occurrences that are due.
- *Mail*: weak fairness of the mailer's steps, which have time limits, and of the retry
  delays.
- *Host*: weak fairness of the timer and of a run's steps, which have time limits; strong
  fairness of the three steps a recovery cannot do without and that may fail each time, to
  begin, to start the old runtime and to report it. `Recovers` further assumes that the
  owner in the end leaves a Dev checkout clean and on one of the two commits, which the code
  asks for before it touches it. Kills are bounded.

`OwnerSpec` of MCBrowserSessions assumes weak fairness of each task's steps (requests,
launches and locks have time limits), of references going and browsers being reaped (a
browser that does not end is killed), and strong fairness of `Sweep`: the scheduler ticks
every second, and between two ticks a session may be busy with something else.

Liveness is checked with one DSP. With several, the pool could serve each DSP in turn
only while another is first in the order; what one DSP may expect of the others is
`NobodyPassesTwice`, a safety property.

## 7. Proofs

`JobQueueProofs` proves, for any finite sets of jobs and slots, any DSPs and
connections, any limits and any number of credential changes and starts, from the three
assumptions of JobQueue (`FiniteAssumption`, `MapAssumption`, `LimitAssumption`):

- `AlwaysSafe`: `Safe` is invariant. It is the conjunction of `TypeOK`,
  `LeasesAreOurs`, `OneCollectionPerDsp`, `HolderIsNewest` and `WaitingHasAttempts`,
  and it is inductive, none of its parts being so alone: a holder is newest because a
  job is claimed only when its DSP has no task, which needs one collection per DSP; an
  attempt number stays in its type because a waiting job has an attempt left; a retry
  leaves one because leased jobs are within their attempts.
- `TypeCorrect`, `OneAtATime`, `NoForeignLease`, `HolderRunsNewestAttempt`,
  `NoExhaustedWait`: its parts.
- `LeasesWithinCapacity`: leases never exceed the slots, by cardinality over `Claim`;
  every other step only shrinks the set.
- `FinalForGood`: the action property `FinalStays`, from the invariant. No run checks it
  any more, as `PromiseKept` implies it on the instances.

The argument's shape: every action but `Claim` and `Restart` is *calm*: it changes a
row only by giving its lease up, keeping it, or queueing an absent job (`RowsCalm`), and
a task only by moving it on or ending it (`TasksCalm`). One lemma shows that each such
action is calm, one that calm steps keep the invariant; `Claim` and `Restart` have
proofs of their own.

`JobQueueAuthority` proves `PublicationIsCurrent` (`PublishedUnderAuthority`). The guard
of the publication closure compares the connection's revision with the job's; nothing
there looks at the session the data came from. That the session is of the same revision
follows from an order, `RevisionsInOrder`: a job's revision is at most that of its task's
session, which is at most the connection's, because the job reads it first and revisions
only grow. When the guard finds the ends equal, the middle is. The invariant needs that a
job with a task is in the table, since only queueing sets a job's revision.

`JobQueuePromise` proves the refinement (`QueueKeepsPromise`): initial states map to
initial states, and each action to one step of Collection or none: Enqueue to Accept, the
cancellations to Withdraw, Claim to Start, recovery and Restart to Lose, Defer to
GiveBack, Record to Retry or Fail, a publication to Succeed or Deposit. Besides `Safe` it
needs that a job never queued used no attempt (`AbsentIsNew`).

`JobRecordsProofs` carries this over to what the queue writes for its readers: recording
steers nothing (`RecordsObserve`, every behaviour of JobRecords is one of JobQueue), so that
`Safe` holds there too. Its own invariant says that no row is ahead of the attempts counted
(`NoRowAhead`), that the row of a task which may still defer or publish says "running"
(`RowRuns`), and that a publication whose task was dropped is alone with that task's last
closure (`DetachedStand`), which is why the row it finds may be closed but never by another
attempt. From it: the next attempt's key is free (`NextRowIsFree`), outcomes are written once
(`OutcomesAreSealed`), success has data (`SuccessWasPublished`). `WaitingIsPassedOnce` proves
JobTurns' `NobodyPassesTwice`: whatever ends a job stamps its DSP in the same closure
(`EveryEndIsStamped`), so that who overtook a waiting DSP completed later than it
(`OvertakenStand`), and the claim takes the one that completed first.

`BrowserProofs`, on provider connections:

- `NoSessionLost`: a session leaves the registry only to be closed, for any connections,
  sessions and tasks. Its invariant `Accounted` says of every task where it stands and that
  it names a session there (`Placed`), and that whatever is registered or named exists
  (`InUse`); without the second, an answer that is stored late (`StoreStatus`) could bring a
  dropped object back. Most actions are calm again; `Stop`, `RevokeCurrent`, `Close`,
  `Insert`, `Drop`, `Exited` and `Restart` have proofs of their own.
- `ReadyIsProved`: a connection shown as ready was accepted with the credentials it has. An
  answer may arrive at a session of older credentials and be written after a change. `Honest`
  follows the claim "ready" from the task (`HonestFlow`) to its session (`HonestSession`) to
  the row: at each of them it is either of an older revision, and then `Write` refuses it, or
  the provider has accepted the present one.
- `BrowsersAreApart`, `AnswersMatch`: leases and permits are held by the runs that took them
  (`LeasesAreHeld`, `SlotsAreHeld`, `RunsAreWhole`), and between a supervisor and its worker
  is one command or its answer (`PipesInStep`).

`HostProofs`:

- `OldRuntimeSurvives`, `SettledRuntimeIsWhole`, for any number of runtimes, moves of the
  checkout and kills: from the receipt to its removal the old runtime is whole, and without a
  receipt files, service and status are one runtime. Neither is inductive: a rename is safe
  because of what the run did since it wrote the receipt, which is where it stands.
  `Activating` and `Recovering` say what each place guarantees of the receipt, the kept
  runtime, the active one and the checkout; a kill forgets the place, and leaves
  `OldSurvives` and `Settled`, which every recovery starts from.
- `StartsWhole`: what is prepared is staged or placed whichever rename a kill came after
  (`SetupDisk`), and the configuration is placed last.
- `CompleteReleaseIsTrue`: checks and environments move on, so the invariant keeps what was
  ever true of the pinned commit (`BytesAreProved`) and where the command stands (`RelStands`).
- `LeftWasNotMerged`, for pull requests both of whose looks were at the present head: one look
  that finds it outside the queue may be a late answer, just after the entry was made or
  removed; a second one at that head is not (`LookIsTold`, `OutsideIsTold`). A look at an
  earlier head says nothing of this one, and the count does not tell them apart.
- `DataIsServed`, `RefusalIsLoss`: startup and provisioning are ordered lists of work
  (`Ordered`); what is behind them is done (`WorkIsDone`), what is on disk between any two
  steps is enough to begin again (`DiskHolds`), and a backup is as sound as the disk was.

`AppProofs`:

- `ThirdRejectionIsTheLast`, `LostStaysUnrepeated`, for any number of submissions, crashes
  and credential changes. What the provider has seen is ahead of the record by the PINs an
  owner had sent over a lost outcome (`taken`) and at most one rejection more (`Owed`): that
  on a page whose driver has not settled it (`Unsettled`), or one nobody saw, which is
  `Unheard` until the record is opened again and `Withheld` from then on, when no driver holds
  the credentials. The record counts to three by itself; the theorem is that what is ahead of
  it grows by nothing else.
- `PasswordIsKnown`, `CodeUsedOnce`: the row a request read may be stale, but its version
  then is an older one, and a version stands for one password (`SessionsKnow`,
  `RequestsKnow`); an authenticator remembers the newest code it took (`CodesInOrder`) and one
  that is only offered has none (`SecretsAreNew`).
- `OwnerStays`, `JoinedAsInvited`: an open invitation stands for a role that is there as it
  was offered, and for nobody who is a member (`InvitationsStand`).
- `NoOccurrenceTwice`, `NoOccurrenceSkipped`: an occurrence is later than the one before
  (`NextIsLater`, about ScheduleTimes, for every zone whose change moves the clock by a day at
  most), so that the batches a schedule has had are of its occurrences up to the one it stands at.
- `OneRosterHolds`, `ProvenFirstHolds`: a checkpoint's token stands for the roster its pages
  were read under, in the table, in the attempt and in writes still on their way (`Tokens`).

`ReadingProofs`:

- `MealsAreTheDayHolds`: what an attempt is about to publish is its list of one moment with
  every record read since (`NothingLost`, `ReaderStands`); what is staged is of that sync and
  not older than the last publication (`LiveStands`), late writes included (`LateStands`).
- `AnswersHold`, `QuietPagesHold`: a writer advances the revision before it commits and
  shares the lock with no reader (`CacheIsCurrent`); what was announced is committed
  (`AnnouncedIsCommitted`), and of whatever on the dashboard is staler than its announcement it
  will still be told, by the history, the reply under way or its own timer (`StaleIsOwed`).

The theorems hold from the modules' named assumptions alone, which the runs evaluate. The bounds on what
people and faults do are any numbers there; besides them the assumptions are:

- of JobQueue, that jobs and slots are finite and every job has a connection, every
  connection a DSP; of BrowserRuntime, the range of `Slots`;
- `SetupAssumption`: the placements are at least two and distinct (the code's list);
- `StorageAssumption`: a release knows at least the migrations of the one before it;
- `FoundedAssumption`: the DSP at the start has an owner, who has accepted;
  `SchedulesAssumption`: times lie within a day and a zone's change moves the clock by a day
  at most;
- that routes and pages are finite.

Induction over data is out of this prover's reach in general: no induction theorem can be
instantiated. What a well-founded set gives by its least member still is: that a set of
numbers has a least or greatest one, and, by the least counterexample, what the server's
cache keeps after any number of evictions (`Retained` of LiveReads, a recursive function).

## 8. Limits

Only model-checked: the liveness properties (`EveryJobEnds`, `EveryOccurrenceRuns`,
`MailSettles`, `Recovers`, `ComesFree`, `RequestsEnd`), since fairness speaks of ENABLED,
which the prover does not reach; MailOutbox, of which only liveness is stated; and the
violations of section 5. Proved and not run: `WaitingHasAttempts`, `LeasesFit`, `FinalStays`,
the last of which `PromiseKept` implies on the instance of `queue_batch`.

What the properties do not promise, because the code does not:

- A page answered before the dashboard observed its first revision may stay stale until the
  next change (`QuietPagesAreAnnounced` says so).
- A change nobody announced is not seen on an open dashboard until the next announcement, or
  until it returns from being hidden: a publication that commits after its task was dropped and
  `executor.rs:213` has passed, and the start of a run of live results.
- After PINs an owner sent over a lost outcome, the limit of three rejections is that of the
  record and no longer the provider's; after a second addition to the merge queue, one look
  decides (section 5).
- An answer that comes after a driver has stopped waiting for it, without being cut off, is not
  counted in `rejected`: neither the driver nor its successor sees it.
- The first and last delivery of a route have no part in its revision (`meal.js:134-163`), so a
  publication is of one moment in what is versioned: punches, driver, route and completeness.
- Within an attempt, a late write may show an older row of a route than one read since; what
  is shown is never older than the publication (`MealsAreTheDay`).
- Mail may be sent twice after a crash, and a grant revoked while its message is in hand is
  still delivered, though it no longer works.

Not modelled:

- *Queue and metrics*: progress texts, the retention clean-up, phases and memory samples,
  cancelling a provider's jobs when its feature goes off.
- *Browsers*: screenshots and assistance, the preferences file, the egress proxy, the
  browser protocol, admission by memory. When the whole process dies its browsers are the
  sandbox's to end (`--die-with-parent`).
- *Providers*: what a page or response says and how it is extracted; benchmarks; the
  scorecard's collection; several meal scopes of one day, the matching of drivers to
  employees, and publications kept beside the active one.
- *Accounts*: passkey cryptography, throttles, presence; that the permission to manage
  connections is there as soon as one connection's feature is on (`features.rs:94-98`). *DSPs*:
  creating and renaming them. *Storage*: backups of a DSP that is half provisioned, suspended
  or has lost a file, which the code copies as they are (`operations.rs:176`).
  *Schedules*: holidays.
- *Host*: the updater's wait for a later selection, archive formats, permissions. Setup
  discards an unprepared run by removing its staging directory and then its journal; a kill
  between the two leaves a journal without a directory, which later runs refuse. The model
  has this (`Discard`, `Forget`, `Initialize`), and no property promises otherwise: nothing
  is in place by then.
- *Domain*: workforce, scorecard, uniforms, operations and the audit log's pages are reads
  and single transactions; what they compute is data here.
- Third-party pages, formatting, cryptography, the rest of the dashboard, the builds and
  checks CI runs, the mail worker.
