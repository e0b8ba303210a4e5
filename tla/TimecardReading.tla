--------------------------- MODULE TimecardReading ---------------------------
(***************************************************************************)
(* One Paycom collection of a DSP: the roster, the checkpoint it resumes   *)
(* from, the lanes that read one timecard after another, the comparisons   *)
(* that allow a timecard to be read from the provider's response instead   *)
(* of the rendered page, the live rows a page shows meanwhile, and the     *)
(* publication (browsers/paycom/collection.rs, collection_checkpoint.rs,   *)
(* live_collection.rs, workforce/publication.rs).                          *)
(*                                                                         *)
(* A timecard is told apart by the roster it was read under, by whether it *)
(* was rendered or taken from a response, and by whether the attempt that  *)
(* read it had seen a response agree with a rendered page.  Employees are  *)
(* their indexes in the roster.                                            *)
(***************************************************************************)
EXTENDS Integers, FiniteSets

CONSTANTS
  Employees,      \* how many employees the roster has
  SampledRoster,  \* a job this long samples (SAMPLED_ROSTER)
  SampleSize,     \* employees sampled besides (SAMPLE)
  MaxAttempts,    \* bound: attempts of the job (its max_attempts)
  MaxRosters,     \* bound: rosters the provider has shown
  Oddities,       \* the sets of employees whose response may differ from the page
  Workings        \* the sets of employees whose page may have punches

ASSUME ReadingAssumption ==
  /\ Employees \in Nat \ {0} /\ SampledRoster \in Nat \ {0}
  /\ SampleSize \in Nat /\ MaxAttempts \in Nat \ {0} /\ MaxRosters \in Nat \ {0}
  /\ \A x \in Oddities \union Workings : x \subseteq 1 .. Employees

Employee == 1 .. Employees
Lane     == {1, 2}     \* the two tabs; six requests over HTTP behave as two

VARIABLES
  roster,     \* what the provider shows: period, timezone and employees
  odd,        \* the employees whose response differs from their page
  worked,     \* the employees whose page has punches
  job,        \* the job's status
  attempt,    \* its attempt
  row,        \* the checkpoint: token (0: none), fingerprint, whether within its TTL
  saved,      \* the checkpoint's pages
  live,       \* the live run: its checkpoint token (0: none) and its pages
  run,        \* the attempt in memory
  lanes,      \* what each lane is doing
  late,       \* writes of a replaced attempt that were still under way
  published,  \* the pages of the active publication (the job's own)
  differed,   \* a response was seen to differ from its rendered page
  tokens     \* checkpoint tokens made

readingVars == <<roster, odd, worked, job, attempt, row, saved, live, run, lanes,
                 late, published, differed, tokens>>

NoPage == [by |-> "none", of |-> 0, proven |-> FALSE]
NoPages == [e \in Employee |-> NoPage]
Got(pages) == {e \in Employee : pages[e] # NoPage}
PageBy(how, proven) == [by |-> how, of |-> run.roster, proven |-> proven]

IdleLane == [at |-> "idle", e |-> 0, direct |-> FALSE, page |-> NoPage, code |-> "none"]
NoRun == [phase |-> "none", roster |-> 0, token |-> 0, pages |-> NoPages, todo |-> {},
          sample |-> {}, direct |-> "disabled", matched |-> FALSE, differed |-> FALSE,
          stopped |-> FALSE]
NoRow  == [token |-> 0, print |-> 0, fresh |-> FALSE]
NoLive == [token |-> 0, pages |-> NoPages]

\* The job's guard: it runs and is leased to this process.  It names the process and not
\* the attempt, so one that is gone passes it while the next one runs.
Holds == job = "running"

-----------------------------------------------------------------------------
\* Claimed: an attempt begins with nothing in memory.
StartAttempt ==
  /\ job = "queued" /\ attempt < MaxAttempts /\ run = NoRun
  /\ job' = "running" /\ attempt' = attempt + 1
  /\ run' = [NoRun EXCEPT !.phase = "roster"]
  /\ lanes' = [l \in Lane |-> IdleLane]
  /\ UNCHANGED <<roster, odd, worked, row, saved, live, late, published, differed, tokens>>

\* The first few of the sampled employees: one the roster shows with hours,
\* when there is one, and up to SampleSize others.
ProofSamples(todo) ==
  LET busy  == worked \cap todo
      first == IF busy # {} THEN CHOOSE e \in busy : \A o \in busy : e <= o
               ELSE CHOOSE e \in todo : \A o \in todo : e <= o
      rest  == todo \ {first}
  IN {{first} \union some : some \in
        {x \in SUBSET rest : Cardinality(x) = SampleSize \/ (x = rest /\ Cardinality(x) < SampleSize)}}

\* The employees spot-checked when responses are read in a tab: some of those
\* after the first two of a long enough list.
SpotSamples(todo) ==
  LET later == {e \in todo : Cardinality({o \in todo : o < e}) >= 2}
  IN IF Cardinality(todo) < SampledRoster THEN {{}}
     ELSE {x \in SUBSET later :
             Cardinality(x) = SampleSize \/ (x = later /\ Cardinality(x) < SampleSize)}

\* The checkpoint of this roster is resumed when it is fresh and of the same
\* fingerprint; any other is replaced.  The live rows start over with the
\* resumed pages.
ResumesOwn == row.token # 0 /\ row.fresh
Resumes == row.token # 0 /\ row.fresh /\ row.print = roster

\* start_live discards whatever run was shown; the resumed pages are staged at once.
StartLive(token, pages) == [token |-> token, pages |-> pages]

\* How the pages still to read are read: in tabs, or, on the first attempt when
\* the session works over HTTP, after a sample has been read both ways.
Plan(token, pages) ==
  LET todo == Employee \ Got(pages)
      base == [NoRun EXCEPT !.roster = roster, !.token = token, !.pages = pages, !.todo = todo]
  IN {[base EXCEPT !.phase = "reading", !.direct = "unknown", !.sample = x] : x \in SpotSamples(todo)}
     \union (IF attempt = 1 /\ Cardinality(todo) >= SampledRoster
             THEN {[base EXCEPT !.phase = "proving", !.sample = x] : x \in ProofSamples(todo)}
             ELSE {})

Prepare ==
  LET pages == IF Resumes THEN saved ELSE NoPages
      token == IF Resumes THEN row.token ELSE tokens + 1
  IN /\ run.phase = "roster" /\ Holds
     /\ IF Resumes THEN UNCHANGED <<row, tokens>>
        ELSE row' = [token |-> token, print |-> roster, fresh |-> TRUE] /\ tokens' = token
     /\ saved' = pages
     /\ live' = StartLive(token, pages)
     /\ run' \in Plan(token, pages)
     /\ UNCHANGED <<roster, odd, worked, job, attempt, lanes, late, published, differed>>

-----------------------------------------------------------------------------
(* A lane takes the next employee; a page read in a tab may be taken from   *)
(* the response when that is allowed at this moment.                        *)
Open == IF run.phase = "proving" THEN run.todo \cap run.sample ELSE run.todo

TakeNext(l) ==
  /\ run.phase \in {"proving", "reading", "http"} /\ lanes[l].at = "idle"
  /\ ~run.stopped /\ Open # {}
  /\ LET e == CHOOSE x \in Open : \A o \in Open : x <= o
     IN /\ lanes' = [lanes EXCEPT ![l] = [IdleLane EXCEPT !.at = "read", !.e = e,
                                           !.direct = run.direct = "enabled"]]
        /\ run' = [run EXCEPT !.todo = run.todo \ {e}]
  /\ UNCHANGED <<roster, odd, worked, job, attempt, row, saved, live, late, published,
                 differed, tokens>>

\* The lane has the employee's records, to be saved next.
With(l, page) == lanes' = [lanes EXCEPT ![l].at = "save", ![l].page = page]
ReadingFrame == UNCHANGED <<roster, odd, worked, job, attempt, row, saved, live, late,
                            published, tokens>>

\* A rendered page.  With punches on it, the first lane to get here checks the
\* response against it before anything is read from a response.
Render(l) ==
  /\ run.phase = "reading" /\ lanes[l].at = "read" /\ ~lanes[l].direct
  /\ IF lanes[l].e \in worked /\ run.direct = "unknown"
     THEN /\ run' = [run EXCEPT !.direct = "verifying"]
          /\ lanes' = [lanes EXCEPT ![l].at = "verify"]
     ELSE With(l, PageBy("page", run.matched)) /\ UNCHANGED run
  /\ UNCHANGED differed /\ ReadingFrame

\* A response that cannot be read, or differs (a punch may have landed since),
\* keeps this attempt on rendered pages.
Verify(l) ==
  /\ lanes[l].at = "verify"
  /\ \E agrees \in BOOLEAN, read \in BOOLEAN :
       /\ agrees => read /\ lanes[l].e \notin odd
       /\ run' = [run EXCEPT !.direct = IF agrees THEN "enabled" ELSE "disabled",
                             !.matched = run.matched \/ agrees]
       /\ differed' = (differed \/ (read /\ ~agrees))
  /\ With(l, PageBy("page", run.matched))
  /\ ReadingFrame

\* A response that validates is the timecard, unless this employee is sampled;
\* one that does not is rendered instead.
ReadResponse(l) ==
  /\ run.phase = "reading" /\ lanes[l].at = "read" /\ lanes[l].direct
  /\ \/ lanes' = [lanes EXCEPT ![l].direct = FALSE]
     \/ lanes[l].e \notin run.sample /\ With(l, PageBy("response", run.matched))
     \/ lanes[l].e \in run.sample /\ lanes' = [lanes EXCEPT ![l].at = "spot"]
  /\ UNCHANGED <<run, differed>> /\ ReadingFrame

\* The sampled employee is rendered too; a response that still differs fails
\* the collection.
Fails(l, code) == /\ lanes' = [lanes EXCEPT ![l].at = "failed", ![l].code = code]
SpotCheck(l) ==
  /\ lanes[l].at = "spot"
  /\ IF lanes[l].e \in odd
     THEN /\ Fails(l, "provider_response_mismatch")
          /\ run' = [run EXCEPT !.stopped = TRUE] /\ differed' = TRUE
     ELSE With(l, PageBy("page", run.matched)) /\ UNCHANGED <<run, differed>>
  /\ ReadingFrame

\* One of the sample, read both ways; the rendered read is kept.
Prove(l) ==
  /\ run.phase = "proving" /\ lanes[l].at = "read"
  /\ IF lanes[l].e \in odd
     THEN run' = [run EXCEPT !.differed = TRUE] /\ differed' = TRUE
     ELSE /\ run' = [run EXCEPT !.matched = run.matched \/ lanes[l].e \in worked]
          /\ UNCHANGED differed
  /\ With(l, PageBy("page", FALSE)) /\ ReadingFrame

\* Whether the comparisons allow the rest to be read over HTTP.
ProvenUnlessDiffers == ~run.differed
Proven == run.matched /\ ~run.differed

ReadHttp(l) ==
  /\ run.phase = "http" /\ lanes[l].at = "read"
  /\ With(l, PageBy("response", run.matched /\ ~run.differed))
  /\ UNCHANGED <<run, differed>> /\ ReadingFrame

\* A read that fails stops the other lane before its next employee.  A failed
\* verification leaves responses disallowed.
FailRead(l) ==
  /\ lanes[l].at \in {"read", "verify", "spot"}
  /\ \E code \in {"provider_timeout", "authentication_failed"} : Fails(l, code)
  /\ run' = [run EXCEPT !.stopped = TRUE,
                        !.direct = IF lanes[l].at = "verify" THEN "disabled" ELSE run.direct]
  /\ UNCHANGED differed /\ ReadingFrame

-----------------------------------------------------------------------------
\* A page is shown while the live run is of its checkpoint: a page of an old token
\* never reaches a run that replaced it.
Staged(token, e, page) ==
  IF token # 0 /\ live.token = token THEN [live EXCEPT !.pages[e] = page] ELSE live

\* It is written to the checkpoint of its token while that is fresh, in one
\* transaction with what is shown, and only under a job that is held.
Written(token, e, page) ==
  /\ saved' = IF row.token = token /\ row.token # 0 /\ row.fresh
              THEN [saved EXCEPT ![e] = page] ELSE saved
  /\ live' = Staged(token, e, page)

SavePage(l) ==
  /\ lanes[l].at = "save"
  /\ IF Holds
     THEN /\ Written(run.token, lanes[l].e, lanes[l].page)
          /\ run' = [run EXCEPT !.pages[lanes[l].e] = lanes[l].page]
          /\ lanes' = [lanes EXCEPT ![l] = IdleLane]
     ELSE /\ Fails(l, "job_cancelled") /\ run' = [run EXCEPT !.stopped = TRUE]
          /\ UNCHANGED <<saved, live>>
  /\ UNCHANGED <<roster, odd, worked, job, attempt, row, late, published, differed, tokens>>

\* A write of an attempt that was replaced meanwhile.
SaveLate ==
  /\ \E w \in late :
       /\ late' = late \ {w}
       /\ IF Holds THEN Written(w.token, w.e, w.page)
          ELSE UNCHANGED <<saved, live>>
  /\ UNCHANGED <<roster, odd, worked, job, attempt, row, run, lanes, published, differed, tokens>>

-----------------------------------------------------------------------------
LanesEnded == \A l \in Lane :
  lanes[l].at = "failed" \/ (lanes[l].at = "idle" /\ (run.stopped \/ Open = {}))
Failed == {l \in Lane : lanes[l].at = "failed"}

\* The sample agreed everywhere and had punches: the browser closes and the rest
\* is read over HTTP.  Otherwise the rest is rendered.
Decide ==
  /\ run.phase = "proving" /\ LanesEnded /\ Failed = {}
  /\ run' = [run EXCEPT !.phase = IF Proven THEN "http" ELSE "reading", !.sample = {}]
  /\ lanes' = [l \in Lane |-> IdleLane]
  /\ UNCHANGED <<roster, odd, worked, job, attempt, row, saved, live, late, published,
                 differed, tokens>>

\* The job's row after an attempt that failed: queued again for a retryable code
\* while attempts remain, and otherwise failed, its checkpoint discarded.
AttemptEnds(again) ==
  /\ job' = IF again THEN "queued" ELSE "failed"
  /\ IF again THEN UNCHANGED <<row, saved>> ELSE row' = NoRow /\ saved' = NoPages
  /\ live' = NoLive /\ run' = NoRun /\ lanes' = [l \in Lane |-> IdleLane]

\* Every lane is waited for; the first lane's error is the attempt's.
FailAttempt ==
  /\ \/ run.phase = "roster"
     \/ run.phase \in {"proving", "reading", "http"} /\ LanesEnded /\ Failed # {}
  /\ \E code \in IF run.phase = "roster" THEN {"provider_timeout", "roster_not_complete"}
                 ELSE {lanes[CHOOSE l \in Failed : \A o \in Failed : l <= o].code} :
       IF Holds THEN AttemptEnds(code = "provider_timeout" /\ attempt < MaxAttempts)
       ELSE run' = NoRun /\ lanes' = [l \in Lane |-> IdleLane] /\ UNCHANGED <<job, row, saved, live>>
  /\ UNCHANGED <<roster, odd, worked, attempt, late, published, differed, tokens>>

\* Everything was read: the publication is replaced whole, and the checkpoint and
\* the live rows go with the job.
Publish ==
  /\ run.phase \in {"reading", "http"} /\ LanesEnded /\ Failed = {}
  /\ run.todo = {} /\ Got(run.pages) = Employee
  /\ IF Holds
     THEN /\ published' = run.pages /\ job' = "succeeded"
          /\ row' = NoRow /\ saved' = NoPages /\ live' = NoLive
     ELSE UNCHANGED <<published, job, row, saved, live>>
  /\ run' = NoRun /\ lanes' = [l \in Lane |-> IdleLane]
  /\ UNCHANGED <<roster, odd, worked, attempt, late, differed, tokens>>

-----------------------------------------------------------------------------
\* The job is cancelled under the running attempt.
Cancel ==
  /\ job \in {"queued", "running"}
  /\ job' = "cancelled" /\ row' = NoRow /\ saved' = NoPages /\ live' = NoLive
  /\ UNCHANGED <<roster, odd, worked, attempt, run, lanes, late, published, differed, tokens>>

\* The attempt's lease runs out: its next guard fails, and the job is queued
\* again.  Its last writes may still be waiting for the lock.
LoseLease ==
  /\ job = "running" /\ attempt < MaxAttempts
  /\ late' = late \union {[token |-> run.token, e |-> lanes[l].e, page |-> lanes[l].page]
                          : l \in {x \in Lane : lanes[x].at = "save"}}
  /\ job' = "queued" /\ run' = NoRun /\ lanes' = [l \in Lane |-> IdleLane]
  /\ UNCHANGED <<roster, odd, worked, attempt, row, saved, live, published, differed, tokens>>

\* The process restarts: the live rows are dropped, the checkpoint is kept.
Restart ==
  /\ job = "running" /\ attempt < MaxAttempts
  /\ job' = "queued" /\ run' = NoRun /\ lanes' = [l \in Lane |-> IdleLane]
  /\ live' = NoLive /\ late' = {}
  /\ UNCHANGED <<roster, odd, worked, attempt, row, saved, published, differed, tokens>>

\* Fifteen minutes after it began a checkpoint is neither written nor resumed.
Expire ==
  /\ row.token # 0 /\ row.fresh
  /\ row' = [row EXCEPT !.fresh = FALSE]
  /\ UNCHANGED <<roster, odd, worked, job, attempt, saved, live, run, lanes, late, published,
                 differed, tokens>>

\* The scheduler drops checkpoints that cannot be resumed.
Prune ==
  /\ row.token # 0 /\ (~row.fresh \/ job \notin {"queued", "running"})
  /\ row' = NoRow /\ saved' = NoPages
  /\ UNCHANGED <<roster, odd, worked, job, attempt, live, run, lanes, late, published,
                 differed, tokens>>

\* The provider's roster, period or the DSP's timezone changes.
RosterChanges ==
  /\ roster < MaxRosters
  /\ roster' = roster + 1
  /\ UNCHANGED <<odd, worked, job, attempt, row, saved, live, run, lanes, late, published,
                 differed, tokens>>

-----------------------------------------------------------------------------
ReadingInit ==
  /\ roster = 1 /\ odd \in Oddities /\ worked \in Workings
  /\ job = "queued" /\ attempt = 0 /\ row = NoRow /\ saved = NoPages /\ live = NoLive
  /\ run = NoRun /\ lanes = [l \in Lane |-> IdleLane] /\ late = {}
  /\ published = NoPages /\ differed = FALSE /\ tokens = 0

ReadingNext ==
  \/ StartAttempt \/ Prepare
  \/ \E l \in Lane : \/ TakeNext(l) \/ Render(l) \/ Verify(l) \/ ReadResponse(l)
                     \/ SpotCheck(l) \/ Prove(l) \/ ReadHttp(l) \/ FailRead(l) \/ SavePage(l)
  \/ SaveLate \/ Decide \/ FailAttempt \/ Publish
  \/ Cancel \/ LoseLease \/ Restart \/ Expire \/ Prune \/ RosterChanges

ReadingSpec == ReadingInit /\ [][ReadingNext]_readingVars

-----------------------------------------------------------------------------
\* live_results: rows of a run whose job is still held.
LiveRows == IF Holds THEN live.pages ELSE NoPages

\* A publication is of one roster, whatever attempts its pages were read in: a
\* checkpoint is never resumed under another period, timezone or roster, and what
\* a replaced attempt read under one never joins the pages of another.  The same
\* holds of what is shown while the collection runs.
OneRoster ==
  /\ \A d, e \in Got(published) : published[d].of = published[e].of
  /\ \A e \in Got(run.pages) : run.pages[e].of = run.roster
  /\ Holds /\ run.phase # "roster" => \A e \in Got(LiveRows) : LiveRows[e].of = run.roster

\* What is published from a response was read by an attempt that had already
\* seen a response equal a rendered page with punches.
ProvenFirst == \A e \in Got(published) : published[e].by = "response" => published[e].proven

\* "One disagreement keeps the whole job on rendered reads"
\* (browsers/paycom/collection.rs:850): a job in which a response was seen to differ publishes
\* nothing read from a response.
DisagreementKeepsRendered ==
  job = "succeeded" /\ differed => \A e \in Employee : published[e].by = "page"
=============================================================================
