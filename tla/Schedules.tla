---- MODULE Schedules ----
(***************************************************************************)
(* The collection schedules of a DSP (schedules.rs) and the scheduler that *)
(* queues what is due (jobs/scheduler.rs).  A schedule's occurrence is its *)
(* next_run.  Members edit schedules, the owner moves the DSP to another   *)
(* time zone, disconnects a provider, suspends the DSP; the scheduler      *)
(* keeps the next deadline in memory, and a due schedule is queued and     *)
(* then moved on in two commits, between which the process may stop.       *)
(* Everything that writes holds the store's lock.                          *)
(***************************************************************************)
EXTENDS ScheduleTimes, Sequences

CONSTANTS
    Schedule,     \* the identifiers of schedules
    Timings,      \* the timings a member may choose
    ZoneChoices,  \* the time zones of a DSP
    MaxClock,     \* bounds the time, which starts on the second day
    MaxEdits,     \* bounds what members and owners change
    MaxStops      \* bounds how often the process stops

ASSUME SchedulesAssumption ==
    /\ Schedule \subseteq Nat /\ MaxClock \in Nat /\ MaxEdits \in Nat /\ MaxStops \in Nat
    /\ Timings # {}
    /\ \A timing \in Timings :
           /\ timing.cadence \in {"daily", "interval"}
           /\ timing.period \in Nat \ {0} /\ timing.time \in 0..(Day - 1)
    /\ \A z \in ZoneChoices : IsZone(z)

VARIABLES
    clock,      \* the time
    zone,       \* the DSP's time zone
    serving,    \* the DSP is active here and has the schedules feature
    connected,  \* its providers are connected, its schedules' sources ready
    rows,       \* collection_schedules
    batches,    \* the batches in the queue, by the occurrence in their key, in their order
    busy,       \* the DSP has unfinished jobs
    deadline,   \* Scheduler.deadlines of the DSP
    due,        \* schedule_due: the rows it has yet to look at, oldest first
    queueing,   \* schedule_due: the first of them is queued, but not moved on
    edits, stops

table == <<zone, serving, connected, rows>>
memory == <<deadline, due, queueing>>
schedVars == <<clock, table, batches, busy, memory, edits, stops>>

NoSchedule == [there |-> FALSE, timing |-> CHOOSE t \in Timings : TRUE, anchor |-> Never, on |-> FALSE,
          next |-> Never, revision |-> 0, error |-> FALSE]
On == {s \in Schedule : rows[s].there /\ rows[s].on}

\* state.run: writers take turns, and schedule_due is one of them.
Unlocked == due = <<>>

\* What every write leaves alone.  It wakes the scheduler, unless its request was dropped.
Edits ==
    /\ Unlocked /\ edits < MaxEdits /\ edits' = edits + 1
    /\ UNCHANGED <<clock, batches, busy, deadline, due, queueing, stops>>

\* save_schedule, and enable_schedule through it: the same timing keeps its anchor, and a
\* schedule that stays on keeps its occurrence.
SaveSchedule(s, timing, enabled) ==
    LET old == rows[s]
        same == old.there /\ old.timing = timing
        start == IF same THEN old.anchor ELSE Anchor(timing.time, zone, clock)
        next == IF ~enabled THEN Never
                ELSE IF same /\ old.on /\ old.next # Never THEN old.next
                ELSE NextRun(timing, start, zone, clock)
    IN  /\ enabled => connected
        /\ start # Never /\ (enabled => next # Never)
        /\ rows' = [rows EXCEPT ![s] =
               [there |-> TRUE, timing |-> timing, anchor |-> start, on |-> enabled, next |-> next,
                revision |-> old.revision + 1, error |-> FALSE]]
        /\ Edits
        /\ UNCHANGED <<zone, serving, connected>>
DeleteSchedule(s) ==
    /\ rows[s].there
    /\ rows' = [rows EXCEPT ![s] = [NoSchedule EXCEPT !.revision = rows[s].revision]]
    /\ Edits /\ UNCHANGED <<zone, serving, connected>>

\* pause_provider_schedules, as Store::disable calls it: its schedules are switched off.
Disconnect ==
    /\ connected /\ connected' = FALSE
    /\ rows' = [s \in Schedule |->
           IF s \in On THEN [rows[s] EXCEPT !.on = FALSE, !.next = Never, !.error = FALSE,
                                            !.revision = rows[s].revision + 1]
           ELSE rows[s]]
    /\ Edits /\ UNCHANGED <<zone, serving>>
Connect ==
    /\ ~connected /\ connected' = TRUE
    /\ Edits /\ UNCHANGED <<zone, serving, rows>>

\* retime_schedules: in one transaction every schedule starts anew in the zone.
Retimed(where) ==
    rows' = [s \in Schedule |->
        LET start == Anchor(rows[s].timing.time, where, clock) IN
        IF ~rows[s].there THEN rows[s]
        ELSE [rows[s] EXCEPT !.anchor = start, !.error = FALSE, !.revision = rows[s].revision + 1,
                  !.next = IF rows[s].on THEN NextRun(rows[s].timing, start, where, clock)
                           ELSE Never]]
UpdateZone ==
    /\ \E where \in ZoneChoices \ {zone} : zone' = where /\ Retimed(where)
    /\ Edits /\ UNCHANGED <<serving, connected>>
\* update_dsp_details writes the zone and the schedules to two databases.
StopInUpdateZone ==
    /\ Unlocked /\ stops < MaxStops /\ stops' = stops + 1
    /\ zone' \in ZoneChoices \ {zone}
    /\ deadline' = Never
    /\ UNCHANGED <<clock, serving, connected, rows, batches, busy, due, queueing, edits>>
\* set_status and set_feature: the schedules keep their occurrences while they wait, but the
\* feature's return retimes them.
Suspend == serving /\ serving' = FALSE /\ Edits /\ UNCHANGED <<zone, connected, rows>>
Resume ==
    /\ ~serving /\ serving' = TRUE
    /\ UNCHANGED rows \/ Retimed(zone)
    /\ Edits /\ UNCHANGED <<zone, connected>>

----------------------------------------------------------------------------
\* The scheduler

\* schedule_deadlines: the earliest occurrence, of a DSP that is served.
EarliestUnrefused(set) ==
    LET calm == {s \in set : ~rows[s].error}
    IN  IF calm = {} \/ ~serving THEN Never ELSE Min({rows[s].next : s \in calm})
EarliestOf(set) == IF set = {} \/ ~serving THEN Never ELSE Min({rows[s].next : s \in set})

\* run_due_schedules: after a change, and at least every minute, the deadline is read again.
RefreshDeadline ==
    /\ Unlocked
    /\ deadline' = EarliestOf(On)
    /\ UNCHANGED <<clock, table, batches, busy, due, queueing, edits, stops>>

\* ORDER BY next_run, id
Before(r, s) ==
    \/ rows[r].next < rows[s].next
    \/ rows[r].next = rows[s].next /\ r < s
InOrder == [i \in 1..Cardinality(On) |->
              CHOOSE s \in On : Cardinality({r \in On : Before(r, s)}) = i - 1]

\* schedule_due takes the lock; a DSP that is not served loses its deadline.
TakeDue ==
    /\ Unlocked
    /\ deadline # Never /\ deadline <= clock
    /\ deadline' = Never
    /\ due' = IF serving THEN InOrder ELSE <<>>
    /\ UNCHANGED <<clock, table, batches, busy, queueing, edits, stops>>

\* What schedule_due will answer for a row it is done with.
Sooner(instant) == IF deadline = Never \/ instant < deadline THEN instant ELSE deadline
Row == due[1]
RowIsDue == rows[Row].next # Never /\ rows[Row].next <= clock
Occurrence == <<Row, rows[Row].next>>
NeverQueued == FALSE
Queued == \E i \in DOMAIN batches : batches[i] = Occurrence

\* enqueue_schedule: an occurrence that is in the queue was committed before a restart;
\* otherwise its sources must be ready and the DSP must have no unfinished job, whose jobs
\* are then committed together.
QueueOccurrence ==
    /\ ~Unlocked /\ ~queueing /\ RowIsDue
    /\ \/ Queued /\ UNCHANGED <<batches, busy>>
       \/ ~Queued /\ connected /\ ~busy /\ batches' = Append(batches, Occurrence) /\ busy' = TRUE
    /\ queueing' = TRUE
    /\ UNCHANGED <<clock, table, deadline, due, edits, stops>>

\* A refused occurrence stays, and is tried again in a minute.
RefuseAndMoveOn ==
    /\ ~Unlocked /\ ~queueing /\ RowIsDue
    /\ ~Queued /\ (~connected \/ busy)
    /\ LET next == NextRun(rows[Row].timing, rows[Row].anchor, zone, clock)
       IN  /\ rows' = [rows EXCEPT ![Row].next = next, ![Row].error = TRUE]
           /\ deadline' = Sooner(next)
    /\ due' = Tail(due)
    /\ UNCHANGED <<clock, zone, serving, connected, batches, busy, queueing, edits, stops>>
RefuseRow ==
    /\ ~Unlocked /\ ~queueing /\ RowIsDue
    /\ ~Queued /\ (~connected \/ busy)
    /\ rows' = [rows EXCEPT ![Row].error = TRUE]
    /\ deadline' = Sooner(clock + 1)
    /\ due' = Tail(due)
    /\ UNCHANGED <<clock, zone, serving, connected, batches, busy, queueing, edits, stops>>

\* A queued row moves on to its next occurrence after now; the others are left as they are.
MoveOn ==
    /\ ~Unlocked /\ (queueing \/ ~RowIsDue)
    /\ LET next == IF queueing \/ rows[Row].next = Never
                   THEN NextRun(rows[Row].timing, rows[Row].anchor, zone, clock)
                   ELSE rows[Row].next
       IN  /\ rows' = [rows EXCEPT ![Row].next = next, ![Row].error = FALSE]
           /\ deadline' = Sooner(next)
    /\ due' = Tail(due) /\ queueing' = FALSE
    /\ UNCHANGED <<clock, zone, serving, connected, batches, busy, edits, stops>>

\* The process stops and is started again.
StopScheduler ==
    /\ stops < MaxStops /\ stops' = stops + 1
    /\ deadline' = Never /\ due' = <<>> /\ queueing' = FALSE
    /\ UNCHANGED <<clock, table, batches, busy, edits>>

\* Time passes; the DSP's jobs end; a member asks for a collection.
Pass == clock < MaxClock /\ clock' = clock + 1
        /\ UNCHANGED <<table, batches, busy, memory, edits, stops>>
JobsEnd == busy /\ busy' = FALSE /\ UNCHANGED <<clock, table, batches, memory, edits, stops>>
RequestCollection ==
    /\ ~busy /\ busy' = TRUE /\ Unlocked
    /\ edits < MaxEdits /\ edits' = edits + 1
    /\ UNCHANGED <<clock, table, batches, memory, stops>>

SchedInit ==
    /\ clock = Day /\ zone \in ZoneChoices /\ serving = TRUE /\ connected = TRUE
    /\ rows = [s \in Schedule |-> NoSchedule]
    /\ batches = <<>> /\ busy = FALSE
    /\ deadline = Never /\ due = <<>> /\ queueing = FALSE
    /\ edits = 0 /\ stops = 0

Members == \E s \in Schedule :
               \/ \E timing \in Timings, enabled \in BOOLEAN : SaveSchedule(s, timing, enabled)
               \/ DeleteSchedule(s)
OwnerEdits == Disconnect \/ Connect \/ UpdateZone \/ StopInUpdateZone \/ Suspend \/ Resume
SchedulerSteps == RefreshDeadline \/ TakeDue \/ QueueOccurrence \/ RefuseRow \/ MoveOn
SchedNext == Members \/ OwnerEdits \/ SchedulerSteps \/ StopScheduler \/ Pass \/ JobsEnd \/ RequestCollection
SchedSpec == SchedInit /\ [][SchedNext]_schedVars

----------------------------------------------------------------------------
\* Properties

\* An occurrence is queued at most once, however often the process stops between its batch
\* and the schedule's move: members never get a collection twice for one time.
OccurrenceOnce == \A i, k \in DOMAIN batches : batches[i] = batches[k] => i = k

\* An occurrence is never skipped: while nobody edits the schedule, it moves on from an
\* occurrence only when that occurrence's batch is in the queue.
MovesOnWhenQueued(s) ==
    rows[s].on /\ rows'[s].on /\ rows'[s].revision = rows[s].revision /\ rows'[s].next # rows[s].next =>
        \E i \in DOMAIN batches' : batches'[i] = <<s, rows[s].next>>
NoneIsSkipped == [][\A s \in Schedule : MovesOnWhenQueued(s)]_schedVars

\* Every due occurrence of a served DSP with its providers is queued in the end, beside
\* schedules that are due at once, refusals while a job is unfinished, and dropped wake-ups.
Waits(s) == s \in On /\ serving /\ connected /\ rows[s].next <= clock
EveryOccurrenceRuns ==
    \A s \in Schedule : Waits(s) ~> \/ ~Waits(s)
                                    \/ \E i \in DOMAIN batches : batches[i] = <<s, rows[s].next>>

\* The scheduler ticks every second and refreshes every minute, jobs end, and a DSP is not
\* found with an unfinished job whenever its schedules are looked at.
SchedulerRuns ==
    /\ WF_schedVars(RefreshDeadline) /\ WF_schedVars(TakeDue)
    /\ WF_schedVars(MoveOn) /\ WF_schedVars(RefuseRow) /\ WF_schedVars(JobsEnd)
    /\ SF_schedVars(QueueOccurrence)
SchedFairSpec == SchedSpec /\ SchedulerRuns
====
