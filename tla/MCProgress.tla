----------------------------- MODULE MCProgress -----------------------------
(***************************************************************************)
(* What must happen in the end, in four parts of the platform that make    *)
(* progress on their own: a queued job, a DSP's schedules, the mail outbox *)
(* and the host updater.  The four share no state, so each behaviour is    *)
(* one part's, which the others watch from one of their initial states.    *)
(***************************************************************************)
EXTENDS JobQueue, Schedules, MailOutbox, HostUpdater

CONSTANTS d1, c1

MCDspOf  == [c \in Conn |-> d1]
MCConnOf == [j \in Job |-> c1]

\* An interval of half a day and a time of day; a zone that keeps its offset and one whose
\* clocks are set forward on the second day.
MCTimings == {[cadence |-> "interval", period |-> 2, time |-> 1],
              [cadence |-> "daily", period |-> 4, time |-> 2]}
MCZones == {[change |-> 0, before |-> 0, later |-> 0], [change |-> 6, before |-> 1, later |-> 2]}

VARIABLE part
progressVars == <<part, vars, schedVars, mailVars, hostVars>>

ProgressInit ==
    /\ part \in {"queue", "schedules", "mail", "host"}
    /\ Init /\ SchedInit /\ MailInit /\ HostInit
    /\ part # "schedules" => zone = CHOOSE z \in ZoneChoices : TRUE
    /\ part # "host" => env = CHOOSE e \in Environments : TRUE

ProgressNext ==
    \/ part = "queue" /\ Next /\ UNCHANGED <<part, schedVars, mailVars, hostVars>>
    \/ part = "schedules" /\ SchedNext /\ UNCHANGED <<part, vars, mailVars, hostVars>>
    \/ part = "mail" /\ MailNext /\ UNCHANGED <<part, vars, schedVars, hostVars>>
    \/ part = "host" /\ HostNext /\ UNCHANGED <<part, vars, schedVars, mailVars>>

\* The fairness of FairSpec, SchedFairSpec, MailFairSpec and HostFairSpec, each for its part:
\* the other parts' steps are not due in it.
QueueGoesOn ==
    /\ \A s \in Slot : WF_vars(part = "queue" /\ Executor(s))
    /\ \A s \in Slot : WF_vars(part = "queue" /\ \E j \in Job : Claim(s, j))
    /\ WF_vars(part = "queue" /\ RecoverExpired)
    /\ \A j \in Job : /\ WF_vars(part = "queue" /\ Due(j))
                      /\ WF_vars(part = "queue" /\ Orphan(j) /\ LeaseLapses(j))
    /\ WF_vars(part = "queue" /\ \E c \in detached : RunDetached(c))
    /\ WF_vars(part = "queue" /\ phase = "stopping" /\ Live = {} /\ Restart({}))

SchedulesGoOn ==
    /\ WF_schedVars(part = "schedules" /\ RefreshDeadline)
    /\ WF_schedVars(part = "schedules" /\ TakeDue)
    /\ WF_schedVars(part = "schedules" /\ MoveOn)
    /\ WF_schedVars(part = "schedules" /\ RefuseRow)
    /\ WF_schedVars(part = "schedules" /\ JobsEnd)
    /\ SF_schedVars(part = "schedules" /\ QueueOccurrence)

MailGoesOn ==
    /\ WF_mailVars(part = "mail" /\ Mailer)
    /\ \A m \in Message : WF_mailVars(part = "mail" /\ BecomesDue(m))

HostGoesOn ==
    /\ WF_hostVars(part = "host" /\ Tick)
    /\ WF_hostVars(part = "host" /\ RecoverStep)
    /\ WF_hostVars(part = "host" /\ SelectStep)
    /\ WF_hostVars(part = "host" /\ ActivateStep)
    /\ SF_hostVars(part = "host" /\ Recover /\ hostAt' = "inspect")
    /\ SF_hostVars(part = "host" /\ StartOld /\ hostAt' = "reportOld")
    /\ SF_hostVars(part = "host" /\ ReportOld /\ hostAt' = "recovered")

ProgressSpec ==
    /\ ProgressInit /\ [][ProgressNext]_progressVars
    /\ QueueGoesOn /\ SchedulesGoOn /\ MailGoesOn /\ HostGoesOn
=============================================================================
