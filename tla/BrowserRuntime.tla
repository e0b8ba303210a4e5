--------------------------- MODULE BrowserRuntime ---------------------------
(***************************************************************************)
(* The browser runtime (browsers/browseros): a start takes a slot and the  *)
(* lock of a profile, launches a sandboxed worker and hands both to a      *)
(* supervisor task, which passes commands to the worker one at a time over *)
(* a pipe and gives slot and profile back when the worker is reaped.       *)
(*                                                                         *)
(* The pipe carries no numbers: the supervisor takes the next frame for    *)
(* the answer to the command it wrote last.                                *)
(*                                                                         *)
(* Profiles on disk, the egress proxy, memory admission and what a command *)
(* does in the browser are left out.  A start is named by its caller, who  *)
(* may drop it at any await; so may the sender of a command.               *)
(***************************************************************************)
EXTENDS Integers, Sequences, FiniteSets

CONSTANTS
    Caller,     \* calls of Runtime::start
    Profile,    \* browser profiles
    Command,    \* commands that may be sent
    Slots,      \* config.browser_capacity
    QueueSize,  \* QUEUE_SIZE
    Nobody      \* no profile, no command

ASSUME RuntimeAssumption ==
    /\ Slots \in 1 .. 16 /\ QueueSize \in Nat \ {0}
    /\ Nobody \notin Profile \cup Command

VARIABLES
    slots,    \* places left in Runtime.slots
    leased,   \* the profiles whose lock file is held
    call,     \* the calls of start
    run,      \* the supervisor and the worker of a call's browser
    command   \* the commands sent

runtimeVars == <<slots, leased, call, run, command>>

\* at is where start stands, again whether it launches for the second time.
CallRow == [at : {"idle", "launching", "starting", "closing", "running", "over"},
            profile : Profile \cup {Nobody}, again : BOOLEAN]

\* phase is where serve_child stands, stop the watch that ends it, queue its channel,
\* current the command in flight, pipe what goes to the worker and answers what comes back.
Answer == [of : Command, ok : BOOLEAN]
RunRow == [phase : {"none", "startup", "serving", "stopping"}, stop : BOOLEAN,
           queue : Seq(Command), current : Command \cup {Nobody}, pipe : Seq(Command),
           answers : Seq(Answer), worker : {"none", "starting", "ready", "exited"}]
NoRun  == [phase |-> "none", stop |-> FALSE, queue |-> <<>>, current |-> Nobody,
           pipe |-> <<>>, answers |-> <<>>, worker |-> "none"]

\* got is the command whose result the sender was given; Nobody is an error.
CommandRow == [at : {"unsent", "open", "left", "done"}, got : Command \cup {Nobody}]

Phase(c, ph)   == run[c].phase = ph
CallAt(c, at)  == call[c].at = at
MoveCall(c, at) == call' = [call EXCEPT ![c].at = at]

\* Runtime::new, which Manager::runtime calls once.
RuntimeInit ==
    /\ slots = Slots /\ leased = {}
    /\ call = [c \in Caller |-> [at |-> "idle", profile |-> Nobody, again |-> FALSE]]
    /\ run = [c \in Caller |-> NoRun]
    /\ command = [k \in Command |-> [at |-> "unsent", got |-> Nobody]]

-----------------------------------------------------------------------------
(* Starting                                                                *)

StartBrowser(c, p) ==
    /\ CallAt(c, "idle")
    /\ call' = [call EXCEPT ![c].at = "launching", ![c].profile = p]
    /\ UNCHANGED <<slots, leased, run, command>>

\* profile_lease: the lock file beside the profile, taken without waiting.
LeaseFree(c) == call[c].profile \notin leased

\* A start that finds no slot or no profile, or whose profile or sandbox cannot be
\* prepared, ends without a second try: slot and lease are dropped with it.
LaunchRefused(c) ==
    /\ CallAt(c, "launching")
    /\ MoveCall(c, "over")
    /\ UNCHANGED <<slots, leased, run, command>>

Launched(c) ==
    /\ CallAt(c, "launching")
    /\ slots > 0 /\ LeaseFree(c)
    /\ slots' = slots - 1
    /\ leased' = leased \cup {call[c].profile}
    /\ run' = [run EXCEPT ![c] = [NoRun EXCEPT !.phase = "startup", !.worker = "starting"]]
    /\ MoveCall(c, "starting")
    /\ UNCHANGED command

\* worker::serve up to its first frame: isolation, display, browser, and ready or gone.
WorkerStarts(c) ==
    /\ run[c].worker = "starting"
    /\ run' = [run EXCEPT ![c].worker = "ready"]
    /\ UNCHANGED <<slots, leased, call, command>>

\* The start is dropped, or the session stopped, before the worker reports.
Unwanted(c) == run[c].stop \/ CallAt(c, "over")

Reported(c) ==
    /\ Phase(c, "startup") /\ ~Unwanted(c) /\ run[c].worker = "ready"
    /\ run' = [run EXCEPT ![c].phase = "serving"]
    /\ MoveCall(c, "running")
    /\ UNCHANGED <<slots, leased, command>>

\* No report in time, or another than ready: the start closes the session.
NotReported(c) ==
    /\ Phase(c, "startup") /\ ~Unwanted(c)
    /\ run' = [run EXCEPT ![c].phase = "stopping", ![c].stop = TRUE]
    /\ MoveCall(c, "closing")
    /\ UNCHANGED <<slots, leased, command>>

StartupEnds(c) ==
    /\ Phase(c, "startup") /\ Unwanted(c)
    /\ run' = [run EXCEPT ![c].phase = "stopping"]
    /\ UNCHANGED <<slots, leased, call, command>>

\* A failed launch has been reaped before it is tried again, once.
TryAgain(c) ==
    /\ CallAt(c, "closing") /\ Phase(c, "none")
    /\ call' = IF call[c].again THEN [call EXCEPT ![c].at = "over"]
               ELSE [call EXCEPT ![c].at = "launching", ![c].again = TRUE]
    /\ UNCHANGED <<slots, leased, run, command>>

\* The future of start is dropped: its Session goes, and with it the last Handle.
DropStart(c) ==
    /\ call[c].at \in {"launching", "starting", "closing"}
    /\ MoveCall(c, "over")
    /\ run' = IF CallAt(c, "starting") THEN [run EXCEPT ![c].stop = TRUE] ELSE run
    /\ UNCHANGED <<slots, leased, command>>

-----------------------------------------------------------------------------
(* Commands                                                                *)

Given(k, got) == [command EXCEPT ![k] = [at |-> "done", got |-> got]]

\* send: Session::command asks first whether the session is stopped, the others do not.
Send(k, c) ==
    /\ CallAt(c, "running") /\ command[k].at = "unsent"
    /\ IF Phase(c, "serving") /\ Len(run[c].queue) < QueueSize
       THEN /\ run' = [run EXCEPT ![c].queue = Append(@, k)]
            /\ command' = [command EXCEPT ![k].at = "open"]
       ELSE /\ command' = Given(k, Nobody)
            /\ UNCHANGED run
    /\ UNCHANGED <<slots, leased, call>>

LeaveCommand(k) ==
    /\ command[k].at = "open"
    /\ command' = [command EXCEPT ![k].at = "left"]
    /\ UNCHANGED <<slots, leased, call, run>>

\* The supervisor waits for a request.
Waiting(c) == Phase(c, "serving") /\ run[c].current = Nobody

\* A request whose sender has gone, or whose deadline has passed, is passed over.
SkipRequest(c) ==
    /\ Waiting(c) /\ ~run[c].stop /\ run[c].queue # <<>>
    /\ LET k == Head(run[c].queue)
       IN command' = IF command[k].at = "left" THEN command ELSE Given(k, Nobody)
    /\ run' = [run EXCEPT ![c].queue = Tail(@)]
    /\ UNCHANGED <<slots, leased, call>>

TakeRequest(c) ==
    /\ Waiting(c) /\ ~run[c].stop /\ run[c].queue # <<>>
    /\ LET k == Head(run[c].queue)
       IN /\ command[k].at = "open"
          /\ run' = [run EXCEPT ![c].queue = Tail(@), ![c].current = k,
                                ![c].pipe = Append(@, k)]
    /\ UNCHANGED <<slots, leased, call, command>>

\* worker::serve's loop: one frame, one answer; after a failure it ends.
WorkerAnswers(c, ok) ==
    /\ run[c].worker = "ready" /\ run[c].pipe # <<>>
    /\ run' = [run EXCEPT ![c].pipe = Tail(@),
                          ![c].answers = Append(@, [of |-> Head(run[c].pipe), ok |-> ok]),
                          ![c].worker = IF ok THEN @ ELSE "exited"]
    /\ UNCHANGED <<slots, leased, call, command>>

ReadAnswer(c) ==
    /\ Phase(c, "serving") /\ ~run[c].stop /\ run[c].answers # <<>>
    /\ LET k == run[c].current
           a == Head(run[c].answers)
       IN /\ k # Nobody /\ command[k].at = "open" /\ a.ok
          /\ command' = Given(k, a.of)
          /\ run' = [run EXCEPT ![c].current = Nobody, ![c].answers = Tail(@)]
    /\ UNCHANGED <<slots, leased, call>>

\* The senders of what the supervisor had not answered are told that the browser is gone.
ClosedOn(c) ==
    [k \in Command |->
        IF command[k].at = "open" /\ (k = run[c].current \/ \E i \in 1 .. Len(run[c].queue) :
                                                              run[c].queue[i] = k)
        THEN [at |-> "done", got |-> Nobody] ELSE command[k]]

\* (Weakened: slot and profile are given back before the worker is reaped.)
EndServingFree(c) ==
    /\ slots' = slots + 1
    /\ leased' = leased \ {call[c].profile}
    /\ run' = [run EXCEPT ![c].phase = "stopping", ![c].queue = <<>>, ![c].current = Nobody]
    /\ command' = ClosedOn(c)
    /\ UNCHANGED call

EndServing(c) ==
    /\ run' = [run EXCEPT ![c].phase = "stopping", ![c].queue = <<>>, ![c].current = Nobody]
    /\ command' = ClosedOn(c)
    /\ UNCHANGED <<slots, leased, call>>

\* (Weakened: the session goes on with the next command.)
PassOverAbandoned(c) ==
    /\ Phase(c, "serving") /\ run[c].current # Nobody
    /\ command[run[c].current].at = "left"
    /\ run' = [run EXCEPT ![c].current = Nobody]
    /\ UNCHANGED <<slots, leased, call, command>>

\* A command left by its sender while it is in flight ends the whole session.
RetireAbandoned(c) ==
    /\ Phase(c, "serving") /\ run[c].current # Nobody
    /\ command[run[c].current].at = "left"
    /\ EndServing(c)

\* So does one that fails or passes its deadline, the worker's end, the session's
\* lifetime, its idle limit and its cancellation.
RetireSession(c) ==
    /\ Phase(c, "serving")
    /\ EndServing(c)

\* Session::close, or the last clone of the session is dropped; once the supervisor is
\* stopping it changes nothing.
CloseSession(c) ==
    /\ CallAt(c, "running") /\ Phase(c, "serving") /\ ~run[c].stop
    /\ run' = [run EXCEPT ![c].stop = TRUE]
    /\ UNCHANGED <<slots, leased, call, command>>

-----------------------------------------------------------------------------
(* Ending                                                                  *)

\* The worker closes its browser when its input ends, dies by itself, or is killed.
WorkerExits(c) ==
    /\ run[c].worker \in {"starting", "ready"}
    /\ run' = [run EXCEPT ![c].worker = "exited"]
    /\ UNCHANGED <<slots, leased, call, command>>

\* stop_child waits for the worker; only then go run directory, lease and slot.
ReapChild(c) ==
    /\ Phase(c, "stopping") /\ run[c].worker = "exited"
    /\ slots' = slots + 1
    /\ leased' = leased \ {call[c].profile}
    /\ run' = [run EXCEPT ![c] = NoRun]
    /\ UNCHANGED <<call, command>>

\* What the task of a run's supervisor does.
Supervise(c) ==
    \/ Reported(c) \/ NotReported(c) \/ StartupEnds(c)
    \/ SkipRequest(c) \/ TakeRequest(c) \/ ReadAnswer(c)
    \/ RetireAbandoned(c) \/ RetireSession(c) \/ ReapChild(c)

RuntimeNext ==
    \/ \E c \in Caller : \/ \E p \in Profile : StartBrowser(c, p)
                         \/ LaunchRefused(c) \/ Launched(c) \/ TryAgain(c) \/ DropStart(c)
                         \/ Supervise(c) \/ CloseSession(c)
                         \/ WorkerStarts(c) \/ WorkerExits(c)
                         \/ \E ok \in BOOLEAN : WorkerAnswers(c, ok)
                         \/ \E k \in Command : Send(k, c)
    \/ \E k \in Command : LeaveCommand(k)

RuntimeSpec == RuntimeInit /\ [][RuntimeNext]_runtimeVars

-----------------------------------------------------------------------------
(* Properties                                                              *)

RuntimeTypeOK ==
    /\ slots \in 0 .. Slots /\ leased \subseteq Profile
    /\ call \in [Caller -> CallRow]
    /\ run \in [Caller -> RunRow]
    /\ command \in [Command -> CommandRow]

\* Whoever is given the result of a command is given that of his own: a command left in
\* flight, or past its deadline, still has an answer coming, which the next command must
\* not be there to take.
AnswersAreTheirOwn ==
    \A k \in Command : command[k].got \in {k, Nobody}

\* Never two live browsers on one profile, nor more than there are slots, however starts,
\* second tries, dropped futures and closings overlap.
Alive(c) == run[c].worker \in {"starting", "ready"}
OneBrowserEach ==
    /\ \A c, d \in {e \in Caller : Alive(e)} : c = d \/ call[c].profile # call[d].profile
    /\ Cardinality({c \in Caller : Alive(c)}) <= Slots
=============================================================================
