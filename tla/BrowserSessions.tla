-------------------------- MODULE BrowserSessions --------------------------
(***************************************************************************)
(* The browser sessions of the backend (browsers/mod.rs): the registry of  *)
(* one session per provider connection, the worker lock of a session, its  *)
(* status, the browser it drives, and the status of the connection that    *)
(* sign-ins leave in the database.                                         *)
(*                                                                         *)
(* A flow is one asynchronous task: a claimed job (jobs/executor.rs), an   *)
(* owner's save, check, disable or verification                            *)
(* (http/routes/connections.rs), the cancellation of a job                 *)
(* (http/routes/jobs.rs), the suspension of a DSP                          *)
(* (http/routes/platform.rs), or the scheduler's expiry.  One action is    *)
(* what a flow does between two awaits, or less where another thread may   *)
(* come between.  A flow whose request is dropped, or whose job's          *)
(* heartbeat ends it, stops at an await (Abandon).                         *)
(*                                                                         *)
(* Every connection here belongs to a DSP of its own.  The job rows are in *)
(* JobQueue; here a job's guards may refuse at any time.                   *)
(***************************************************************************)
EXTENDS Integers, FiniteSets

CONSTANTS
    Conn,      \* provider connections
    Session,   \* session objects that may exist at once
    Flow,      \* tasks that may run at once
    Ticker,    \* the one of them that is the scheduler's tick
    Capacity,  \* config.browser_capacity
    MaxRev,    \* bound: credential changes per connection
    None       \* no connection, session or flow

ASSUME BoundAssumption == Capacity \in Nat \ {0} /\ MaxRev \in Nat
ASSUME NoneAssumption  == None \notin Conn \cup Session \cup Flow /\ Ticker \in Flow

VARIABLES
    conn,      \* the connections rows, and whether their DSP is active
    registry,  \* Manager.sessions: the session of a connection
    session,   \* the session objects
    flow,      \* the tasks
    proved     \* history: the connections whose present credentials the provider accepted

vars == <<conn, registry, session, flow, proved>>

-----------------------------------------------------------------------------
Pending    == {"signing_in", "needs_verification"}
ConnStatus == {"not_connected", "ready", "error"} \cup Pending
Outcome    == {"ready", "challenge", "recoverable", "error", "admission"}
Op         == {"job", "ended", "save", "check", "disable", "verify", "cancel",
               "suspend", "sweep"}
Step       == {"stop", "save", "disable", "lease", "look", "insert", "request", "drive",
               "store", "weigh", "write", "session", "wait", "collect", "join",
               "collecting", "end", "revoke", "close", "take", "reap", "expire", "start",
               "signing", "launch", "driver", "defer"}

ConnRow    == [serves : BOOLEAN, enabled : BOOLEAN, rev : 0 .. MaxRev, st : ConnStatus]
SessionRow == [conn : Conn, rev : 0 .. MaxRev,
               st : {"starting", "ready", "challenge", "closed"}, cancelled : BOOLEAN,
               collecting : BOOLEAN, lock : Flow \cup {None},
               browser : {"none", "running", "stopping"}]
Unused     == [conn |-> None, rev |-> 0, st |-> "unused", cancelled |-> FALSE,
               collecting |-> FALSE, lock |-> None, browser |-> "none"]
\* An object that is gone while its browser still ends.
Ending(c)  == [Unused EXCEPT !.conn = c, !.browser = "stopping"]
FlowRow    == [op : Op, pc : Step, conn : Conn, rev : 0 .. MaxRev, seen : 0 .. MaxRev,
               sess : Session \cup {None}, res : Outcome \cup {"none"},
               put : ConnStatus \cup {"none"}]
Idle       == [op |-> "none", pc |-> "idle", conn |-> None, rev |-> 0, seen |-> 0,
               sess |-> None, res |-> "none", put |-> "none"]

TypeOK ==
    /\ conn \in [Conn -> ConnRow]
    /\ registry \in [Conn -> Session \cup {None}]
    /\ session \in [Session -> SessionRow \cup {Unused} \cup {Ending(c) : c \in Conn}]
    /\ flow \in [Flow -> FlowRow \cup {Idle}]
    /\ proved \in SUBSET Conn

Registered  == {registry[c] : c \in Conn} \ {None}
Busy(s)     == session[s].st = "starting" \/ session[s].lock # None \/ session[s].collecting
Closed(s)   == session[s].st = "closed"
Ready(s)    == session[s].st = "ready"
Browsers    == {s \in Session : session[s].browser # "none"}

At(f, pc)     == flow[f].pc = pc
GoTo(f, pc)   == flow' = [flow EXCEPT ![f].pc = pc]
Finish(f)     == flow' = [flow EXCEPT ![f] = Idle]
UsedBy(s)     == {f \in Flow : flow[f].sess = s}
InProcess(c)  == {f \in Flow : flow[f].conn = c}

\* What an error leaves a flow to do: an executor revokes the session of its job's
\* revision, a request answers.
Leave(r) == [Idle EXCEPT !.op = "ended", !.pc = "end", !.conn = r.conn, !.rev = r.rev]
Fail(f)  == flow' = [flow EXCEPT ![f] = IF @.op = "job" THEN Leave(@) ELSE Idle]

Unlocked(s)  == [session EXCEPT ![s].lock = None]
Locked(s, f) == [session EXCEPT ![s].lock = f]

\* (Weakened: the lock stays taken.)
Kept(f) == session

\* What a dropped future held: its lock, and a browser not yet in the session.
Released(f) ==
    [s \in Session |->
        IF session[s].lock # f THEN session[s]
        ELSE [session[s] EXCEPT !.lock = None,
                !.browser = IF flow[f].pc = "driver" /\ @ = "running" THEN "stopping" ELSE @]]

\* (Weakened: the revision is not compared.)
StateOfAny(c, rev, st) ==
    IF conn[c].enabled THEN [conn EXCEPT ![c].st = st] ELSE conn

\* Store::connection_state.
StateOf(c, rev, st) ==
    IF conn[c].rev = rev /\ conn[c].enabled THEN [conn EXCEPT ![c].st = st] ELSE conn

Init ==
    /\ conn = [c \in Conn |-> [serves |-> TRUE, enabled |-> TRUE, rev |-> 0,
                               st |-> "not_connected"]]
    /\ registry = [c \in Conn |-> None]
    /\ session = [s \in Session |-> Unused]
    /\ flow = [f \in Flow |-> Idle]
    /\ proved = {}

-----------------------------------------------------------------------------
(* How flows begin                                                         *)

Begin(f, op, pc, c, rev, s) ==
    /\ At(f, "idle") /\ (f = Ticker <=> op = "sweep")
    /\ flow' = [flow EXCEPT ![f] = [Idle EXCEPT !.op = op, !.pc = pc, !.conn = c,
                                                !.rev = rev, !.sess = s]]
    /\ UNCHANGED <<registry, session, proved>>

\* Scheduler::claim for a browser: no other job of the DSP, its session idle, or
\* room for one.
Claim(f, c) ==
    /\ \A g \in InProcess(c) : flow[g].op \notin {"job", "ended"}
    /\ conn[c].serves /\ conn[c].enabled
    /\ IF registry[c] = None THEN Cardinality(Registered) < Capacity
                             ELSE ~Busy(registry[c]) /\ ~Closed(registry[c])
    /\ Begin(f, "job", "lease", c, conn[c].rev, None)
    /\ UNCHANGED conn

\* Manager::operation: one change or check of a DSP's connections at a time.
OperationFree(c) == \A g \in InProcess(c) : flow[g].op \notin {"save", "check", "disable"}

Save(f, c) ==
    /\ OperationFree(c) /\ conn[c].rev < MaxRev
    /\ Begin(f, "save", "stop", c, 0, None)
    /\ UNCHANGED conn

Disable(f, c) ==
    /\ OperationFree(c) /\ conn[c].rev < MaxRev
    /\ Begin(f, "disable", "stop", c, 0, None)
    /\ UNCHANGED conn

Check(f, c) ==
    /\ OperationFree(c)
    /\ Begin(f, "check", "lease", c, 0, None)
    /\ UNCHANGED conn

\* step: a verification code, or Submit.
Verify(f, c) ==
    /\ registry[c] # None
    /\ Begin(f, "verify", "request", c, 0, registry[c])
    /\ UNCHANGED conn

\* cancel: the job's row is done with, its session is still to be revoked.
CancelJob(f, g) ==
    /\ flow[g].op = "job"
    /\ Begin(f, "cancel", "end", flow[g].conn, flow[g].rev, None)
    /\ UNCHANGED conn

\* set_status: the DSP is suspended and its jobs are cancelled, then its sessions go.
Suspend(f, c) ==
    /\ conn[c].serves
    /\ conn' = [conn EXCEPT ![c].serves = FALSE]
    /\ Begin(f, "suspend", "stop", c, 0, None)

Activate(c) ==
    /\ ~conn[c].serves
    /\ conn' = [conn EXCEPT ![c].serves = TRUE]
    /\ UNCHANGED <<registry, session, flow, proved>>

\* (Weakened: only sessions that are signed in and idle.)
ExpirableReady(s) == Ready(s) /\ ~Busy(s)

\* expire_browsers: an idle session after a minute, any after 10 or 30 minutes, which
\* no start still at work is.
Expirable(s) ==
    session[s].st = "starting" => \A f \in UsedBy(s) : flow[f].op \in {"sweep", "verify"}

Sweep(c) ==
    /\ registry[c] # None /\ Expirable(registry[c])
    /\ Begin(Ticker, "sweep", "revoke", c, session[registry[c]].rev, registry[c])
    /\ UNCHANGED conn

-----------------------------------------------------------------------------
(* Revoking a session                                                      *)

\* After a revocation: who stopped goes on to save, a job is over or goes back, expiry
\* records a sign-in that was not finished.
AfterRevoke(r) ==
    CASE r.op \in {"save", "disable"} /\ r.res = "none" -> [r EXCEPT !.pc = r.op, !.sess = None]
      [] r.op = "job" -> IF r.res = "admission" THEN [r EXCEPT !.pc = "defer", !.sess = None,
                                                               !.res = "none"]
                                                ELSE Leave(r)
      [] r.op = "sweep" /\ r.res = "error" -> [r EXCEPT !.pc = "expire", !.sess = None]
      [] OTHER                             -> Idle

\* revoke_for: whichever session the connection has.
Stop(f) ==
    LET c == flow[f].conn
    IN
    /\ At(f, "stop")
    /\ IF registry[c] # None
       THEN /\ registry' = [registry EXCEPT ![c] = None]
            /\ flow' = [flow EXCEPT ![f].sess = registry[c], ![f].pc = "close"]
       ELSE /\ flow' = [flow EXCEPT ![f] = AfterRevoke(@)]
            /\ UNCHANGED registry
    /\ UNCHANGED <<conn, session, proved>>

\* revoke_provider_revision looks a session up ...
End(f) ==
    LET s == registry[flow[f].conn]
    IN
    /\ At(f, "end")
    /\ IF s # None /\ session[s].rev = flow[f].rev
       THEN flow' = [flow EXCEPT ![f].sess = s, ![f].pc = "revoke"]
       ELSE Finish(f)
    /\ UNCHANGED <<conn, registry, session, proved>>

\* (Weakened: whose session it is is not asked.)
IsRegistered(f) == registry[flow[f].conn] # None
IsCurrent(f)    == registry[flow[f].conn] = flow[f].sess

\* ... and revoke_current removes it unless another has taken its place.  Expiry notes
\* first whether the session had signed in.
RevokeCurrent(f) ==
    LET r == [flow[f] EXCEPT !.res = IF flow[f].op = "sweep" /\ ~Ready(flow[f].sess)
                                     THEN "error" ELSE @]
    IN
    /\ At(f, "revoke")
    /\ IF IsCurrent(f)
       THEN /\ registry' = [registry EXCEPT ![r.conn] = None]
            /\ flow' = [flow EXCEPT ![f] = [r EXCEPT !.pc = "close"]]
       ELSE /\ flow' = [flow EXCEPT ![f] = AfterRevoke(r)]
            /\ UNCHANGED registry
    /\ UNCHANGED <<conn, session, proved>>

\* Session::close, in three steps: the status and the cancellation, the worker once the
\* request at work has let go of it, the end of its browser.
Close(f) ==
    /\ At(f, "close")
    /\ session' = [session EXCEPT ![flow[f].sess].st = "closed",
                                  ![flow[f].sess].cancelled = TRUE]
    /\ GoTo(f, "take")
    /\ UNCHANGED <<conn, registry, proved>>

Take(f) ==
    LET s == flow[f].sess
    IN
    /\ At(f, "take") /\ session[s].lock = None
    /\ IF session[s].browser = "running"
       THEN /\ session' = [session EXCEPT ![s].lock = f, ![s].browser = "stopping"]
            /\ GoTo(f, "reap")
       ELSE flow' = [flow EXCEPT ![f] = AfterRevoke(@)] /\ UNCHANGED session
    /\ UNCHANGED <<conn, registry, proved>>

Reap(f) ==
    LET s == flow[f].sess
    IN
    /\ At(f, "reap") /\ session[s].browser = "none"
    /\ session' = Unlocked(s)
    /\ flow' = [flow EXCEPT ![f] = AfterRevoke(@)]
    /\ UNCHANGED <<conn, registry, proved>>

Expire(f) ==
    /\ At(f, "expire")
    /\ \/ conn' = StateOf(flow[f].conn, flow[f].rev, "error")
       \/ UNCHANGED conn      \* the closure is refused
    /\ Finish(f)
    /\ UNCHANGED <<registry, session, proved>>

-----------------------------------------------------------------------------
(* The closures of save and disable                                        *)

Changed(c, on) == [conn EXCEPT ![c].enabled = on, ![c].st = "not_connected",
                               ![c].rev = @ + 1]

SaveCredentials(f) ==
    LET c == flow[f].conn
    IN
    /\ At(f, "save")
    /\ \/ /\ conn' = Changed(c, TRUE) /\ proved' = proved \ {c}
          /\ GoTo(f, "lease") \/ Finish(f)    \* what comes after the row may fail
       \/ Finish(f) /\ UNCHANGED <<conn, proved>>
    /\ UNCHANGED <<registry, session>>

DisableConnection(f) ==
    LET c == flow[f].conn
    IN
    /\ At(f, "disable")
    /\ \/ conn' = Changed(c, FALSE) /\ proved' = proved \ {c}
       \/ UNCHANGED <<conn, proved>>
    /\ Finish(f)
    /\ UNCHANGED <<registry, session>>

-----------------------------------------------------------------------------
(* ensure_provider_browser                                                 *)

\* The closure that reads the credentials and their revision.
Lease(f) ==
    LET c == flow[f].conn
    IN
    /\ At(f, "lease")
    /\ \/ /\ conn[c].serves /\ conn[c].enabled
          /\ flow' = [flow EXCEPT ![f].seen = conn[c].rev, ![f].pc = "look"]
       \/ Fail(f)
    /\ UNCHANGED <<conn, registry, session, proved>>

\* A registered session of the revision is used, by an owner after another check.
Look(f) ==
    LET s == registry[flow[f].conn]
    IN
    /\ At(f, "look")
    /\ CASE s = None -> GoTo(f, "insert")
         [] s # None /\ ~Closed(s) /\ ~Busy(s) /\ session[s].rev = flow[f].seen ->
              flow' = [flow EXCEPT ![f].sess = s, ![f].seen = 0,
                                   ![f].pc = IF flow[f].op = "job" THEN "session" ELSE "request"]
         [] OTHER -> Fail(f)
    /\ UNCHANGED <<conn, registry, session, proved>>

\* Under the lock of the registry: a new session, or none is admitted.
Insert(f) ==
    LET c == flow[f].conn
    IN
    /\ At(f, "insert")
    /\ \/ /\ registry[c] # None
          /\ Fail(f) /\ UNCHANGED <<registry, session>>
       \/ /\ registry[c] = None          \* too many sessions, or too little memory
          /\ IF flow[f].op = "job"
             THEN flow' = [flow EXCEPT ![f].pc = "defer", ![f].seen = 0]
             ELSE Finish(f)
          /\ UNCHANGED <<registry, session>>
       \/ /\ registry[c] = None /\ Cardinality(Registered) < Capacity
          /\ \E s \in {u \in Session : session[u] = Unused} :
               /\ registry' = [registry EXCEPT ![c] = s]
               /\ session' = [session EXCEPT ![s] =
                    [Unused EXCEPT !.conn = c, !.rev = flow[f].seen, !.st = "starting"]]
               /\ flow' = [flow EXCEPT ![f].sess = s, ![f].seen = 0, ![f].pc = "start"]
    /\ UNCHANGED <<conn, proved>>

\* A request or a start ends without an answer.  browser_result will write an error, or
\* what the session's status is then.
Refuse(f, res) ==
    flow' = [flow EXCEPT ![f].res = res, ![f].pc = IF res = "recoverable" THEN "weigh" ELSE "write",
                         ![f].put = IF res = "recoverable" THEN @ ELSE "error"]

Start(f) ==
    LET s == flow[f].sess
    IN
    /\ At(f, "start") /\ session[s].lock = None
    /\ IF ~Closed(s)
       THEN session' = Locked(s, f) /\ GoTo(f, "signing")
       ELSE Refuse(f, "error") /\ UNCHANGED session
    /\ UNCHANGED <<conn, registry, proved>>

\* The closure that writes signing_in, unless the authority is gone.
Signing(f) ==
    LET s == flow[f].sess
        c == conn[flow[f].conn]
    IN
    /\ At(f, "signing")
    /\ \/ /\ c.serves /\ c.enabled /\ c.rev = session[s].rev
          /\ conn' = StateOf(flow[f].conn, session[s].rev, "signing_in")
          /\ GoTo(f, "launch")
          /\ UNCHANGED session
       \/ Refuse(f, "error") /\ session' = Unlocked(s) /\ UNCHANGED conn
    /\ UNCHANGED <<registry, proved>>

\* Runtime::start: a slot and the lease of the profile, which an ending browser still
\* holds; or any failure, as of the attempt record's preflight.
Launch(f) ==
    LET s == flow[f].sess
        leased == \E b \in Browsers : session[b].conn = session[s].conn
    IN
    /\ At(f, "launch")
    /\ \/ /\ ~Closed(s) /\ Cardinality(Browsers) < Capacity /\ ~leased
          /\ session' = [session EXCEPT ![s].browser = "running"]
          /\ GoTo(f, "driver")
       \/ Refuse(f, "error") /\ session' = Unlocked(s)
       \/ /\ ~Closed(s) /\ Cardinality(Browsers) >= Capacity
          /\ Refuse(f, "admission") /\ session' = Unlocked(s)
    /\ UNCHANGED <<conn, registry, proved>>

\* The driver takes the browser over, or cannot and closes it.
Driver(f) ==
    LET s == flow[f].sess
    IN
    /\ At(f, "driver")
    /\ CASE session[s].browser = "running" ->
              \/ session' = Unlocked(s) /\ GoTo(f, "request")
              \/ session' = [session EXCEPT ![s].browser = "stopping"] /\ UNCHANGED flow
         [] session[s].browser = "none" -> Refuse(f, "error") /\ session' = Unlocked(s)
         [] OTHER -> FALSE
    /\ UNCHANGED <<conn, registry, proved>>

\* Session::request up to the driver: it may be refused or time out at any time.
Request(f) ==
    LET s == flow[f].sess
    IN
    /\ At(f, "request")
    /\ \/ /\ ~Closed(s) /\ session[s].lock = None
          /\ session[s].browser = "running"
          /\ session' = Locked(s, f) /\ GoTo(f, "drive")
       \/ \E res \in {"error", "recoverable"} : Refuse(f, res) /\ UNCHANGED session
    /\ UNCHANGED <<conn, registry, proved>>

\* The driver's answer, or the cancellation, whichever the select takes.
Drive(f) ==
    LET s == flow[f].sess
    IN
    /\ At(f, "drive")
    /\ \/ \E res \in {"ready", "challenge"} :
            /\ flow' = [flow EXCEPT ![f].res = res, ![f].pc = "store"]
            /\ proved' = IF res = "ready" /\ conn[flow[f].conn].rev = session[s].rev
                         THEN proved \cup {flow[f].conn} ELSE proved
            /\ UNCHANGED session
       \/ /\ \E res \in {"error", "recoverable"} : Refuse(f, res)
          /\ session' = Unlocked(s)
          /\ UNCHANGED proved
    /\ UNCHANGED <<conn, registry>>

\* The status of the answer, stored whatever the status is by now.
StoreStatus(f) ==
    /\ At(f, "store")
    /\ session' = [Unlocked(flow[f].sess) EXCEPT ![flow[f].sess].st = flow[f].res]
    /\ GoTo(f, "weigh")
    /\ UNCHANGED <<conn, registry, proved>>

\* browser_result: what to write, from the status of the session now ...
Weigh(f) ==
    /\ At(f, "weigh")
    /\ flow' = [flow EXCEPT ![f].pc = "write",
                 ![f].put = IF Ready(flow[f].sess) THEN "ready" ELSE "needs_verification"]
    /\ UNCHANGED <<conn, registry, session, proved>>

\* ... and the closure that writes it.  A refused closure ends the flow there; an error
\* revokes the session, unless a member may try again in it.
Write(f) ==
    LET r == flow[f]
        kept == r.res \in {"ready", "challenge"} \/ (r.op = "verify" /\ r.res = "recoverable")
        next == IF kept THEN "session" ELSE "revoke"
    IN
    /\ At(f, "write")
    /\ \/ /\ conn' = StateOf(r.conn, session[r.sess].rev, r.put)
          /\ flow' = [flow EXCEPT ![f].pc = next, ![f].put = "none",
                                  ![f].res = IF kept THEN "none"
                                             ELSE IF @ = "admission" THEN @ ELSE "error"]
       \/ Fail(f) /\ UNCHANGED conn
    /\ UNCHANGED <<registry, session, proved>>

-----------------------------------------------------------------------------
(* A job in the session it was given                                       *)

Opened(f) ==
    LET r == flow[f]
    IN
    /\ At(f, "session")
    /\ IF r.op = "job"
       THEN \/ GoTo(f, IF session[r.sess].st = "challenge" THEN "wait" ELSE "collect")
            \/ Fail(f)
       ELSE Finish(f)
    /\ UNCHANGED <<conn, registry, session, proved>>

\* The owner has verified, or the session has ended.
Wait(f) ==
    LET s == flow[f].sess
    IN
    /\ At(f, "wait")
    /\ \/ Ready(s) /\ GoTo(f, "collect")
       \/ Closed(s) /\ Fail(f)
    /\ UNCHANGED <<conn, registry, session, proved>>

\* Session::collect: one collection in the life of a session.
Collect(f) ==
    LET s == flow[f].sess
    IN
    /\ At(f, "collect")
    /\ \/ /\ Ready(s) /\ ~session[s].collecting
          /\ session' = [session EXCEPT ![s].collecting = TRUE]
          /\ GoTo(f, "join")
       \/ Fail(f) /\ UNCHANGED session
    /\ UNCHANGED <<conn, registry, proved>>

Join(f) ==
    LET s == flow[f].sess
    IN
    /\ At(f, "join") /\ session[s].lock = None
    /\ IF session[s].browser = "running"
       THEN session' = Locked(s, f) /\ GoTo(f, "collecting")
       ELSE Fail(f) /\ UNCHANGED session
    /\ UNCHANGED <<conn, registry, proved>>

\* Collected, published or not: in every case the session is revoked next.
Collected(f) ==
    /\ At(f, "collecting")
    /\ session' = Unlocked(flow[f].sess)
    /\ Fail(f)
    /\ UNCHANGED <<conn, registry, proved>>

\* A job that was not admitted goes back and revokes nothing, unless it is no longer its
\* task's to put back.
Defer(f) ==
    /\ At(f, "defer")
    /\ Finish(f) \/ Fail(f)
    /\ UNCHANGED <<conn, registry, session, proved>>

-----------------------------------------------------------------------------
(* The world around                                                        *)

\* Where a flow awaits: a database closure, the worker's lock, its driver, a browser.
Awaiting == Step \ {"revoke", "close", "look", "insert", "store", "weigh", "expire", "defer"}

\* A request's connection is closed, or a job's heartbeat finds it no longer its own: the
\* future is dropped, with the locks it holds.  A closure it waits for counts as run or
\* as never handed over.
Abandon(f) ==
    LET r == flow[f]
    IN
    /\ r.pc \in Awaiting /\ r.op \notin {"ended", "sweep"}
    /\ Fail(f)
    /\ session' = Released(f)
    /\ UNCHANGED <<conn, registry, proved>>

\* The last reference to a session goes, and with it, at once, its driver.
Unreferenced == {s \in Session : session[s].st # "unused" /\ s \notin Registered
                                                         /\ UsedBy(s) = {}}
Drop(s) ==
    /\ s \in Unreferenced
    /\ session' = [session EXCEPT ![s] = IF @.browser = "none" THEN Unused ELSE Ending(@.conn)]
    /\ UNCHANGED <<conn, registry, flow, proved>>

\* A browser has ended and its supervisor is reaped: its slot and its profile are free.
Exited(s) ==
    /\ session[s].browser = "stopping"
    /\ session' = [session EXCEPT ![s] = IF @.st = "unused" THEN Unused
                                                            ELSE [@ EXCEPT !.browser = "none"]]
    /\ UNCHANGED <<conn, registry, flow, proved>>

\* The process starts anew: State::new marks the sign-ins it can know nothing of.
Restart ==
    /\ conn' = [c \in Conn |-> [conn[c] EXCEPT !.st = IF @ \in Pending THEN "error" ELSE @]]
    /\ registry' = [c \in Conn |-> None]
    /\ session' = [s \in Session |-> Unused]
    /\ flow' = [f \in Flow |-> Idle]
    /\ UNCHANGED proved

Advance(f) ==
    \/ Stop(f) \/ End(f) \/ RevokeCurrent(f) \/ Close(f) \/ Take(f) \/ Reap(f) \/ Expire(f)
    \/ SaveCredentials(f) \/ DisableConnection(f)
    \/ Lease(f) \/ Look(f) \/ Insert(f) \/ Start(f) \/ Signing(f) \/ Launch(f) \/ Driver(f)
    \/ Request(f) \/ Drive(f) \/ StoreStatus(f) \/ Weigh(f) \/ Write(f)
    \/ Opened(f) \/ Wait(f) \/ Collect(f) \/ Join(f) \/ Collected(f)
    \/ Defer(f)

Arrive(f, c) ==
    \/ Claim(f, c) \/ Save(f, c) \/ Disable(f, c) \/ Check(f, c) \/ Verify(f, c)
    \/ Suspend(f, c)

Next ==
    \/ \E s \in Session : Drop(s)
    \/ /\ Unreferenced = {}
       /\ \/ \E f \in Flow : Advance(f) \/ Abandon(f)
          \/ \E f \in Flow, c \in Conn : Arrive(f, c)
          \/ \E f, g \in Flow : CancelJob(f, g)
          \/ \E c \in Conn : Activate(c) \/ Sweep(c)
          \/ \E s \in Session : Exited(s)
          \/ Restart

Spec == Init /\ [][Next]_vars

\* Every task is polled: a command, a launch and a wait for a lock have time limits, a
\* browser that is told to end is killed and reaped.  A session too old stays too old, so
\* every tick finds it again.
Fairness ==
    /\ \A f \in Flow : WF_vars(Advance(f))
    /\ \A s \in Session : WF_vars(Drop(s)) /\ WF_vars(Exited(s))
    /\ \A c \in Conn : SF_vars(Sweep(c))

-----------------------------------------------------------------------------
(* Properties                                                              *)

\* A connection shown as ready has been accepted by the provider with the very
\* credentials it holds now: a sign-in with older ones that answers after they were
\* replaced changes nothing.
ReadyWasProved == \A c \in Conn : conn[c].st = "ready" => c \in proved

\* A session leaves the registry only to be closed: expiry looks nowhere else, so that
\* one lost there open would keep its browser and whoever waits in it.  A task that
\* revokes late must not take out the session that has replaced its own.
NoSessionIsLost ==
    \A s \in Session \ Registered :
        session[s].st = "unused" \/ session[s].cancelled \/ \E f \in UsedBy(s) : At(f, "close")

\* The session a connection has may be used: not at work, not left by a dropped task, of
\* the credentials there are now.
Usable(c) ==
    LET s == registry[c]
    IN  s = None \/ (~Busy(s) /\ session[s].rev = conn[c].rev)

\* No dropped task and no change of credentials leaves a connection with a session nobody
\* can use.
ComesFree == \A c \in Conn : ~Usable(c) ~> Usable(c)

\* A request that waits for a session's worker, a browser or a closure is answered, and
\* expiry goes on, whatever is dropped meanwhile.
RequestsEnd == \A f \in Flow : flow[f].op \notin {"none", "job"} ~> flow[f] = Idle

\* A connection that is shown as signing in, or as waiting for its owner, has a session
\* to do it in or a task about to say what became of it.
SignInHasSession ==
    \A c \in Conn : conn[c].st \in Pending => registry[c] # None \/ InProcess(c) # {}
=============================================================================
