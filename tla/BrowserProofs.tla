---------------------------- MODULE BrowserProofs ----------------------------
(***************************************************************************)
(* Theorems about the provider connections' browser sessions and about the *)
(* browsers they run.                                                      *)
(***************************************************************************)
EXTENDS BrowserSessions, BrowserRuntime, FiniteSetTheorems, TLAPS

-----------------------------------------------------------------------------
(***************************************************************************)
(* For any number of connections, sessions and tasks, any capacity and any *)
(* number of credential changes: no browser session is lost, which leaves  *)
(* the registry only to be closed, and a connection shown as ready was     *)
(* accepted by its provider with the credentials it holds.                 *)
(*                                                                         *)
(* Both need to know of every task where it stands and that it names a     *)
(* session there (Placed), and that what is registered or named exists     *)
(* (InUse): only then is the session a late answer stores its status in    *)
(* still the one it was.  Most actions leave the registry alone (Calm);    *)
(* the others are looked at one by one.  That a late answer of older       *)
(* credentials says nothing follows a sign-in's claim from its driver to   *)
(* the row: in the task (HonestFlow), in its session (HonestSession), in   *)
(* what is about to be written.                                            *)
(***************************************************************************)

ConnShape    == [serves : BOOLEAN, enabled : BOOLEAN, rev : Nat, st : ConnStatus]
SessionShape == [conn : Conn \cup {None}, rev : Nat,
                 st : {"unused", "starting", "ready", "challenge", "closed"},
                 cancelled : BOOLEAN, collecting : BOOLEAN, lock : Flow \cup {None},
                 browser : {"none", "running", "stopping"}]
FlowShape    == [op : Op \cup {"none"}, pc : Step \cup {"idle"}, conn : Conn \cup {None},
                 rev : Nat, seen : Nat, sess : Session \cup {None},
                 res : Outcome \cup {"none"}, put : ConnStatus \cup {"none"}]

\* Where a task has no session of its own.
Roaming == {"idle", "stop", "save", "disable", "lease", "look", "insert", "end", "expire", "defer"}

Placed == {r \in FlowShape :
             /\ IF r.pc = "idle" THEN r.op = "none" ELSE r.conn \in Conn
             /\ r.pc \notin Roaming => r.sess \in Session
             /\ r.pc = "store" => r.res \in {"ready", "challenge"}
             /\ r.pc = "write" => r.put \in ConnStatus
             /\ r.pc \in {"save", "disable"} => r.op = r.pc}

Shape ==
    /\ conn \in [Conn -> ConnShape]
    /\ registry \in [Conn -> Session \cup {None}]
    /\ session \in [Session -> SessionShape]
    /\ flow \in [Flow -> Placed]

InUse ==
    /\ \A c \in Conn : registry[c] # None => session[registry[c]].st # "unused"
    /\ \A f \in Flow : flow[f].sess # None => session[flow[f].sess].st # "unused"

Accounted == Shape /\ InUse /\ NoSessionIsLost

\* The task f goes on, in a session it had or one that is registered.
Moved(f) ==
    /\ flow' \in [Flow -> Placed]
    /\ \A g \in Flow : g # f => flow'[g] = flow[g]
    /\ flow'[f].sess \in {None, flow[f].sess} \cup Registered

\* Sessions may be locked and driven; none is made, closed or dropped.
SameSessions ==
    /\ session' \in [Session -> SessionShape]
    /\ \A s \in Session : /\ session'[s].cancelled = session[s].cancelled
                          /\ session'[s].st = "unused" <=> session[s].st = "unused"

\* A step of f that registers nothing and takes nothing out.
Calm(f) == /\ flow[f].pc # "close" /\ Moved(f) /\ SameSessions
           /\ conn' \in [Conn -> ConnShape] /\ registry' = registry

LEMMA CalmKeeps ==
    ASSUME Accounted, NEW f \in Flow, Calm(f)
    PROVE  Accounted'
<1>1. Shape'
  BY DEF Accounted, Calm, Moved, SameSessions, Shape
<1>2. InUse'
  <2>1. ASSUME NEW s \in Session, session[s].st # "unused"
        PROVE  session'[s].st # "unused"
    BY <2>1 DEF Calm, SameSessions
  <2>2. ASSUME NEW c \in Conn, registry'[c] # None
        PROVE  session'[registry'[c]].st # "unused"
    BY <2>1, <2>2 DEF Accounted, Calm, Shape, InUse
  <2>3. ASSUME NEW g \in Flow, flow'[g].sess # None
        PROVE  session'[flow'[g].sess].st # "unused"
    <3>1. CASE g # f \/ flow'[g].sess = flow[f].sess
      <4>1. flow[g].sess \in Session \cup {None}
        BY DEF Accounted, Shape, Placed, FlowShape
      <4> QED BY <2>1, <2>3, <3>1, <4>1 DEF Accounted, Calm, Moved, InUse
    <3>2. CASE g = f /\ flow'[f].sess \in Registered
      BY <2>1, <2>3, <3>2 DEF Accounted, Shape, InUse, Registered
    <3> QED BY <2>3, <3>1, <3>2 DEF Calm, Moved
  <2> QED BY <2>2, <2>3 DEF InUse
<1>3. NoSessionIsLost'
  BY NoneAssumption DEF Accounted, Calm, Moved, SameSessions, Shape, NoSessionIsLost, Registered, UsedBy, At
<1> QED BY <1>1, <1>2, <1>3 DEF Accounted

-----------------------------------------------------------------------------
(* What the shared parts of the actions do                                 *)

\* A row keeps its shape when one field takes a value that fits.
LEMMA FlowFields ==
    ASSUME NEW r \in FlowShape
    PROVE  /\ \A v \in Op \cup {"none"} : [r EXCEPT !.op = v] \in FlowShape
           /\ \A v \in Step \cup {"idle"} : [r EXCEPT !.pc = v] \in FlowShape
           /\ \A v \in Conn \cup {None} : [r EXCEPT !.conn = v] \in FlowShape
           /\ \A v \in Nat : [r EXCEPT !.rev = v] \in FlowShape
           /\ \A v \in Nat : [r EXCEPT !.seen = v] \in FlowShape
           /\ \A v \in Session \cup {None} : [r EXCEPT !.sess = v] \in FlowShape
           /\ \A v \in Outcome \cup {"none"} : [r EXCEPT !.res = v] \in FlowShape
           /\ \A v \in ConnStatus \cup {"none"} : [r EXCEPT !.put = v] \in FlowShape
BY DEF FlowShape

LEMMA ConnFields ==
    ASSUME NEW r \in ConnShape
    PROVE  /\ \A v \in BOOLEAN : [r EXCEPT !.enabled = v] \in ConnShape
           /\ \A v \in Nat : [r EXCEPT !.rev = v] \in ConnShape
           /\ \A v \in ConnStatus : [r EXCEPT !.st = v] \in ConnShape
BY DEF ConnShape

LEMMA SessionFields ==
    ASSUME NEW r \in SessionShape
    PROVE  /\ \A v \in {"unused", "starting", "ready", "challenge", "closed"} :
                  [r EXCEPT !.st = v] \in SessionShape
           /\ \A v \in BOOLEAN : [r EXCEPT !.cancelled = v] \in SessionShape
           /\ \A v \in BOOLEAN : [r EXCEPT !.collecting = v] \in SessionShape
           /\ \A v \in Flow \cup {None} : [r EXCEPT !.lock = v] \in SessionShape
           /\ \A v \in {"none", "running", "stopping"} : [r EXCEPT !.browser = v] \in SessionShape
BY DEF SessionShape

LEMMA StateOfShape ==
    ASSUME Accounted, NEW c \in Conn, NEW rev, NEW st \in ConnStatus
    PROVE  StateOf(c, rev, st) \in [Conn -> ConnShape]
BY DEF Accounted, Shape, StateOf, ConnShape

LEMMA ChangedShape ==
    ASSUME Accounted, NEW c \in Conn, NEW on \in BOOLEAN
    PROVE  Changed(c, on) \in [Conn -> ConnShape]
<1> DEFINE row == [conn[c] EXCEPT !.enabled = on, !.st = "not_connected", !.rev = @ + 1]
<1>1. conn[c] \in ConnShape
  BY DEF Accounted, Shape
<1>2. row \in ConnShape
  <2>1. conn[c].rev + 1 \in Nat /\ "not_connected" \in ConnStatus
    BY <1>1 DEF ConnShape, ConnStatus
  <2> QED BY <1>1, <2>1, ConnFields
<1>3. Changed(c, on) = [conn EXCEPT ![c] = row]
  BY DEF Accounted, Shape, ConnShape, Changed
<1> QED BY <1>2, <1>3 DEF Accounted, Shape

LEMMA IdlePlaced == Idle \in Placed
BY DEF Idle, Placed, FlowShape, Roaming

LEMMA LeavePlaced ==
    ASSUME NEW r \in Placed, r.pc # "idle"
    PROVE  Leave(r) \in Placed /\ Leave(r).sess = None
<1>1. r.conn \in Conn /\ r.rev \in Nat
  BY DEF Placed, FlowShape
<1>2. Idle \in FlowShape /\ "ended" \in Op /\ "end" \in Step
  BY IdlePlaced DEF Placed, Op, Step
<1>3. Leave(r) \in FlowShape
  BY <1>1, <1>2, FlowFields DEF Leave
<1>4. Leave(r).pc = "end" /\ Leave(r).conn = r.conn /\ Leave(r).sess = None
  BY DEF Leave, Idle
<1> QED BY <1>1, <1>3, <1>4 DEF Placed, Roaming

LEMMA AfterRevokePlaced ==
    ASSUME NEW r \in Placed, r.pc # "idle"
    PROVE  AfterRevoke(r) \in Placed /\ AfterRevoke(r).sess = None
<1>1. CASE r.op \in {"save", "disable"} /\ r.res = "none"
  BY <1>1 DEF AfterRevoke, Placed, FlowShape, Roaming, Step, Op
<1>2. CASE r.op = "job"
  <2>1. CASE r.res = "admission"
    <3>1. AfterRevoke(r) = [r EXCEPT !.pc = "defer", !.sess = None, !.res = "none"]
      BY <1>2, <2>1 DEF AfterRevoke
    <3>2. AfterRevoke(r) \in FlowShape
      BY <3>1 DEF Placed, FlowShape, Step
    <3> QED BY <3>1, <3>2 DEF Placed, FlowShape, Roaming
  <2>2. CASE r.res # "admission"
    BY <1>2, <2>2, LeavePlaced DEF AfterRevoke
  <2> QED BY <2>1, <2>2
<1>3. CASE r.op = "sweep"
  <2>1. CASE r.res = "error"
    <3>1. AfterRevoke(r) = [r EXCEPT !.pc = "expire", !.sess = None]
      BY <1>3, <2>1 DEF AfterRevoke
    <3>2. AfterRevoke(r) \in FlowShape
      BY <3>1 DEF Placed, FlowShape, Step
    <3> QED BY <3>1, <3>2 DEF Placed, FlowShape, Roaming
  <2>2. CASE r.res # "error"
    BY <1>3, <2>2, IdlePlaced DEF AfterRevoke, Idle
  <2> QED BY <2>1, <2>2
<1>4. CASE ~(r.op \in {"save", "disable"} /\ r.res = "none") /\ r.op \notin {"job", "sweep"}
  BY <1>4, IdlePlaced DEF AfterRevoke, Idle
<1> QED BY <1>1, <1>2, <1>3, <1>4

\* A task that is put somewhere it may be has moved.
LEMMA PutMoves ==
    ASSUME Accounted, NEW f \in Flow, NEW r \in Placed,
           flow' = [flow EXCEPT ![f] = r],
           r.sess \in {None, flow[f].sess} \cup Registered
    PROVE  Moved(f)
BY DEF Accounted, Shape, Moved

LEMMA GoToMoves ==
    ASSUME Accounted, NEW f \in Flow, NEW pc \in Step, GoTo(f, pc), flow[f].pc # "idle",
           pc \notin Roaming => flow[f].sess \in Session,
           pc \notin {"save", "disable", "store", "write"}
    PROVE  Moved(f)
BY DEF Accounted, Shape, GoTo, Moved, Placed, FlowShape, Step

LEMMA FailMoves ==
    ASSUME Accounted, NEW f \in Flow, Fail(f), flow[f].pc # "idle"
    PROVE  Moved(f)
<1> DEFINE r == IF flow[f].op = "job" THEN Leave(flow[f]) ELSE Idle
<1>1. flow[f] \in Placed
  BY DEF Accounted, Shape
<1>2. r \in Placed /\ r.sess = None
  BY <1>1, IdlePlaced, LeavePlaced DEF Idle
<1>3. flow' = [flow EXCEPT ![f] = r]
  BY DEF Fail
<1> HIDE DEF r
<1> QED BY <1>2, <1>3, PutMoves

LEMMA FinishMoves ==
    ASSUME Accounted, NEW f \in Flow, Finish(f)
    PROVE  Moved(f)
BY IdlePlaced, PutMoves DEF Finish, Idle

LEMMA AfterRevokeMoves ==
    ASSUME Accounted, NEW f \in Flow, flow[f].pc # "idle",
           flow' = [flow EXCEPT ![f] = AfterRevoke(@)]
    PROVE  Moved(f)
<1>1. flow[f] \in Placed
  BY DEF Accounted, Shape
<1>2. AfterRevoke(flow[f]) \in Placed /\ AfterRevoke(flow[f]).sess = None
  BY <1>1, AfterRevokePlaced
<1> QED BY <1>2, PutMoves

LEMMA RefuseMoves ==
    ASSUME Accounted, NEW f \in Flow, NEW res \in Outcome, Refuse(f, res), flow[f].pc \notin Roaming
    PROVE  Moved(f)
<1> DEFINE r == [flow[f] EXCEPT !.res = res,
                   !.pc = IF res = "recoverable" THEN "weigh" ELSE "write",
                   !.put = IF res = "recoverable" THEN @ ELSE "error"]
<1>1. flow[f] \in Placed /\ flow[f] \in FlowShape /\ flow[f].sess \in Session
  BY DEF Accounted, Shape, Placed
<1>2. flow' = [flow EXCEPT ![f] = r]
  BY <1>1 DEF Refuse, Accounted, Shape
<1>3. r \in FlowShape /\ r.sess = flow[f].sess /\ r.conn = flow[f].conn
  <2>1. {"weigh", "write"} \subseteq Step /\ "error" \in ConnStatus
        /\ flow[f].put \in ConnStatus \cup {"none"}
    BY <1>1 DEF FlowShape, Step, ConnStatus
  <2>2. r \in FlowShape
    <3>1. CASE res = "recoverable"
      BY <1>1, <2>1, <3>1, FlowFields
    <3>2. CASE res # "recoverable"
      BY <1>1, <2>1, <3>2, FlowFields
    <3> QED BY <3>1, <3>2
  <2> QED BY <1>1, <2>2 DEF FlowShape
<1>4. r.pc \in {"weigh", "write"} /\ (r.pc = "write" => r.put \in ConnStatus)
  <2>1. r.pc = (IF res = "recoverable" THEN "weigh" ELSE "write")
        /\ r.put = (IF res = "recoverable" THEN flow[f].put ELSE "error")
    BY <1>1 DEF FlowShape
  <2> HIDE DEF r
  <2> QED BY <2>1 DEF ConnStatus
<1>5. flow[f].pc # "idle" /\ flow[f].conn \in Conn
  BY <1>1 DEF Placed, Roaming
<1> HIDE DEF r
<1>6. r \in Placed
  BY <1>1, <1>3, <1>4, <1>5 DEF Placed, Roaming
<1> QED BY <1>2, <1>3, <1>6, PutMoves

\* Locks and browsers change, not what a session is.
LEMMA LocksOnly ==
    ASSUME Accounted, NEW s \in Session, NEW l \in Flow \cup {None},
           NEW b \in {"none", "running", "stopping"},
           \/ session' = session
           \/ session' = [session EXCEPT ![s].lock = l]
           \/ session' = [session EXCEPT ![s].browser = b]
           \/ session' = [session EXCEPT ![s].lock = l, ![s].browser = b]
           \/ session' = [session EXCEPT ![s].collecting = TRUE]
    PROVE  SameSessions
<1>1. CASE session' = session
  BY <1>1 DEF Accounted, Shape, SameSessions
<1>2. CASE session' = [session EXCEPT ![s].lock = l]
  BY <1>2 DEF Accounted, Shape, SessionShape, SameSessions
<1>3. CASE session' = [session EXCEPT ![s].browser = b]
  BY <1>3 DEF Accounted, Shape, SessionShape, SameSessions
<1>4. CASE session' = [session EXCEPT ![s].lock = l, ![s].browser = b]
  <2> DEFINE row == [session[s] EXCEPT !.lock = l, !.browser = b]
  <2>1. session[s] \in SessionShape
    BY DEF Accounted, Shape
  <2>2. row \in SessionShape
    BY <2>1, SessionFields
  <2>3. row.st = session[s].st /\ row.cancelled = session[s].cancelled
    BY <2>1 DEF SessionShape
  <2>4. session' = [session EXCEPT ![s] = row]
    BY <1>4 DEF Accounted, Shape, SessionShape
  <2> HIDE DEF row
  <2> QED BY <2>2, <2>3, <2>4 DEF Accounted, Shape, SameSessions
<1>5. CASE session' = [session EXCEPT ![s].collecting = TRUE]
  BY <1>5 DEF Accounted, Shape, SessionShape, SameSessions
<1> QED BY <1>1, <1>2, <1>3, <1>4, <1>5

LEMMA ReleasedShape ==
    ASSUME Accounted, NEW f \in Flow, session' = Released(f)
    PROVE  SameSessions
<1>1. ASSUME NEW s \in Session
      PROVE  /\ session'[s] \in SessionShape /\ session'[s].cancelled = session[s].cancelled
             /\ session'[s].st = session[s].st
  <2> DEFINE browser == IF flow[f].pc = "driver" /\ session[s].browser = "running" THEN "stopping"
                        ELSE session[s].browser
             row == [session[s] EXCEPT !.lock = None, !.browser = browser]
  <2>1. session[s] \in SessionShape
    BY DEF Accounted, Shape
  <2>2. browser \in {"none", "running", "stopping"}
    BY <2>1 DEF SessionShape
  <2>3. session'[s] = session[s] \/ session'[s] = row
    BY DEF Released
  <2> HIDE DEF browser
  <2>4. row \in SessionShape /\ row.cancelled = session[s].cancelled /\ row.st = session[s].st
    BY <2>1, <2>2 DEF SessionShape
  <2> HIDE DEF row
  <2> QED BY <2>1, <2>3, <2>4
<1>2. session' = [s \in Session |-> session'[s]]
  BY DEF Released
<1> QED BY <1>1, <1>2 DEF SameSessions

-----------------------------------------------------------------------------
(* The actions that are calm                                               *)

LEMMA BeginMoves ==
    ASSUME Accounted, NEW f \in Flow, NEW op \in Op, NEW pc \in Step, NEW c \in Conn,
           NEW rev \in Nat, NEW s \in {None} \cup Registered, Begin(f, op, pc, c, rev, s),
           pc \notin Roaming => s \in Session, pc \notin {"save", "disable", "store", "write"}
    PROVE  Moved(f) /\ flow[f].pc = "idle" /\ registry' = registry /\ session' = session
<1> DEFINE r == [Idle EXCEPT !.op = op, !.pc = pc, !.conn = c, !.rev = rev, !.sess = s]
<1>1. Idle \in FlowShape /\ s \in Session \cup {None}
  BY IdlePlaced DEF Placed, Accounted, Shape, Registered
<1>2. r \in FlowShape
  BY <1>1, FlowFields
<1>3. r.pc = pc /\ r.conn = c /\ r.sess = s
  BY DEF Idle
<1>4. r \in Placed
  BY <1>2, <1>3 DEF Placed, Roaming, Step
<1>5. flow' = [flow EXCEPT ![f] = r]
  BY DEF Begin
<1> HIDE DEF r
<1>6. Moved(f)
  BY <1>3, <1>4, <1>5, PutMoves
<1> QED BY <1>6 DEF Begin, At

LEMMA QuietIsCalm ==
    ASSUME Accounted, NEW f \in Flow,
           \/ End(f) \/ Take(f) \/ Reap(f) \/ Expire(f)
           \/ SaveCredentials(f) \/ DisableConnection(f)
           \/ Lease(f) \/ Look(f) \/ Start(f) \/ Signing(f) \/ Launch(f) \/ Driver(f)
           \/ Request(f) \/ Drive(f) \/ StoreStatus(f) \/ Weigh(f) \/ Write(f)
           \/ Opened(f) \/ Wait(f) \/ Collect(f) \/ Join(f) \/ Collected(f)
           \/ Defer(f) \/ Abandon(f)
    PROVE  Calm(f)
<1> USE DEF At
<1> DEFINE r == flow[f]
<1>a. flow \in [Flow -> Placed] /\ r \in Placed /\ r \in FlowShape
      /\ (r.pc # "idle" => r.conn \in Conn) /\ (r.pc \notin Roaming => r.sess \in Session)
  BY DEF Accounted, Shape, Placed
<1>b. session' = session => SameSessions
  BY DEF Accounted, Shape, SameSessions
<1>c. conn' = conn => conn' \in [Conn -> ConnShape]
  BY DEF Accounted, Shape
<1>1. CASE End(f)
  <2>1. registry[r.conn] \in Session \cup {None}
    BY <1>1, <1>a DEF Accounted, Shape, End
  <2>2. CASE Finish(f)
    BY <1>1, <2>2, <1>b, <1>c, FinishMoves DEF End, Calm
  <2>3. CASE registry[r.conn] # None
             /\ flow' = [flow EXCEPT ![f].sess = registry[r.conn], ![f].pc = "revoke"]
    <3> DEFINE q == [r EXCEPT !.sess = registry[r.conn], !.pc = "revoke"]
    <3>1. q \in FlowShape
      BY <1>a, <2>1, FlowFields DEF Step
    <3>2. q.sess = registry[r.conn] /\ q.pc = "revoke" /\ q.conn = r.conn
      BY <1>a DEF FlowShape
    <3>3. q.conn \in Conn /\ q.sess \in Session /\ q.sess \in Registered
      BY <1>1, <1>a, <2>1, <2>3, <3>2 DEF End, Registered
    <3>4. q \in Placed
      BY <3>1, <3>2, <3>3 DEF Placed
    <3>5. flow' = [flow EXCEPT ![f] = q]
      BY <1>a, <2>3 DEF FlowShape
    <3> HIDE DEF q
    <3> QED BY <1>1, <1>b, <1>c, <3>3, <3>4, <3>5, PutMoves DEF End, Calm
  <2> QED BY <1>1, <2>2, <2>3 DEF End
<1>2. CASE Take(f)
  <2>1. r.sess \in Session /\ r.pc # "idle"
    BY <1>2, <1>a DEF Take, Roaming
  <2>2. CASE flow' = [flow EXCEPT ![f] = AfterRevoke(@)] /\ session' = session
    BY <1>2, <2>1, <2>2, <1>b, <1>c, AfterRevokeMoves DEF Take, Calm
  <2>3. CASE /\ GoTo(f, "reap")
             /\ session' = [session EXCEPT ![r.sess].lock = f, ![r.sess].browser = "stopping"]
    <3>1. Moved(f)
      BY <2>1, <2>3, GoToMoves DEF Step
    <3>2. SameSessions
      BY <2>1, <2>3, LocksOnly
    <3> QED BY <1>2, <3>1, <3>2, <1>c DEF Take, Calm
  <2> QED BY <1>2, <2>2, <2>3 DEF Take
<1>3. CASE Reap(f)
  <2>1. r.sess \in Session
    BY <1>3, <1>a DEF Reap, Roaming
  <2>2. Moved(f)
    BY <1>3, AfterRevokeMoves DEF Reap
  <2>3. SameSessions
    BY <1>3, <2>1, LocksOnly DEF Reap, Unlocked
  <2> QED BY <1>3, <2>2, <2>3, <1>c DEF Reap, Calm
<1>4. CASE Expire(f)
  <2>1. conn' \in [Conn -> ConnShape]
    BY <1>4, <1>a, <1>c, StateOfShape DEF Expire, ConnStatus
  <2> QED BY <1>4, <2>1, <1>b, FinishMoves DEF Expire, Calm
<1>5. CASE SaveCredentials(f)
  <2>1. conn' \in [Conn -> ConnShape]
    BY <1>5, <1>a, <1>c, ChangedShape DEF SaveCredentials
  <2>2. Moved(f)
    <3>1. GoTo(f, "lease") \/ Finish(f)
      BY <1>5 DEF SaveCredentials
    <3>2. "lease" \in Step /\ "lease" \in Roaming /\ flow[f].pc # "idle"
      BY <1>5 DEF SaveCredentials, Step, Roaming
    <3> QED BY <3>1, <3>2, GoToMoves, FinishMoves
  <2> QED BY <1>5, <2>1, <2>2, <1>b DEF SaveCredentials, Calm
<1>6. CASE DisableConnection(f)
  <2>1. conn' \in [Conn -> ConnShape]
    BY <1>6, <1>a, <1>c, ChangedShape DEF DisableConnection
  <2> QED BY <1>6, <2>1, <1>b, FinishMoves DEF DisableConnection, Calm
<1>7. CASE Lease(f)
  <2>1. CASE Fail(f)
    BY <1>7, <2>1, <1>b, <1>c, FailMoves DEF Lease, Calm
  <2>2. CASE flow' = [flow EXCEPT ![f].seen = conn[r.conn].rev, ![f].pc = "look"]
    <3> DEFINE q == [r EXCEPT !.seen = conn[r.conn].rev, !.pc = "look"]
    <3>1. conn[r.conn].rev \in Nat /\ r.pc = "lease"
      BY <1>7, <1>a DEF Lease, Accounted, Shape, ConnShape
    <3>2. q \in FlowShape
      BY <1>a, <3>1, FlowFields DEF Step
    <3>3. q.sess = r.sess /\ q.pc = "look" /\ q.conn = r.conn
      BY <1>a DEF FlowShape
    <3>4. q \in Placed
      BY <1>a, <3>1, <3>2, <3>3 DEF Placed, Roaming
    <3>5. flow' = [flow EXCEPT ![f] = q]
      BY <1>a, <2>2 DEF FlowShape
    <3> HIDE DEF q
    <3> QED BY <1>7, <1>b, <1>c, <3>3, <3>4, <3>5, PutMoves DEF Lease, Calm
  <2> QED BY <1>7, <2>1, <2>2 DEF Lease
<1>8. CASE Look(f)
  <2>1. CASE Fail(f)
    BY <1>8, <2>1, <1>b, <1>c, FailMoves DEF Look, Calm
  <2>2. CASE GoTo(f, "insert")
    <3>1. Moved(f)
      BY <1>8, <2>2, GoToMoves DEF Look, Step, Roaming
    <3> QED BY <1>8, <3>1, <1>b, <1>c DEF Look, Calm
  <2>3. ASSUME NEW pc \in {"session", "request"}, registry[r.conn] # None,
               flow' = [flow EXCEPT ![f].sess = registry[r.conn], ![f].seen = 0, ![f].pc = pc]
        PROVE  Calm(f)
    <3> DEFINE q == [r EXCEPT !.sess = registry[r.conn], !.seen = 0, !.pc = pc]
    <3>1. registry[r.conn] \in Session /\ registry[r.conn] \in Registered
      BY <1>8, <1>a, <2>3 DEF Look, Accounted, Shape, Registered
    <3>2. q \in FlowShape
      BY <1>a, <3>1, <2>3, FlowFields DEF Step
    <3>3. q.sess = registry[r.conn] /\ q.pc = pc /\ q.conn = r.conn
      BY <1>a DEF FlowShape
    <3>4. q \in Placed
      BY <1>8, <1>a, <2>3, <3>1, <3>2, <3>3 DEF Placed, Look
    <3>5. flow' = [flow EXCEPT ![f] = q]
      BY <1>a, <2>3 DEF FlowShape
    <3> HIDE DEF q
    <3> QED BY <1>8, <1>b, <1>c, <3>1, <3>3, <3>4, <3>5, PutMoves DEF Look, Calm
  <2>4. \/ Fail(f) \/ GoTo(f, "insert")
        \/ registry[r.conn] # None /\ \E pc \in {"session", "request"} :
             flow' = [flow EXCEPT ![f].sess = registry[r.conn], ![f].seen = 0, ![f].pc = pc]
    BY <1>8 DEF Look
  <2> QED BY <2>1, <2>2, <2>3, <2>4
<1>9. CASE Start(f)
  <2>1. r.sess \in Session /\ r.pc # "idle" /\ r.pc \notin Roaming
    BY <1>9, <1>a DEF Start, Roaming
  <2>2. SameSessions
    BY <1>9, <2>1, LocksOnly DEF Start, Locked
  <2>3. Moved(f)
    <3>1. GoTo(f, "signing") \/ Refuse(f, "error")
      BY <1>9 DEF Start
    <3> QED BY <2>1, <3>1, GoToMoves, RefuseMoves DEF Step, Outcome
  <2> QED BY <1>9, <2>2, <2>3, <1>c DEF Start, Calm
<1>10. CASE Signing(f)
  <2>1. r.sess \in Session /\ r.pc # "idle" /\ r.pc \notin Roaming /\ r.conn \in Conn
    BY <1>10, <1>a DEF Signing, Roaming
  <2>2. SameSessions
    BY <1>10, <2>1, LocksOnly DEF Signing, Unlocked
  <2>3. Moved(f)
    <3>1. GoTo(f, "launch") \/ Refuse(f, "error")
      BY <1>10 DEF Signing
    <3> QED BY <2>1, <3>1, GoToMoves, RefuseMoves DEF Step, Outcome
  <2>4. conn' \in [Conn -> ConnShape]
    BY <1>10, <2>1, <1>c, StateOfShape DEF Signing, ConnStatus, Pending
  <2> QED BY <1>10, <2>2, <2>3, <2>4 DEF Signing, Calm
<1>11. CASE Launch(f)
  <2>1. r.sess \in Session /\ r.pc # "idle" /\ r.pc \notin Roaming
    BY <1>11, <1>a DEF Launch, Roaming
  <2>2. SameSessions
    BY <1>11, <2>1, LocksOnly DEF Launch, Unlocked
  <2>3. Moved(f)
    <3>1. GoTo(f, "driver") \/ Refuse(f, "error") \/ Refuse(f, "admission")
      BY <1>11 DEF Launch
    <3> QED BY <2>1, <3>1, GoToMoves, RefuseMoves DEF Step, Outcome
  <2> QED BY <1>11, <2>2, <2>3, <1>c DEF Launch, Calm
<1>12. CASE Driver(f)
  <2>1. r.sess \in Session /\ r.pc # "idle" /\ r.pc \notin Roaming
    BY <1>12, <1>a DEF Driver, Roaming
  <2>2. SameSessions
    BY <1>12, <2>1, LocksOnly DEF Driver, Unlocked
  <2>3. Moved(f)
    <3>1. GoTo(f, "request") \/ Refuse(f, "error") \/ flow' = flow
      BY <1>12 DEF Driver
    <3>2. CASE flow' = flow
      BY <3>2, <1>a DEF Moved
    <3> QED BY <2>1, <3>1, <3>2, GoToMoves, RefuseMoves DEF Step, Outcome
  <2> QED BY <1>12, <2>2, <2>3, <1>c DEF Driver, Calm
<1>13. CASE Request(f)
  <2>1. r.sess \in Session /\ r.pc # "idle" /\ r.pc \notin Roaming
    BY <1>13, <1>a DEF Request, Roaming
  <2>2. SameSessions
    BY <1>13, <2>1, LocksOnly DEF Request, Locked
  <2>3. Moved(f)
    <3>1. GoTo(f, "drive") \/ Refuse(f, "error") \/ Refuse(f, "recoverable")
      BY <1>13 DEF Request
    <3> QED BY <2>1, <3>1, GoToMoves, RefuseMoves DEF Step, Outcome
  <2> QED BY <1>13, <2>2, <2>3, <1>c DEF Request, Calm
<1>14. CASE Drive(f)
  <2>1. r.sess \in Session /\ r.pc # "idle" /\ r.pc \notin Roaming
    BY <1>14, <1>a DEF Drive, Roaming
  <2>2. SameSessions
    BY <1>14, <2>1, <1>b, LocksOnly DEF Drive, Unlocked
  <2>3. Moved(f)
    <3>1. CASE Refuse(f, "error") \/ Refuse(f, "recoverable")
      BY <2>1, <3>1, RefuseMoves DEF Outcome
    <3>2. ASSUME NEW res \in {"ready", "challenge"},
                 flow' = [flow EXCEPT ![f].res = res, ![f].pc = "store"]
          PROVE  Moved(f)
      <4> DEFINE q == [r EXCEPT !.res = res, !.pc = "store"]
      <4>1. q \in FlowShape
        BY <1>a, FlowFields DEF Step, Outcome
      <4>2. q.sess = r.sess /\ q.pc = "store" /\ q.conn = r.conn /\ q.res = res
        BY <1>a DEF FlowShape
      <4>3. q \in Placed
        BY <1>a, <2>1, <4>1, <4>2 DEF Placed
      <4>4. flow' = [flow EXCEPT ![f] = q]
        BY <1>a, <3>2 DEF FlowShape
      <4> HIDE DEF q
      <4> QED BY <4>2, <4>3, <4>4, PutMoves
    <3>3. \/ Refuse(f, "error") \/ Refuse(f, "recoverable")
          \/ \E res \in {"ready", "challenge"} :
                flow' = [flow EXCEPT ![f].res = res, ![f].pc = "store"]
      BY <1>14 DEF Drive
    <3> QED BY <3>1, <3>2, <3>3
  <2> QED BY <1>14, <2>2, <2>3, <1>c DEF Drive, Calm
<1>15. CASE StoreStatus(f)
  <2>1. r.sess \in Session /\ r.pc # "idle" /\ r.res \in {"ready", "challenge"}
        /\ session[r.sess].st # "unused"
    BY <1>15, <1>a, NoneAssumption DEF StoreStatus, Roaming, Placed, Accounted, InUse
  <2> DEFINE row == [session[r.sess] EXCEPT !.lock = None, !.st = r.res]
  <2>2. session \in [Session -> SessionShape] /\ session[r.sess] \in SessionShape
    BY <2>1 DEF Accounted, Shape
  <2>3. row \in SessionShape
    BY <2>1, <2>2, SessionFields
  <2>4. row.st = r.res /\ row.cancelled = session[r.sess].cancelled
    BY <2>2 DEF SessionShape
  <2>5. session' = [session EXCEPT ![r.sess] = row]
    BY <1>15, <2>1, <2>2 DEF StoreStatus, Unlocked, SessionShape
  <2> HIDE DEF row
  <2>6. SameSessions
    BY <2>1, <2>2, <2>3, <2>4, <2>5 DEF SameSessions
  <2>7. Moved(f)
    BY <1>15, <2>1, GoToMoves DEF StoreStatus, Step
  <2> QED BY <1>15, <2>6, <2>7, <1>c DEF StoreStatus, Calm
<1>16. CASE Weigh(f)
  <2> DEFINE put == IF Ready(r.sess) THEN "ready" ELSE "needs_verification"
  <2> DEFINE q == [r EXCEPT !.pc = "write", !.put = put]
  <2>1. put \in ConnStatus
    BY DEF ConnStatus, Pending
  <2>2. r.sess \in Session /\ r.conn \in Conn
    BY <1>16, <1>a DEF Weigh, Roaming
  <2> HIDE DEF put
  <2>3. q \in FlowShape
    BY <1>a, <2>1, FlowFields DEF Step
  <2>4. q.sess = r.sess /\ q.pc = "write" /\ q.conn = r.conn /\ q.put = put
    BY <1>a DEF FlowShape
  <2>5. q \in Placed
    BY <1>a, <2>1, <2>2, <2>3, <2>4 DEF Placed
  <2>6. flow' = [flow EXCEPT ![f] = q]
    BY <1>16, <1>a DEF Weigh, FlowShape, put
  <2> HIDE DEF q
  <2> QED BY <1>16, <1>b, <1>c, <2>4, <2>5, <2>6, PutMoves DEF Weigh, Calm
<1>17. CASE Write(f)
  <2>1. ASSUME Fail(f) PROVE Moved(f)
    BY <1>17, <2>1, FailMoves DEF Write
  <2>2. ASSUME NEW res \in Outcome \cup {"none"}, NEW next \in {"session", "revoke"},
               flow' = [flow EXCEPT ![f].pc = next, ![f].put = "none", ![f].res = res]
        PROVE  Moved(f)
    <3> DEFINE q == [r EXCEPT !.pc = next, !.put = "none", !.res = res]
    <3>1. q \in FlowShape
      BY <1>a, FlowFields DEF Step
    <3>2. q.sess = r.sess /\ q.pc = next /\ q.conn = r.conn
      BY <1>a DEF FlowShape
    <3>3. q \in Placed
      BY <1>17, <1>a, <3>1, <3>2 DEF Placed, Write, Roaming
    <3>4. flow' = [flow EXCEPT ![f] = q]
      BY <1>a, <2>2 DEF FlowShape
    <3> HIDE DEF q
    <3> QED BY <3>2, <3>3, <3>4, PutMoves
  <2>3. \/ Fail(f)
        \/ \E res \in Outcome \cup {"none"}, next \in {"session", "revoke"} :
             flow' = [flow EXCEPT ![f].pc = next, ![f].put = "none", ![f].res = res]
    BY <1>17, <1>a DEF Write, FlowShape, Outcome
  <2>4. conn' \in [Conn -> ConnShape]
    BY <1>17, <1>a, <1>c, StateOfShape DEF Write, Placed
  <2> QED BY <1>17, <2>1, <2>2, <2>3, <2>4, <1>b DEF Write, Calm
<1>18. CASE Opened(f)
  <2>1. r.sess \in Session /\ r.pc # "idle"
    BY <1>18, <1>a DEF Opened, Roaming
  <2>2. GoTo(f, "wait") \/ GoTo(f, "collect") \/ Fail(f) \/ Finish(f)
    BY <1>18 DEF Opened
  <2>3. Moved(f)
    BY <2>1, <2>2, GoToMoves, FailMoves, FinishMoves DEF Step
  <2> QED BY <1>18, <2>3, <1>b, <1>c DEF Opened, Calm
<1>19. CASE Wait(f)
  <2>1. r.sess \in Session /\ r.pc # "idle"
    BY <1>19, <1>a DEF Wait, Roaming
  <2>2. Moved(f)
    BY <1>19, <2>1, GoToMoves, FailMoves DEF Wait, Step
  <2> QED BY <1>19, <2>2, <1>b, <1>c DEF Wait, Calm
<1>20. CASE Collect(f)
  <2>1. r.sess \in Session /\ r.pc # "idle"
    BY <1>20, <1>a DEF Collect, Roaming
  <2>2. Moved(f)
    BY <1>20, <2>1, GoToMoves, FailMoves DEF Collect, Step
  <2>3. SameSessions
    BY <1>20, <2>1, <1>b, LocksOnly DEF Collect
  <2> QED BY <1>20, <2>2, <2>3, <1>c DEF Collect, Calm
<1>21. CASE Join(f)
  <2>1. r.sess \in Session /\ r.pc # "idle"
    BY <1>21, <1>a DEF Join, Roaming
  <2>2. Moved(f)
    BY <1>21, <2>1, GoToMoves, FailMoves DEF Join, Step
  <2>3. SameSessions
    BY <1>21, <2>1, <1>b, LocksOnly DEF Join, Locked
  <2> QED BY <1>21, <2>2, <2>3, <1>c DEF Join, Calm
<1>22. CASE Collected(f)
  <2>1. r.sess \in Session /\ r.pc # "idle"
    BY <1>22, <1>a DEF Collected, Roaming
  <2>2. Moved(f)
    BY <1>22, <2>1, FailMoves DEF Collected
  <2>3. SameSessions
    BY <1>22, <2>1, LocksOnly DEF Collected, Unlocked
  <2> QED BY <1>22, <2>2, <2>3, <1>c DEF Collected, Calm
<1>23. CASE Defer(f)
  BY <1>23, <1>b, <1>c, FinishMoves, FailMoves DEF Defer, Calm
<1>24. CASE Abandon(f)
  <2>1. r.pc # "idle" /\ r.pc # "close"
    BY <1>24 DEF Abandon, Awaiting, Step
  <2>2. Moved(f)
    BY <1>24, <2>1, FailMoves DEF Abandon
  <2>3. SameSessions
    BY <1>24, ReleasedShape DEF Abandon
  <2> QED BY <1>24, <2>1, <2>2, <2>3, <1>c DEF Abandon, Calm
<1> QED
  BY <1>1, <1>2, <1>3, <1>4, <1>5, <1>6, <1>7, <1>8, <1>9, <1>10, <1>11, <1>12, <1>13, <1>14,
     <1>15, <1>16, <1>17, <1>18, <1>19, <1>20, <1>21, <1>22, <1>23, <1>24

LEMMA ArrivalIsCalm ==
    ASSUME Accounted, NEW f \in Flow, NEW c \in Conn, Arrive(f, c)
    PROVE  Calm(f)
<1>1. /\ conn[c] \in ConnShape /\ registry[c] \in Session \cup {None}
      /\ registry[c] # None => registry[c] \in Registered
  BY DEF Accounted, Shape, Registered
<1>2. /\ session' = session => SameSessions
      /\ conn' = conn => conn' \in [Conn -> ConnShape]
  BY DEF Accounted, Shape, SameSessions
<1>3. CASE Suspend(f, c)
  <2>1. Moved(f) /\ flow[f].pc = "idle" /\ registry' = registry /\ session' = session
    BY <1>3, BeginMoves DEF Suspend, Op, Step, Roaming
  <2>2. conn' \in [Conn -> ConnShape]
    BY <1>3 DEF Suspend, Accounted, Shape, ConnShape
  <2> QED BY <1>2, <2>1, <2>2 DEF Calm
<1>4. CASE Claim(f, c)
  <2>1. conn[c].rev \in Nat
    BY <1>1 DEF ConnShape
  <2>2. Moved(f) /\ flow[f].pc = "idle" /\ registry' = registry /\ session' = session
    BY <1>4, <2>1, BeginMoves DEF Claim, Op, Step, Roaming
  <2> QED BY <1>4, <1>2, <2>2 DEF Calm, Claim
<1>5. CASE Save(f, c) \/ Disable(f, c) \/ Check(f, c)
  <2>1. Moved(f) /\ flow[f].pc = "idle" /\ registry' = registry /\ session' = session
    BY <1>5, BeginMoves DEF Save, Disable, Check, Op, Step, Roaming
  <2> QED BY <1>5, <1>2, <2>1 DEF Calm, Save, Disable, Check
<1>6. CASE Verify(f, c)
  <2>1. Moved(f) /\ flow[f].pc = "idle" /\ registry' = registry /\ session' = session
    BY <1>6, <1>1, BeginMoves DEF Verify, Op, Step
  <2> QED BY <1>6, <1>2, <2>1 DEF Calm, Verify
<1> QED BY <1>3, <1>4, <1>5, <1>6 DEF Arrive

LEMMA CancelIsCalm ==
    ASSUME Accounted, NEW f \in Flow, NEW g \in Flow, CancelJob(f, g)
    PROVE  Calm(f)
<1>1. flow[g].conn \in Conn /\ flow[g].rev \in Nat
  BY DEF Accounted, Shape, Placed, FlowShape, CancelJob
<1>2. Moved(f) /\ flow[f].pc = "idle" /\ registry' = registry /\ session' = session
  BY <1>1, BeginMoves DEF CancelJob, Op, Step, Roaming
<1> QED BY <1>2 DEF Calm, CancelJob, SameSessions, Accounted, Shape

LEMMA SweepIsCalm ==
    ASSUME Accounted, NEW c \in Conn, Sweep(c)
    PROVE  Ticker \in Flow /\ Calm(Ticker)
<1>1. registry[c] \in Session /\ registry[c] \in Registered
  BY DEF Sweep, Accounted, Shape, Registered
<1>2. session[registry[c]].rev \in Nat
  BY <1>1 DEF Accounted, Shape, SessionShape
<1>3. Moved(Ticker) /\ flow[Ticker].pc = "idle" /\ registry' = registry /\ session' = session
  BY <1>1, <1>2, NoneAssumption, BeginMoves DEF Sweep, Op, Step
<1> QED BY <1>3, NoneAssumption DEF Calm, Sweep, SameSessions, Accounted, Shape

-----------------------------------------------------------------------------
(* The actions that register, remove, close or drop a session              *)

\* A session taken out of the registry is left with the task that is to close it.
LEMMA TakenOutKeeps ==
    ASSUME Accounted, NEW f \in Flow, NEW q \in Placed, flow[f].pc \notin {"idle", "close"},
           registry[flow[f].conn] # None,
           q.sess = registry[flow[f].conn], q.pc = "close",
           flow' = [flow EXCEPT ![f] = q],
           registry' = [registry EXCEPT ![flow[f].conn] = None],
           session' = session, conn' = conn
    PROVE  Accounted'
<1> DEFINE c == flow[f].conn
<1>1. c \in Conn /\ registry[c] \in Session
  BY DEF Accounted, Shape, Placed
<1>2. Shape'
  BY <1>1 DEF Accounted, Shape
<1>3. InUse'
  BY <1>1 DEF Accounted, Shape, InUse
<1>4. NoSessionIsLost'
  <2> SUFFICES ASSUME NEW s \in Session, s \notin Registered'
               PROVE  \/ session'[s].st = "unused" \/ session'[s].cancelled
                      \/ \E g \in UsedBy(s)' : At(g, "close")'
    BY DEF NoSessionIsLost
  <2>1. CASE s = registry[c]
    <3>1. f \in UsedBy(s)' /\ At(f, "close")'
      BY <2>1 DEF UsedBy, At, Accounted, Shape
    <3> QED BY <3>1
  <2>2. CASE s # registry[c]
    <3>1. s \notin Registered
      BY <2>2, <1>1 DEF Registered, Accounted, Shape
    <3>2. ASSUME NEW g \in UsedBy(s), At(g, "close")
          PROVE  g \in UsedBy(s)' /\ At(g, "close")'
      BY <3>2 DEF UsedBy, At, Accounted, Shape
    <3> QED BY <3>1, <3>2 DEF Accounted, NoSessionIsLost
  <2> QED BY <2>1, <2>2
<1> QED BY <1>2, <1>3, <1>4 DEF Accounted

LEMMA StopKeeps ==
    ASSUME Accounted, NEW f \in Flow, Stop(f)
    PROVE  Accounted'
<1> DEFINE r == flow[f]
           q == [r EXCEPT !.sess = registry[r.conn], !.pc = "close"]
<1>1. /\ r \in Placed /\ r \in FlowShape /\ r.pc = "stop" /\ r.conn \in Conn
      /\ registry[r.conn] \in Session \cup {None}
  BY DEF Accounted, Shape, Placed, Stop, At
<1>2. CASE registry[r.conn] # None
  <2>1. q \in FlowShape
    BY <1>1, FlowFields DEF Step
  <2>2. q.sess = registry[r.conn] /\ q.pc = "close" /\ q.conn = r.conn
    BY <1>1 DEF FlowShape
  <2>3. q \in Placed
    BY <1>1, <1>2, <2>1, <2>2 DEF Placed
  <2>4. flow' = [flow EXCEPT ![f] = q]
    BY <1>1, <1>2 DEF Stop, Accounted, Shape, FlowShape
  <2> HIDE DEF q
  <2> QED BY <1>1, <1>2, <2>2, <2>3, <2>4, TakenOutKeeps DEF Stop
<1>3. CASE registry[r.conn] = None
  <2>1. Moved(f)
    BY <1>1, <1>3, AfterRevokeMoves DEF Stop
  <2>2. Calm(f)
    BY <1>1, <1>3, <2>1 DEF Stop, Calm, SameSessions, Accounted, Shape
  <2> QED BY <2>2, CalmKeeps
<1> QED BY <1>2, <1>3

LEMMA RevokeCurrentKeeps ==
    ASSUME Accounted, NEW f \in Flow, RevokeCurrent(f)
    PROVE  Accounted'
<1> DEFINE res == IF flow[f].op = "sweep" /\ ~Ready(flow[f].sess) THEN "error" ELSE flow[f].res
           r == [flow[f] EXCEPT !.res = res]
           q == [r EXCEPT !.pc = "close"]
<1>1. /\ flow[f] \in FlowShape /\ flow[f] \in Placed /\ flow[f].pc = "revoke"
      /\ flow[f].conn \in Conn /\ flow[f].sess \in Session
  BY DEF Accounted, Shape, Placed, RevokeCurrent, At, Roaming
<1>2. res \in Outcome \cup {"none"}
  BY <1>1 DEF FlowShape, Outcome
<1>3. flow' = [flow EXCEPT ![f] = IF IsCurrent(f) THEN q ELSE AfterRevoke(r)]
  BY DEF RevokeCurrent
<1> HIDE DEF res
<1>4. r \in FlowShape
  BY <1>1, <1>2, FlowFields
<1>5. r.pc = "revoke" /\ r.conn = flow[f].conn /\ r.sess = flow[f].sess
  BY <1>1 DEF FlowShape
<1>6. r \in Placed
  BY <1>1, <1>4, <1>5 DEF Placed
<1>7. CASE IsCurrent(f)
  <2> HIDE DEF r
  <2>1. q \in FlowShape
    BY <1>4, FlowFields DEF Step
  <2>2. q.sess = registry[flow[f].conn] /\ q.pc = "close" /\ q.conn = flow[f].conn
    BY <1>4, <1>5, <1>7 DEF FlowShape, IsCurrent
  <2>3. q \in Placed
    BY <1>1, <1>5, <2>1, <2>2, <1>7 DEF Placed, IsCurrent
  <2>4. registry[flow[f].conn] # None
    BY <1>1, <1>7, NoneAssumption DEF IsCurrent
  <2>5. registry' = [registry EXCEPT ![flow[f].conn] = None] /\ session' = session /\ conn' = conn
    BY <1>5, <1>7 DEF RevokeCurrent
  <2> HIDE DEF q
  <2> QED BY <1>1, <1>3, <1>7, <2>2, <2>3, <2>4, <2>5, TakenOutKeeps
<1>8. CASE ~IsCurrent(f)
  <2> HIDE DEF r
  <2>1. AfterRevoke(r) \in Placed /\ AfterRevoke(r).sess = None
    BY <1>5, <1>6, AfterRevokePlaced
  <2>2. Moved(f)
    BY <1>3, <1>8, <2>1, PutMoves
  <2>3. Calm(f)
    BY <1>1, <1>8, <2>2 DEF RevokeCurrent, Calm, SameSessions, Accounted, Shape
  <2> QED BY <2>3, CalmKeeps
<1> QED BY <1>7, <1>8

LEMMA CloseKeeps ==
    ASSUME Accounted, NEW f \in Flow, Close(f)
    PROVE  Accounted'
<1> DEFINE s == flow[f].sess
           row == [session[s] EXCEPT !.st = "closed", !.cancelled = TRUE]
<1>1. s \in Session /\ flow[f].pc = "close" /\ session \in [Session -> SessionShape]
  BY DEF Accounted, Shape, Placed, Close, At, Roaming
<1>2. row \in SessionShape
  BY <1>1, SessionFields
<1>3. row.st = "closed" /\ row.cancelled = TRUE
  BY <1>1 DEF SessionShape
<1>4. session' = [session EXCEPT ![s] = row]
  BY <1>1 DEF Close, SessionShape
<1> HIDE DEF row
<1>5. Moved(f) /\ registry' = registry /\ conn' = conn
  BY <1>1, GoToMoves DEF Close, Step
<1>6. flow' = [flow EXCEPT ![f].pc = "take"] /\ flow \in [Flow -> FlowShape]
  BY DEF Close, GoTo, Accounted, Shape, Placed
<1>7. \A g \in Flow : flow'[g].sess = flow[g].sess /\ (g # f => flow'[g].pc = flow[g].pc)
  BY <1>6 DEF FlowShape
<1>8. Shape'
  BY <1>1, <1>2, <1>4, <1>5 DEF Accounted, Shape, Moved
<1>9. InUse'
  BY <1>1, <1>3, <1>4, <1>5, <1>7 DEF Accounted, Shape, InUse
<1>10. NoSessionIsLost'
  <2> SUFFICES ASSUME NEW z \in Session, z \notin Registered'
               PROVE  \/ session'[z].st = "unused" \/ session'[z].cancelled
                      \/ \E g \in UsedBy(z)' : At(g, "close")'
    BY DEF NoSessionIsLost
  <2>1. CASE z = s
    BY <1>1, <1>3, <1>4, <2>1
  <2>2. CASE z # s
    <3>1. session'[z] = session[z] /\ z \notin Registered
      BY <1>1, <1>4, <1>5, <2>2 DEF Registered
    <3>2. ASSUME NEW g \in UsedBy(z), At(g, "close")
          PROVE  g \in UsedBy(z)' /\ At(g, "close")'
      BY <1>7, <2>2, <3>2 DEF UsedBy, At
    <3> QED BY <3>1, <3>2 DEF Accounted, NoSessionIsLost
  <2> QED BY <2>1, <2>2
<1> QED BY <1>8, <1>9, <1>10 DEF Accounted

LEMMA InsertKeeps ==
    ASSUME Accounted, NEW f \in Flow, Insert(f)
    PROVE  Accounted'
<1> DEFINE c == flow[f].conn
<1>1. /\ c \in Conn /\ flow[f].pc = "insert"
      /\ flow[f] \in FlowShape /\ session \in [Session -> SessionShape]
  BY DEF Accounted, Shape, Placed, Insert, At
<1>2. ASSUME UNCHANGED <<conn, registry, session>>,
             Fail(f) \/ Finish(f) \/ flow' = [flow EXCEPT ![f].pc = "defer", ![f].seen = 0]
      PROVE  Accounted'
  <2>1. ASSUME flow' = [flow EXCEPT ![f].pc = "defer", ![f].seen = 0]
        PROVE  Moved(f)
    <3> DEFINE q == [flow[f] EXCEPT !.pc = "defer", !.seen = 0]
    <3>1. q \in FlowShape
      BY <1>1, FlowFields DEF Step
    <3>2. q.sess = flow[f].sess /\ q.pc = "defer" /\ q.conn = c
      BY <1>1 DEF FlowShape
    <3>3. q \in Placed
      BY <1>1, <3>1, <3>2 DEF Placed, Roaming
    <3>4. flow' = [flow EXCEPT ![f] = q]
      BY <1>1, <2>1 DEF FlowShape, Accounted, Shape
    <3> HIDE DEF q
    <3> QED BY <3>2, <3>3, <3>4, PutMoves
  <2>2. Moved(f)
    BY <1>1, <1>2, <2>1, FailMoves, FinishMoves
  <2>3. Calm(f)
    BY <1>1, <1>2, <2>2 DEF Calm, SameSessions, Accounted, Shape
  <2> QED BY <2>3, CalmKeeps
<1>3. ASSUME NEW s \in Session, session[s] = Unused, registry[c] = None, conn' = conn,
             registry' = [registry EXCEPT ![c] = s],
             session' = [session EXCEPT ![s] =
                [Unused EXCEPT !.conn = c, !.rev = flow[f].seen, !.st = "starting"]],
             flow' = [flow EXCEPT ![f].sess = s, ![f].seen = 0, ![f].pc = "start"]
      PROVE  Accounted'
  <2> DEFINE row == [Unused EXCEPT !.conn = c, !.rev = flow[f].seen, !.st = "starting"]
             q   == [flow[f] EXCEPT !.sess = s, !.seen = 0, !.pc = "start"]
  <2>1. row.st = "starting" /\ row \in SessionShape
    BY <1>1 DEF Unused, SessionShape, FlowShape
  <2>2. q \in FlowShape
    BY <1>1, FlowFields DEF Step
  <2>3. q.sess = s /\ q.pc = "start" /\ q.conn = c
    BY <1>1 DEF FlowShape
  <2>4. q \in Placed
    BY <1>1, <2>2, <2>3 DEF Placed
  <2>5. flow' = [flow EXCEPT ![f] = q]
    BY <1>1, <1>3 DEF FlowShape, Accounted, Shape
  <2>6. session' = [session EXCEPT ![s] = row]
    BY <1>3
  <2> HIDE DEF row, q
  <2>7. Shape'
    <3>1. registry' \in [Conn -> Session \cup {None}] /\ conn' \in [Conn -> ConnShape]
      BY <1>1, <1>3 DEF Accounted, Shape
    <3>2. session' \in [Session -> SessionShape]
      BY <1>1, <2>1, <2>6
    <3>3. flow' \in [Flow -> Placed]
      BY <2>4, <2>5 DEF Accounted, Shape
    <3> QED BY <3>1, <3>2, <3>3 DEF Shape
  <2>8. InUse'
    BY <1>1, <1>3, <2>1, <2>3, <2>5, <2>6 DEF Accounted, Shape, InUse
  <2>9. NoSessionIsLost'
    <3> SUFFICES ASSUME NEW z \in Session, z \notin Registered'
                 PROVE  \/ session'[z].st = "unused" \/ session'[z].cancelled
                        \/ \E g \in UsedBy(z)' : At(g, "close")'
      BY DEF NoSessionIsLost
    <3>1. z # s
      BY <1>1, <1>3, NoneAssumption DEF Registered, Accounted, Shape
    <3>3. z \notin Registered /\ session'[z] = session[z]
      BY <1>1, <1>3, <2>6, <3>1, NoneAssumption DEF Registered, Accounted, Shape
    <3>4. ASSUME NEW g \in UsedBy(z), At(g, "close")
          PROVE  g \in UsedBy(z)' /\ At(g, "close")'
      BY <1>1, <2>5, <3>4 DEF UsedBy, At, Accounted, Shape
    <3> QED BY <3>3, <3>4 DEF Accounted, NoSessionIsLost
  <2> QED BY <2>7, <2>8, <2>9 DEF Accounted
<1>4. \/ /\ UNCHANGED <<conn, registry, session>>
         /\ Fail(f) \/ Finish(f) \/ flow' = [flow EXCEPT ![f].pc = "defer", ![f].seen = 0]
      \/ \E s \in Session :
           /\ session[s] = Unused /\ registry[c] = None /\ conn' = conn
           /\ registry' = [registry EXCEPT ![c] = s]
           /\ session' = [session EXCEPT ![s] =
                [Unused EXCEPT !.conn = c, !.rev = flow[f].seen, !.st = "starting"]]
           /\ flow' = [flow EXCEPT ![f].sess = s, ![f].seen = 0, ![f].pc = "start"]
  BY DEF Insert
<1> QED BY <1>2, <1>3, <1>4

\* Only a session that nobody names any more becomes unused.
LEMMA DroppedKeeps ==
    ASSUME Accounted, conn' = conn, registry' = registry, flow' = flow,
           session' \in [Session -> SessionShape],
           \A s \in Session :
              IF session'[s].st = "unused"
              THEN session[s].st = "unused" \/ (s \notin Registered /\ UsedBy(s) = {})
              ELSE session'[s].st = session[s].st /\ session'[s].cancelled = session[s].cancelled
    PROVE  Accounted'
<1>1. Shape'
  BY DEF Accounted, Shape
<1>2. InUse'
  BY NoneAssumption DEF Accounted, Shape, InUse, Registered, UsedBy, Placed, FlowShape
<1>3. NoSessionIsLost'
  BY DEF Accounted, NoSessionIsLost, Registered, UsedBy, At
<1> QED BY <1>1, <1>2, <1>3 DEF Accounted

LEMMA DropKeeps ==
    ASSUME Accounted, NEW s \in Session, Drop(s)
    PROVE  Accounted'
<1> DEFINE row == IF session[s].browser = "none" THEN Unused ELSE Ending(session[s].conn)
<1>1. session \in [Session -> SessionShape] /\ session[s].conn \in Conn \cup {None}
  BY DEF Accounted, Shape, SessionShape
<1>2. row \in SessionShape /\ row.st = "unused"
  BY <1>1 DEF Unused, Ending, SessionShape
<1>3. session' = [session EXCEPT ![s] = row]
  BY DEF Drop
<1> HIDE DEF row
<1> QED BY <1>1, <1>2, <1>3, DroppedKeeps DEF Drop, Unreferenced

LEMMA ExitedKeeps ==
    ASSUME Accounted, NEW s \in Session, Exited(s)
    PROVE  Accounted'
<1> DEFINE row == IF session[s].st = "unused" THEN Unused
                                              ELSE [session[s] EXCEPT !.browser = "none"]
<1>1. session \in [Session -> SessionShape] /\ session[s] \in SessionShape
  BY DEF Accounted, Shape
<1>2. /\ row \in SessionShape
      /\ row.st = session[s].st
      /\ row.st # "unused" => row.cancelled = session[s].cancelled
  <2>1. CASE session[s].st = "unused"
    BY <1>1, <2>1 DEF Unused, SessionShape
  <2>2. CASE session[s].st # "unused"
    <3>1. row = [session[s] EXCEPT !.browser = "none"]
      BY <2>2
    <3>2. row \in SessionShape
      BY <1>1, <3>1, SessionFields
    <3> QED BY <1>1, <3>1, <3>2 DEF SessionShape
  <2> QED BY <2>1, <2>2
<1>3. session' = [session EXCEPT ![s] = row]
  BY DEF Exited
<1> HIDE DEF row
<1> QED BY <1>1, <1>2, <1>3, DroppedKeeps DEF Exited

LEMMA ActivateKeeps ==
    ASSUME Accounted, NEW c \in Conn, Activate(c)
    PROVE  Accounted'
<1>1. conn' \in [Conn -> ConnShape]
  BY DEF Activate, Accounted, Shape, ConnShape
<1>2. registry' = registry /\ session' = session /\ flow' = flow
  BY DEF Activate
<1>3. Shape' /\ InUse'
  BY <1>1, <1>2 DEF Accounted, Shape, InUse
<1>4. NoSessionIsLost'
  BY <1>2 DEF Accounted, NoSessionIsLost, Registered, UsedBy, At
<1> QED BY <1>3, <1>4 DEF Accounted

LEMMA RestartKeeps ==
    ASSUME Accounted, Restart
    PROVE  Accounted'
<1>1. conn' \in [Conn -> ConnShape]
  BY DEF Accounted, Shape, Restart, ConnShape, ConnStatus
<1>2. Unused \in SessionShape
  BY DEF Unused, SessionShape
<1>3. Shape'
  BY <1>1, <1>2, IdlePlaced DEF Restart, Shape
<1>4. InUse' /\ NoSessionIsLost'
  BY DEF Restart, InUse, NoSessionIsLost, Unused, Idle
<1> QED BY <1>3, <1>4 DEF Accounted

-----------------------------------------------------------------------------
(* The theorem                                                             *)

LEMMA NextKeeps ==
    ASSUME Accounted, Next
    PROVE  Accounted'
<1>1. ASSUME NEW s \in Session, Drop(s) \/ Exited(s) PROVE Accounted'
  BY <1>1, DropKeeps, ExitedKeeps
<1>2. ASSUME NEW f \in Flow, Advance(f) \/ Abandon(f) PROVE Accounted'
  BY <1>2, QuietIsCalm, CalmKeeps, StopKeeps, RevokeCurrentKeeps, CloseKeeps, InsertKeeps
     DEF Advance
<1>3. ASSUME NEW f \in Flow, NEW c \in Conn, Arrive(f, c) PROVE Accounted'
  BY <1>3, ArrivalIsCalm, CalmKeeps
<1>4. ASSUME NEW f \in Flow, NEW g \in Flow, CancelJob(f, g) PROVE Accounted'
  BY <1>4, CancelIsCalm, CalmKeeps
<1>5. ASSUME NEW c \in Conn, Activate(c) \/ Sweep(c) PROVE Accounted'
  BY <1>5, ActivateKeeps, SweepIsCalm, CalmKeeps
<1> QED BY <1>1, <1>2, <1>3, <1>4, <1>5, RestartKeeps DEF Next

LEMMA AlwaysAccounted == Spec => []Accounted
<1>1. Init => Accounted
  <2> SUFFICES ASSUME Init PROVE Accounted
    OBVIOUS
  <2>1. conn \in [Conn -> ConnShape]
    BY DEF Init, ConnShape, ConnStatus
  <2>2. Unused \in SessionShape
    BY DEF Unused, SessionShape
  <2>3. Shape
    BY <2>1, <2>2, IdlePlaced DEF Init, Shape
  <2>4. InUse /\ NoSessionIsLost
    BY DEF Init, InUse, NoSessionIsLost, Unused, Idle
  <2> QED BY <2>3, <2>4 DEF Accounted
<1>2. Accounted /\ [Next]_vars => Accounted'
  <2>1. ASSUME Accounted, UNCHANGED vars PROVE Accounted'
    BY <2>1 DEF vars, Accounted, Shape, InUse, NoSessionIsLost, Registered, UsedBy, At
  <2> QED BY <2>1, NextKeeps
<1> QED BY <1>1, <1>2, PTL DEF Spec

\* A session leaves the registry of browsers/mod.rs only to be closed: expire_browsers,
\* which looks nowhere else, never misses an open one, whatever tasks revoke late.
THEOREM NoSessionLost == Spec => []NoSessionIsLost
<1>1. Accounted => NoSessionIsLost
  BY DEF Accounted
<1> QED BY AlwaysAccounted, <1>1, PTL

-----------------------------------------------------------------------------
(* A connection shown as ready was accepted with the credentials it has    *)

\* What row z says of its connection is so: who signed in with the credentials there are now
\* has been accepted with them.
HonestSession(z, cc, pp) ==
    z.st # "unused" =>
        /\ z.conn \in Conn /\ z.rev <= cc[z.conn].rev
        /\ z.st = "ready" /\ z.rev = cc[z.conn].rev => z.conn \in pp

\* And what task r is about to say, of the connection of its session.
HonestFlow(r, ss, cc, pp) ==
    /\ r.pc \in {"look", "insert"} => r.seen <= cc[r.conn].rev
    /\ r.sess # None => ss[r.sess].conn = r.conn
    /\ \/ r.pc = "store" /\ r.res = "ready"
       \/ r.pc = "write" /\ r.put = "ready"
       => (ss[r.sess].rev = cc[r.conn].rev => r.conn \in pp)

Honest ==
    /\ ReadyWasProved
    /\ \A s \in Session : HonestSession(session[s], conn, proved)
    /\ \A c \in Conn : registry[c] # None => session[registry[c]].conn = c
    /\ \A f \in Flow : HonestFlow(flow[f], session, conn, proved)

\* Credentials only become newer, an acceptance of those there are stays, and who is newly
\* shown as ready has one.
Later ==
    \A c \in Conn :
        /\ conn'[c].rev >= conn[c].rev
        /\ conn'[c].rev = conn[c].rev /\ c \in proved => c \in proved'
        /\ conn'[c].st = "ready" =>
              c \in proved' \/ (conn[c].st = "ready" /\ conn'[c].rev = conn[c].rev)

\* No session changes hands, and none signs in that should not have.
SameOnes ==
    \A s \in Session : session'[s].st # "unused" =>
        /\ session[s].st # "unused"
        /\ session'[s].conn = session[s].conn /\ session'[s].rev = session[s].rev
        /\ session'[s].st = "ready" =>
              session[s].st = "ready" \/ HonestSession(session'[s], conn', proved')

\* The task f begins no sign-in and has nothing to say of one.
Plain(f) ==
    /\ flow'[f].pc \notin {"look", "insert", "store"}
    /\ flow'[f].pc = "write" => flow'[f].put # "ready"
    /\ \/ flow'[f].sess = None
       \/ flow'[f].sess = flow[f].sess /\ flow'[f].conn = flow[f].conn
       \/ flow'[f].conn \in Conn /\ flow'[f].sess = registry[flow'[f].conn]

\* What was honest of a task stays so, whatever the others do to the world.
LEMMA WorldStaysHonest ==
    ASSUME Accounted, Accounted', Honest, Later, SameOnes
    PROVE  /\ ReadyWasProved'
           /\ \A s \in Session : HonestSession(session'[s], conn', proved')
           /\ \A r \in Placed :
                 /\ HonestFlow(r, session, conn, proved)
                 /\ r.sess # None => session'[r.sess].st # "unused"
                 => HonestFlow(r, session', conn', proved')
<1>1. \A c \in Conn : conn[c].rev \in Nat /\ conn'[c].rev \in Nat
  BY DEF Accounted, Shape, ConnShape
<1>2. \A s \in Session : session[s].rev \in Nat
  BY DEF Accounted, Shape, SessionShape
<1>3. ReadyWasProved'
  BY DEF Honest, Later, ReadyWasProved
<1>4. ASSUME NEW s \in Session
      PROVE  HonestSession(session'[s], conn', proved')
  BY <1>1, <1>2 DEF Honest, Later, SameOnes, HonestSession
<1>5. ASSUME NEW r \in Placed, HonestFlow(r, session, conn, proved),
             r.sess # None => session'[r.sess].st # "unused"
      PROVE  HonestFlow(r, session', conn', proved')
  <2>1. r.pc # "idle" => r.conn \in Conn
    BY DEF Placed
  <2>2. r.seen \in Nat /\ r.sess \in Session \cup {None}
    BY DEF Placed, FlowShape
  <2>3. r.pc \in {"look", "insert"} => r.seen <= conn'[r.conn].rev
    BY <1>1, <1>5, <2>1, <2>2 DEF HonestFlow, Later
  <2>4. CASE r.sess = None
    <3>1. r.pc \notin {"store", "write"}
      BY <2>4, NoneAssumption DEF Placed, Roaming
    <3> QED BY <2>3, <2>4, <3>1 DEF HonestFlow
  <2>5. CASE r.sess # None
    <3> DEFINE s == r.sess
               c == r.conn
    <3>1. s \in Session /\ session'[s].st # "unused" /\ session[s].st # "unused"
          /\ session'[s].conn = session[s].conn /\ session'[s].rev = session[s].rev
      BY <1>5, <2>2, <2>5 DEF SameOnes
    <3>2. session[s].conn = c
      BY <1>5, <2>5 DEF HonestFlow
    <3>3. c \in Conn /\ session[s].rev <= conn[c].rev
      BY <3>1, <3>2 DEF Honest, HonestSession
    <3>4. session'[s].rev = conn'[c].rev =>
             session[s].rev = conn[c].rev /\ conn'[c].rev = conn[c].rev
      BY <1>1, <1>2, <3>1, <3>3 DEF Later
    <3> QED BY <1>5, <2>3, <3>1, <3>2, <3>3, <3>4 DEF HonestFlow, Later
  <2> QED BY <2>4, <2>5
<1> QED BY <1>3, <1>4, <1>5

LEMMA PlainIsHonest ==
    ASSUME Accounted, Accounted', Honest, SameOnes, NEW f \in Flow, Plain(f)
    PROVE  HonestFlow(flow'[f], session', conn', proved')
<1>1. flow'[f].sess \in Session \cup {None}
  BY DEF Accounted, Shape, Placed, FlowShape
<1>2. ASSUME flow'[f].sess # None
      PROVE  session'[flow'[f].sess].conn = flow'[f].conn
  <2>1. session'[flow'[f].sess].conn = session[flow'[f].sess].conn
    BY <1>1, <1>2 DEF SameOnes, Accounted, InUse
  <2>2. session[flow'[f].sess].conn = flow'[f].conn
    BY <1>2 DEF Plain, Honest, HonestFlow
  <2> QED BY <2>1, <2>2
<1> QED BY <1>2 DEF Plain, HonestFlow

\* A step of one task, which registers nothing new.
LEMMA HonestStep ==
    ASSUME Accounted, Accounted', Honest, Later, SameOnes, NEW f \in Flow,
           \A g \in Flow : g # f => flow'[g] = flow[g],
           \A c \in Conn : registry'[c] \in {None, registry[c]},
           HonestFlow(flow'[f], session', conn', proved')
    PROVE  Honest'
<1>1. ReadyWasProved' /\ \A s \in Session : HonestSession(session'[s], conn', proved')
  BY WorldStaysHonest
<1>2. ASSUME NEW c \in Conn, registry'[c] # None
      PROVE  session'[registry'[c]].conn = c
  <2>1. registry'[c] = registry[c] /\ registry[c] \in Session
        /\ session'[registry'[c]].st # "unused"
    BY <1>2 DEF Accounted, Shape, InUse
  <2> QED BY <1>2, <2>1 DEF SameOnes, Honest
<1>3. ASSUME NEW g \in Flow
      PROVE  HonestFlow(flow'[g], session', conn', proved')
  <2>1. CASE g = f
    BY <2>1
  <2>2. CASE g # f
    <3>1. flow'[g] = flow[g] /\ flow[g] \in Placed
      BY <2>2 DEF Accounted, Shape
    <3>2. flow[g].sess # None => session'[flow[g].sess].st # "unused"
      BY <3>1 DEF Accounted, InUse
    <3>3. HonestFlow(flow[g], session, conn, proved)
      BY DEF Honest
    <3>4. HonestFlow(flow[g], session', conn', proved')
      BY <3>1, <3>2, <3>3, WorldStaysHonest
    <3> QED BY <3>1, <3>4
  <2> QED BY <2>1, <2>2
<1> QED BY <1>1, <1>2, <1>3 DEF Honest

LEMMA SameWorld ==
    ASSUME Accounted
    PROVE  /\ UNCHANGED <<conn, proved>> => Later
           /\ session' = session => SameOnes
BY DEF Accounted, Shape, ConnShape, Later, SameOnes

LEMMA StateOfIsLater ==
    ASSUME Accounted, NEW c \in Conn, NEW rev, NEW st \in ConnStatus, proved' = proved,
           conn' = StateOf(c, rev, st), st = "ready" => (conn[c].rev = rev => c \in proved)
    PROVE  Later
<1>1. conn \in [Conn -> ConnShape]
  BY DEF Accounted, Shape
<1>2. CASE conn' = conn
  BY <1>2, SameWorld
<1>3. CASE conn[c].rev = rev /\ conn' = [conn EXCEPT ![c].st = st]
  BY <1>1, <1>3 DEF Later, ConnShape
<1> QED BY <1>2, <1>3 DEF StateOf

LEMMA ChangedIsLater ==
    ASSUME Accounted, NEW c \in Conn, NEW on \in BOOLEAN, conn' = Changed(c, on),
           proved' = proved \ {c}
    PROVE  Later
<1> DEFINE row == [conn[c] EXCEPT !.enabled = on, !.st = "not_connected", !.rev = @ + 1]
<1>1. conn \in [Conn -> ConnShape] /\ conn[c] \in ConnShape
  BY DEF Accounted, Shape
<1>2. conn' = [conn EXCEPT ![c] = row]
  BY <1>1 DEF ConnShape, Changed
<1>3. row.rev = conn[c].rev + 1 /\ row.st = "not_connected" /\ conn[c].rev \in Nat
  BY <1>1 DEF ConnShape
<1> HIDE DEF row
<1>4. ASSUME NEW d \in Conn, d # c
      PROVE  conn'[d] = conn[d] /\ conn[d].rev \in Nat /\ (d \in proved => d \in proved')
  BY <1>1, <1>2, <1>4 DEF ConnShape
<1>5. conn'[c] = row
  BY <1>1, <1>2
<1> QED BY <1>3, <1>4, <1>5 DEF Later

LEMMA LocksKeepThem ==
    ASSUME Accounted, NEW s \in Session, NEW l \in Flow \cup {None},
           NEW b \in {"none", "running", "stopping"},
           \/ session' = [session EXCEPT ![s].lock = l]
           \/ session' = [session EXCEPT ![s].browser = b]
           \/ session' = [session EXCEPT ![s].lock = l, ![s].browser = b]
           \/ session' = [session EXCEPT ![s].collecting = TRUE]
    PROVE  SameOnes
<1>1. session \in [Session -> SessionShape]
  BY DEF Accounted, Shape
<1>2. CASE session' = [session EXCEPT ![s].lock = l]
  BY <1>1, <1>2 DEF SessionShape, SameOnes
<1>3. CASE session' = [session EXCEPT ![s].browser = b]
  BY <1>1, <1>3 DEF SessionShape, SameOnes
<1>4. CASE session' = [session EXCEPT ![s].lock = l, ![s].browser = b]
  <2> DEFINE row == [session[s] EXCEPT !.lock = l, !.browser = b]
  <2>1. session' = [session EXCEPT ![s] = row]
    BY <1>1, <1>4 DEF SessionShape
  <2>2. row.st = session[s].st /\ row.conn = session[s].conn /\ row.rev = session[s].rev
    BY <1>1 DEF SessionShape
  <2> HIDE DEF row
  <2> QED BY <1>1, <2>1, <2>2 DEF SameOnes
<1>5. CASE session' = [session EXCEPT ![s].collecting = TRUE]
  BY <1>1, <1>5 DEF SessionShape, SameOnes
<1> QED BY <1>2, <1>3, <1>4, <1>5

LEMMA ReleasedKeepsThem ==
    ASSUME Accounted, NEW f \in Flow, session' = Released(f)
    PROVE  SameOnes
<1>1. ASSUME NEW s \in Session
      PROVE  /\ session'[s].st = session[s].st /\ session'[s].conn = session[s].conn
             /\ session'[s].rev = session[s].rev
  <2>1. session[s] \in SessionShape
    BY DEF Accounted, Shape
  <2>2. CASE session[s].lock # f
    BY <2>2 DEF Released
  <2>3. CASE session[s].lock = f
    BY <2>1, <2>3 DEF Released, SessionShape
  <2> QED BY <2>2, <2>3
<1> QED BY <1>1 DEF SameOnes

\* Ways to go on that say nothing of a sign-in.
LEMMA PutPlain ==
    ASSUME Accounted, NEW f \in Flow, NEW q,
           flow' = [flow EXCEPT ![f] = q],
           q.pc \notin {"look", "insert", "store"}, q.pc = "write" => q.put # "ready",
           q.sess = None \/ (q.sess = flow[f].sess /\ q.conn = flow[f].conn)
    PROVE  Plain(f)
BY DEF Accounted, Shape, Plain

LEMMA GoToPlain ==
    ASSUME Accounted, NEW f \in Flow, NEW pc, GoTo(f, pc),
           pc \notin {"look", "insert", "store", "write"}
    PROVE  Plain(f)
BY DEF Accounted, Shape, Placed, FlowShape, GoTo, Plain

LEMMA FailPlain ==
    ASSUME Accounted, NEW f \in Flow, Fail(f)
    PROVE  Plain(f)
<1> DEFINE q == IF flow[f].op = "job" THEN Leave(flow[f]) ELSE Idle
<1>1. q.sess = None /\ q.pc \in {"end", "idle"}
  BY DEF Leave, Idle
<1>2. flow' = [flow EXCEPT ![f] = q]
  BY DEF Fail
<1> HIDE DEF q
<1> QED BY <1>1, <1>2, PutPlain

LEMMA FinishPlain ==
    ASSUME Accounted, NEW f \in Flow, Finish(f)
    PROVE  Plain(f)
BY PutPlain DEF Finish, Idle

LEMMA AfterRevokeGoes ==
    ASSUME NEW r \in FlowShape
    PROVE  AfterRevoke(r).pc \in {"save", "disable", "defer", "end", "expire", "idle"}
<1>1. \A pc : [r EXCEPT !.pc = pc, !.sess = None].pc = pc
  BY DEF FlowShape
<1>2. \A pc : [r EXCEPT !.pc = pc, !.sess = None, !.res = "none"].pc = pc
  BY DEF FlowShape
<1>3. Leave(r).pc = "end" /\ Idle.pc = "idle"
  BY DEF Leave, Idle
<1> QED BY <1>1, <1>2, <1>3 DEF AfterRevoke

LEMMA AfterRevokePlain ==
    ASSUME Accounted, NEW f \in Flow, NEW r \in Placed, r.pc # "idle",
           flow' = [flow EXCEPT ![f] = AfterRevoke(r)]
    PROVE  Plain(f)
<1>1. AfterRevoke(r).sess = None
  BY AfterRevokePlaced
<1>2. AfterRevoke(r).pc \in {"save", "disable", "defer", "end", "expire", "idle"}
  BY AfterRevokeGoes DEF Placed
<1> QED BY <1>1, <1>2, PutPlain

LEMMA RefusePlain ==
    ASSUME Accounted, NEW f \in Flow, NEW res \in Outcome, Refuse(f, res)
    PROVE  Plain(f)
<1> DEFINE q == [flow[f] EXCEPT !.res = res,
                   !.pc = IF res = "recoverable" THEN "weigh" ELSE "write",
                   !.put = IF res = "recoverable" THEN @ ELSE "error"]
<1>1. flow[f] \in FlowShape
  BY DEF Accounted, Shape, Placed
<1>2. flow' = [flow EXCEPT ![f] = q]
  BY <1>1 DEF Refuse, Accounted, Shape
<1>3. /\ q.sess = flow[f].sess /\ q.conn = flow[f].conn
      /\ q.pc \in {"weigh", "write"} /\ (q.pc = "write" => q.put = "error")
  BY <1>1 DEF FlowShape
<1> HIDE DEF q
<1> QED BY <1>2, <1>3, PutPlain

LEMMA QuietIsHonest ==
    ASSUME Accounted, Accounted', Honest, NEW f \in Flow,
           \/ End(f) \/ Take(f) \/ Reap(f) \/ Expire(f)
           \/ SaveCredentials(f) \/ DisableConnection(f)
           \/ Lease(f) \/ Look(f) \/ Start(f) \/ Signing(f) \/ Launch(f) \/ Driver(f)
           \/ Request(f) \/ Drive(f) \/ StoreStatus(f) \/ Weigh(f) \/ Write(f)
           \/ Opened(f) \/ Wait(f) \/ Collect(f) \/ Join(f) \/ Collected(f)
           \/ Defer(f) \/ Abandon(f)
    PROVE  Honest'
<1> USE DEF At
<1> DEFINE r == flow[f]
<1> SUFFICES Later /\ SameOnes /\ HonestFlow(flow'[f], session', conn', proved')
  BY QuietIsCalm, HonestStep DEF Calm, Moved
<1>a. flow \in [Flow -> Placed] /\ r \in Placed /\ r \in FlowShape
      /\ (r.pc # "idle" => r.conn \in Conn) /\ (r.pc \notin Roaming => r.sess \in Session)
  BY DEF Accounted, Shape, Placed
<1>b. SameOnes /\ Plain(f) => HonestFlow(flow'[f], session', conn', proved')
  BY PlainIsHonest
<1>c. session' = session => SameOnes
  BY SameWorld
<1>d. UNCHANGED <<conn, proved>> => Later
  BY SameWorld
<1>1. CASE End(f)
  <2>1. CASE Finish(f)
    BY <1>1, <2>1, <1>b, <1>c, <1>d, FinishPlain DEF End
  <2>2. CASE flow' = [flow EXCEPT ![f].sess = registry[r.conn], ![f].pc = "revoke"]
    <3>1. flow'[f].pc = "revoke" /\ flow'[f].conn = r.conn /\ flow'[f].sess = registry[r.conn]
      BY <1>a, <2>2 DEF FlowShape
    <3>2. Plain(f)
      BY <1>1, <1>a, <3>1 DEF End, Plain
    <3> QED BY <1>1, <3>2, <1>b, <1>c, <1>d DEF End
  <2> QED BY <1>1, <2>1, <2>2 DEF End
<1>2. CASE Take(f)
  <2>1. r.sess \in Session /\ r.pc # "idle"
    BY <1>2, <1>a DEF Take, Roaming
  <2>2. Plain(f)
    BY <1>2, <2>1, <1>a, GoToPlain, AfterRevokePlain DEF Take
  <2>3. SameOnes
    BY <1>2, <2>1, <1>c, LocksKeepThem DEF Take
  <2> QED BY <1>2, <2>2, <2>3, <1>b, <1>d DEF Take
<1>3. CASE Reap(f)
  <2>1. r.sess \in Session
    BY <1>3, <1>a DEF Reap, Roaming
  <2>2. Plain(f)
    BY <1>3, <1>a, AfterRevokePlain DEF Reap
  <2>3. SameOnes
    BY <1>3, <2>1, LocksKeepThem DEF Reap, Unlocked
  <2> QED BY <1>3, <2>2, <2>3, <1>b, <1>d DEF Reap
<1>4. CASE Expire(f)
  <2>1. Later
    BY <1>4, <1>a, <1>d, StateOfIsLater DEF Expire, ConnStatus
  <2> QED BY <1>4, <2>1, <1>b, <1>c, FinishPlain DEF Expire
<1>5. CASE SaveCredentials(f)
  <2>1. Later
    BY <1>5, <1>a, <1>d, ChangedIsLater DEF SaveCredentials
  <2>2. Plain(f)
    BY <1>5, GoToPlain, FinishPlain DEF SaveCredentials
  <2> QED BY <1>5, <2>1, <2>2, <1>b, <1>c DEF SaveCredentials
<1>6. CASE DisableConnection(f)
  <2>1. Later
    BY <1>6, <1>a, <1>d, ChangedIsLater DEF DisableConnection
  <2> QED BY <1>6, <2>1, <1>b, <1>c, FinishPlain DEF DisableConnection
<1>7. CASE Lease(f)
  <2>1. CASE Fail(f)
    BY <1>7, <2>1, <1>b, <1>c, <1>d, FailPlain DEF Lease
  <2>2. CASE flow' = [flow EXCEPT ![f].seen = conn[r.conn].rev, ![f].pc = "look"]
    <3>1. /\ flow'[f].pc = "look" /\ flow'[f].seen = conn[r.conn].rev
          /\ flow'[f].conn = r.conn /\ flow'[f].sess = r.sess
      BY <1>a, <2>2 DEF FlowShape
    <3>2. conn[r.conn].rev \in Nat /\ conn' = conn /\ session' = session
      BY <1>7, <1>a DEF Lease, Accounted, Shape, ConnShape
    <3>3. HonestFlow(r, session, conn, proved)
      BY DEF Honest
    <3>4. HonestFlow(flow'[f], session', conn', proved')
      BY <3>1, <3>2, <3>3 DEF HonestFlow
    <3> QED BY <1>7, <3>4, <1>c, <1>d DEF Lease
  <2> QED BY <1>7, <2>1, <2>2 DEF Lease
<1>8. CASE Look(f)
  <2>1. CASE Fail(f)
    BY <1>8, <2>1, <1>b, <1>c, <1>d, FailPlain DEF Look
  <2>2. CASE GoTo(f, "insert")
    <3>1. /\ flow'[f].pc = "insert" /\ flow'[f].seen = r.seen
          /\ flow'[f].conn = r.conn /\ flow'[f].sess = r.sess /\ r.pc = "look"
      BY <1>8, <1>a, <2>2 DEF GoTo, FlowShape, Look
    <3>2. conn' = conn /\ session' = session /\ proved' = proved
      BY <1>8 DEF Look
    <3>3. HonestFlow(r, session, conn, proved)
      BY DEF Honest
    <3>4. HonestFlow(flow'[f], session', conn', proved')
      BY <3>1, <3>2, <3>3 DEF HonestFlow
    <3> QED BY <3>2, <3>4, <1>c, <1>d
  <2>3. ASSUME NEW pc \in {"session", "request"},
               flow' = [flow EXCEPT ![f].sess = registry[r.conn], ![f].seen = 0, ![f].pc = pc]
        PROVE  Plain(f)
    <3>1. flow'[f].pc = pc /\ flow'[f].conn = r.conn /\ flow'[f].sess = registry[r.conn]
      BY <1>a, <2>3 DEF FlowShape
    <3> QED BY <1>8, <1>a, <3>1 DEF Look, Plain
  <2>4. \/ Fail(f) \/ GoTo(f, "insert")
        \/ \E pc \in {"session", "request"} :
             flow' = [flow EXCEPT ![f].sess = registry[r.conn], ![f].seen = 0, ![f].pc = pc]
    BY <1>8 DEF Look
  <2>5. session' = session /\ UNCHANGED <<conn, proved>>
    BY <1>8 DEF Look
  <2> QED BY <2>1, <2>2, <2>3, <2>4, <2>5, <1>b, <1>c, <1>d
<1>9. CASE Start(f)
  <2>1. r.sess \in Session
    BY <1>9, <1>a DEF Start, Roaming
  <2>2. SameOnes
    BY <1>9, <2>1, <1>c, LocksKeepThem DEF Start, Locked
  <2>3. Plain(f)
    BY <1>9, GoToPlain, RefusePlain DEF Start, Outcome
  <2> QED BY <1>9, <2>2, <2>3, <1>b, <1>d DEF Start
<1>10. CASE Signing(f)
  <2>1. r.sess \in Session /\ r.conn \in Conn
    BY <1>10, <1>a DEF Signing, Roaming
  <2>2. SameOnes
    BY <1>10, <2>1, <1>c, LocksKeepThem DEF Signing, Unlocked
  <2>3. Plain(f)
    BY <1>10, GoToPlain, RefusePlain DEF Signing, Outcome
  <2>4. Later
    BY <1>10, <2>1, <1>d, StateOfIsLater DEF Signing, ConnStatus, Pending
  <2> QED BY <2>2, <2>3, <2>4, <1>b
<1>11. CASE Launch(f)
  <2>1. r.sess \in Session
    BY <1>11, <1>a DEF Launch, Roaming
  <2>2. SameOnes
    BY <1>11, <2>1, LocksKeepThem DEF Launch, Unlocked
  <2>3. Plain(f)
    BY <1>11, GoToPlain, RefusePlain DEF Launch, Outcome
  <2> QED BY <1>11, <2>2, <2>3, <1>b, <1>d DEF Launch
<1>12. CASE Driver(f)
  <2>1. r.sess \in Session
    BY <1>12, <1>a DEF Driver, Roaming
  <2>2. SameOnes
    BY <1>12, <2>1, LocksKeepThem DEF Driver, Unlocked
  <2>3. GoTo(f, "request") \/ Refuse(f, "error") \/ flow' = flow
    BY <1>12 DEF Driver
  <2>4. flow' = flow => Plain(f)
    BY <1>12 DEF Driver, Plain
  <2>5. Plain(f)
    BY <2>3, <2>4, GoToPlain, RefusePlain DEF Outcome
  <2> QED BY <1>12, <2>2, <2>5, <1>b, <1>d DEF Driver
<1>13. CASE Request(f)
  <2>1. r.sess \in Session
    BY <1>13, <1>a DEF Request, Roaming
  <2>2. SameOnes
    BY <1>13, <2>1, <1>c, LocksKeepThem DEF Request, Locked
  <2>3. Plain(f)
    BY <1>13, GoToPlain, RefusePlain DEF Request, Outcome
  <2> QED BY <1>13, <2>2, <2>3, <1>b, <1>d DEF Request
<1>14. CASE Drive(f)
  <2>1. r.sess \in Session /\ r.conn \in Conn /\ conn' = conn
    BY <1>14, <1>a DEF Drive, Roaming
  <2>2. SameOnes
    BY <1>14, <2>1, <1>c, LocksKeepThem DEF Drive, Unlocked
  <2>3. Later
    BY <1>14, <2>1 DEF Drive, Later, Accounted, Shape, ConnShape
  <2>4. CASE Refuse(f, "error") \/ Refuse(f, "recoverable")
    BY <2>2, <2>3, <2>4, <1>b, RefusePlain DEF Outcome
  <2>5. ASSUME NEW res \in {"ready", "challenge"}, session' = session,
               flow' = [flow EXCEPT ![f].res = res, ![f].pc = "store"],
               proved' = IF res = "ready" /\ conn[r.conn].rev = session[r.sess].rev
                         THEN proved \cup {r.conn} ELSE proved
        PROVE  HonestFlow(flow'[f], session', conn', proved')
    <3>1. /\ flow'[f].pc = "store" /\ flow'[f].res = res
          /\ flow'[f].conn = r.conn /\ flow'[f].sess = r.sess
      BY <1>a, <2>5 DEF FlowShape
    <3>2. HonestFlow(r, session, conn, proved)
      BY DEF Honest
    <3> QED BY <2>1, <2>5, <3>1, <3>2 DEF HonestFlow
  <2>6. \/ Refuse(f, "error") \/ Refuse(f, "recoverable")
        \/ \E res \in {"ready", "challenge"} :
             /\ session' = session
             /\ flow' = [flow EXCEPT ![f].res = res, ![f].pc = "store"]
             /\ proved' = IF res = "ready" /\ conn[r.conn].rev = session[r.sess].rev
                          THEN proved \cup {r.conn} ELSE proved
    BY <1>14 DEF Drive
  <2> QED BY <2>2, <2>3, <2>4, <2>5, <2>6
<1>15. CASE StoreStatus(f)
  <2>1. r.sess \in Session /\ r.pc = "store" /\ r.conn \in Conn
        /\ session[r.sess].st # "unused"
    BY <1>15, <1>a, NoneAssumption DEF StoreStatus, Roaming, Accounted, InUse
  <2> DEFINE row == [session[r.sess] EXCEPT !.lock = None, !.st = r.res]
  <2>2. session \in [Session -> SessionShape] /\ session[r.sess] \in SessionShape
    BY <2>1 DEF Accounted, Shape
  <2>3. row.st = r.res /\ row.conn = session[r.sess].conn /\ row.rev = session[r.sess].rev
    BY <2>2 DEF SessionShape
  <2>4. session' = [session EXCEPT ![r.sess] = row]
    BY <1>15, <2>1, <2>2 DEF StoreStatus, Unlocked, SessionShape
  <2> HIDE DEF row
  <2>5. HonestFlow(r, session, conn, proved) /\ HonestSession(session[r.sess], conn, proved)
    BY <2>1 DEF Honest
  <2>6. session[r.sess].conn = r.conn
    BY <2>1, <2>5, NoneAssumption DEF HonestFlow
  <2>7. HonestSession(row, conn, proved)
    BY <2>1, <2>3, <2>5, <2>6 DEF HonestFlow, HonestSession
  <2>8. SameOnes
    BY <1>15, <2>1, <2>2, <2>3, <2>4, <2>7 DEF SameOnes, StoreStatus
  <2>9. Plain(f)
    BY <1>15, GoToPlain DEF StoreStatus
  <2> QED BY <1>15, <2>8, <2>9, <1>b, <1>d DEF StoreStatus
<1>16. CASE Weigh(f)
  <2> DEFINE put == IF Ready(r.sess) THEN "ready" ELSE "needs_verification"
  <2>1. r.sess \in Session /\ r.conn \in Conn /\ session[r.sess].st # "unused"
    BY <1>16, <1>a, NoneAssumption DEF Weigh, Roaming, Accounted, InUse
  <2>2. conn' = conn /\ session' = session /\ proved' = proved
    BY <1>16 DEF Weigh
  <2>3. /\ flow'[f].pc = "write" /\ flow'[f].put = put
        /\ flow'[f].conn = r.conn /\ flow'[f].sess = r.sess
    BY <1>16, <1>a DEF Weigh, FlowShape
  <2>4. HonestFlow(r, session, conn, proved) /\ HonestSession(session[r.sess], conn, proved)
    BY <2>1 DEF Honest
  <2>5. session[r.sess].conn = r.conn
    BY <2>1, <2>4, NoneAssumption DEF HonestFlow
  <2>6. put = "ready" => (session[r.sess].rev = conn[r.conn].rev => r.conn \in proved)
    BY <2>1, <2>4, <2>5 DEF HonestSession, Ready
  <2> HIDE DEF put
  <2>7. HonestFlow(flow'[f], session', conn', proved')
    BY <2>2, <2>3, <2>5, <2>6 DEF HonestFlow
  <2> QED BY <2>2, <2>7, <1>c, <1>d
<1>17. CASE Write(f)
  <2>1. r.conn \in Conn /\ r.put \in ConnStatus /\ session' = session /\ proved' = proved
    BY <1>17, <1>a DEF Write, Placed
  <2>2. HonestFlow(r, session, conn, proved)
    BY DEF Honest
  <2>3. r.put = "ready" => (conn[r.conn].rev = session[r.sess].rev => r.conn \in proved)
    BY <1>17, <2>2 DEF HonestFlow, Write
  <2>4. Later
    BY <1>17, <2>1, <2>3, <1>d, StateOfIsLater DEF Write
  <2>5. ASSUME NEW res, NEW next \in {"session", "revoke"},
               flow' = [flow EXCEPT ![f].pc = next, ![f].put = "none", ![f].res = res]
        PROVE  Plain(f)
    <3>1. flow'[f].pc = next /\ flow'[f].conn = r.conn /\ flow'[f].sess = r.sess
      BY <1>a, <2>5 DEF FlowShape
    <3> QED BY <3>1 DEF Plain
  <2>6. \/ Fail(f)
        \/ \E res \in Outcome \cup {"none"}, next \in {"session", "revoke"} :
             flow' = [flow EXCEPT ![f].pc = next, ![f].put = "none", ![f].res = res]
    BY <1>17, <1>a DEF Write, FlowShape, Outcome
  <2>7. Plain(f)
    BY <2>5, <2>6, FailPlain
  <2> QED BY <2>1, <2>4, <2>7, <1>b, <1>c
<1>18. CASE Opened(f)
  <2>1. GoTo(f, "wait") \/ GoTo(f, "collect") \/ Fail(f) \/ Finish(f)
    BY <1>18 DEF Opened
  <2>2. Plain(f)
    BY <2>1, GoToPlain, FailPlain, FinishPlain
  <2> QED BY <1>18, <2>2, <1>b, <1>c, <1>d DEF Opened
<1>19. CASE Wait(f)
  <2>1. Plain(f)
    BY <1>19, GoToPlain, FailPlain DEF Wait
  <2> QED BY <1>19, <2>1, <1>b, <1>c, <1>d DEF Wait
<1>20. CASE Collect(f)
  <2>1. r.sess \in Session
    BY <1>20, <1>a DEF Collect, Roaming
  <2>2. Plain(f)
    BY <1>20, GoToPlain, FailPlain DEF Collect
  <2>3. SameOnes
    BY <1>20, <2>1, <1>c, LocksKeepThem DEF Collect
  <2> QED BY <1>20, <2>2, <2>3, <1>b, <1>d DEF Collect
<1>21. CASE Join(f)
  <2>1. r.sess \in Session
    BY <1>21, <1>a DEF Join, Roaming
  <2>2. Plain(f)
    BY <1>21, GoToPlain, FailPlain DEF Join
  <2>3. SameOnes
    BY <1>21, <2>1, <1>c, LocksKeepThem DEF Join, Locked
  <2> QED BY <1>21, <2>2, <2>3, <1>b, <1>d DEF Join
<1>22. CASE Collected(f)
  <2>1. r.sess \in Session
    BY <1>22, <1>a DEF Collected, Roaming
  <2>2. SameOnes
    BY <1>22, <2>1, LocksKeepThem DEF Collected, Unlocked
  <2> QED BY <1>22, <2>2, <1>b, <1>d, FailPlain DEF Collected
<1>23. CASE Defer(f)
  BY <1>23, <1>b, <1>c, <1>d, FinishPlain, FailPlain DEF Defer
<1>24. CASE Abandon(f)
  BY <1>24, <1>b, <1>d, FailPlain, ReleasedKeepsThem DEF Abandon
<1> QED
  BY <1>1, <1>2, <1>3, <1>4, <1>5, <1>6, <1>7, <1>8, <1>9, <1>10, <1>11, <1>12, <1>13, <1>14,
     <1>15, <1>16, <1>17, <1>18, <1>19, <1>20, <1>21, <1>22, <1>23, <1>24

\* Whoever begins says nothing yet.
LEMMA BeginPlain ==
    ASSUME Accounted, NEW f \in Flow, NEW op, NEW pc, NEW c \in Conn, NEW rev,
           NEW s, s = None \/ s = registry[c], Begin(f, op, pc, c, rev, s),
           pc \notin {"look", "insert", "store", "write"}
    PROVE  Plain(f) /\ session' = session /\ proved' = proved
<1> DEFINE q == [Idle EXCEPT !.op = op, !.pc = pc, !.conn = c, !.rev = rev, !.sess = s]
<1>1. q.pc = pc /\ q.conn = c /\ q.sess = s
  BY DEF Idle
<1>2. flow' = [flow EXCEPT ![f] = q]
  BY DEF Begin
<1> HIDE DEF q
<1>3. flow'[f] = q
  BY <1>2 DEF Accounted, Shape
<1> QED BY <1>1, <1>3 DEF Begin, Plain

LEMMA ArrivalIsHonest ==
    ASSUME Accounted, Accounted', Honest, NEW f \in Flow, NEW c \in Conn, Arrive(f, c)
    PROVE  Honest'
<1>1. Plain(f) /\ session' = session /\ proved' = proved
  <2>1. CASE Claim(f, c)
    BY <2>1, BeginPlain DEF Claim
  <2>2. CASE Save(f, c) \/ Disable(f, c) \/ Check(f, c) \/ Suspend(f, c)
    <3>1. \E op \in {"save", "disable", "check", "suspend"}, pc \in {"stop", "lease"} :
             Begin(f, op, pc, c, 0, None)
      BY <2>2 DEF Save, Disable, Check, Suspend
    <3> QED BY <3>1, BeginPlain
  <2>3. CASE Verify(f, c)
    <3>1. Begin(f, "verify", "request", c, 0, registry[c])
      BY <2>3 DEF Verify
    <3> QED BY <3>1, BeginPlain
  <2> QED BY <2>1, <2>2, <2>3 DEF Arrive
<1>2. Later
  <2>1. CASE conn' = conn
    BY <1>1, <2>1, SameWorld
  <2>2. CASE Suspend(f, c)
    BY <1>1, <2>2 DEF Suspend, Later, Accounted, Shape, ConnShape
  <2> QED BY <2>1, <2>2 DEF Arrive, Claim, Save, Disable, Check, Verify
<1>3. SameOnes
  BY <1>1, SameWorld
<1>4. HonestFlow(flow'[f], session', conn', proved')
  BY <1>1, <1>3, PlainIsHonest
<1> QED BY <1>2, <1>3, <1>4, ArrivalIsCalm, HonestStep DEF Calm, Moved

LEMMA CancelIsHonest ==
    ASSUME Accounted, Accounted', Honest, NEW f \in Flow, NEW g \in Flow, CancelJob(f, g)
    PROVE  Honest'
<1>1. flow[g].conn \in Conn
  BY DEF Accounted, Shape, Placed, FlowShape, CancelJob
<1>2. Plain(f) /\ session' = session /\ proved' = proved /\ conn' = conn
  BY <1>1, BeginPlain DEF CancelJob
<1>3. Later /\ SameOnes
  BY <1>2, SameWorld
<1>4. HonestFlow(flow'[f], session', conn', proved')
  BY <1>2, <1>3, PlainIsHonest
<1> QED BY <1>3, <1>4, CancelIsCalm, HonestStep DEF Calm, Moved

LEMMA SweepIsHonest ==
    ASSUME Accounted, Accounted', Honest, NEW c \in Conn, Sweep(c)
    PROVE  Honest'
<1>1. Ticker \in Flow
  BY NoneAssumption
<1>2. Plain(Ticker) /\ session' = session /\ proved' = proved /\ conn' = conn
  <2>1. Begin(Ticker, "sweep", "revoke", c, session[registry[c]].rev, registry[c])
    BY DEF Sweep
  <2> QED BY <1>1, <2>1, BeginPlain DEF Sweep
<1>3. Later /\ SameOnes
  BY <1>2, SameWorld
<1>4. HonestFlow(flow'[Ticker], session', conn', proved')
  BY <1>1, <1>2, <1>3, PlainIsHonest
<1> QED BY <1>1, <1>3, <1>4, SweepIsCalm, HonestStep DEF Calm, Moved

LEMMA StopIsHonest ==
    ASSUME Accounted, Accounted', Honest, NEW f \in Flow, Stop(f)
    PROVE  Honest'
<1>1. /\ flow[f] \in Placed /\ flow[f] \in FlowShape /\ flow[f].pc = "stop"
      /\ flow[f].conn \in Conn /\ flow \in [Flow -> Placed]
  BY DEF Accounted, Shape, Placed, Stop, At
<1>2. Plain(f)
  <2>1. CASE registry[flow[f].conn] # None
    <3>1. flow' = [flow EXCEPT ![f].sess = registry[flow[f].conn], ![f].pc = "close"]
      BY <2>1 DEF Stop
    <3>2. flow'[f].pc = "close" /\ flow'[f].conn = flow[f].conn
          /\ flow'[f].sess = registry[flow[f].conn]
      BY <1>1, <3>1 DEF FlowShape
    <3> QED BY <1>1, <3>2 DEF Plain
  <2>2. CASE registry[flow[f].conn] = None
    BY <1>1, <2>2, AfterRevokePlain DEF Stop
  <2> QED BY <2>1, <2>2
<1>3. Later /\ SameOnes
  BY SameWorld DEF Stop
<1>4. HonestFlow(flow'[f], session', conn', proved')
  BY <1>2, <1>3, PlainIsHonest
<1>5. \A g \in Flow : g # f => flow'[g] = flow[g]
  BY <1>1 DEF Stop
<1>6. \A c \in Conn : registry'[c] \in {None, registry[c]}
  BY <1>1 DEF Stop, Accounted, Shape
<1> QED BY <1>3, <1>4, <1>5, <1>6, HonestStep

LEMMA RevokeCurrentIsHonest ==
    ASSUME Accounted, Accounted', Honest, NEW f \in Flow, RevokeCurrent(f)
    PROVE  Honest'
<1> DEFINE res == IF flow[f].op = "sweep" /\ ~Ready(flow[f].sess) THEN "error" ELSE flow[f].res
           r == [flow[f] EXCEPT !.res = res]
           q == [r EXCEPT !.pc = "close"]
<1>1. /\ flow[f] \in FlowShape /\ flow[f] \in Placed /\ flow[f].pc = "revoke"
      /\ flow[f].conn \in Conn /\ flow \in [Flow -> Placed]
  BY DEF Accounted, Shape, Placed, RevokeCurrent, At
<1>2. res \in Outcome \cup {"none"}
  BY <1>1 DEF FlowShape, Outcome
<1>3. flow' = [flow EXCEPT ![f] = IF IsCurrent(f) THEN q ELSE AfterRevoke(r)]
  BY DEF RevokeCurrent
<1> HIDE DEF res
<1>4. r \in FlowShape /\ r.pc = "revoke" /\ r.conn = flow[f].conn /\ r.sess = flow[f].sess
  BY <1>1, <1>2, FlowFields DEF FlowShape
<1>5. r \in Placed
  BY <1>1, <1>4 DEF Placed
<1>6. q.pc = "close" /\ q.conn = flow[f].conn /\ q.sess = flow[f].sess
  BY <1>4 DEF FlowShape
<1> HIDE DEF r, q
<1>7. Plain(f)
  BY <1>3, <1>4, <1>5, <1>6, PutPlain, AfterRevokePlain
<1>8. Later /\ SameOnes
  BY SameWorld DEF RevokeCurrent
<1>9. HonestFlow(flow'[f], session', conn', proved')
  BY <1>7, <1>8, PlainIsHonest
<1>10. \A g \in Flow : g # f => flow'[g] = flow[g]
  BY <1>1, <1>3
<1>11. \A c \in Conn : registry'[c] \in {None, registry[c]}
  BY <1>1 DEF RevokeCurrent, Accounted, Shape
<1> QED BY <1>8, <1>9, <1>10, <1>11, HonestStep

LEMMA CloseIsHonest ==
    ASSUME Accounted, Accounted', Honest, NEW f \in Flow, Close(f)
    PROVE  Honest'
<1> DEFINE s == flow[f].sess
           row == [session[s] EXCEPT !.st = "closed", !.cancelled = TRUE]
<1>1. s \in Session /\ session \in [Session -> SessionShape] /\ session[s].st # "unused"
  BY NoneAssumption DEF Accounted, Shape, InUse, Placed, Close, At, Roaming
<1>2. row.st = "closed" /\ row.conn = session[s].conn /\ row.rev = session[s].rev
  BY <1>1 DEF SessionShape
<1>3. session' = [session EXCEPT ![s] = row]
  BY <1>1 DEF Close, SessionShape
<1> HIDE DEF row
<1>4. SameOnes
  BY <1>1, <1>2, <1>3 DEF SameOnes
<1>5. Later
  BY SameWorld DEF Close
<1>6. Plain(f)
  BY GoToPlain DEF Close
<1>7. HonestFlow(flow'[f], session', conn', proved')
  BY <1>4, <1>6, PlainIsHonest
<1>8. /\ \A g \in Flow : g # f => flow'[g] = flow[g]
      /\ \A c \in Conn : registry'[c] \in {None, registry[c]}
  BY DEF Close, GoTo, Accounted, Shape
<1> QED BY <1>4, <1>5, <1>7, <1>8, HonestStep

\* The new session is of the credentials the task has read, which may be old by now.
LEMMA InsertIsHonest ==
    ASSUME Accounted, Accounted', Honest, NEW f \in Flow, Insert(f)
    PROVE  Honest'
<1> DEFINE c == flow[f].conn
<1>1. /\ c \in Conn /\ flow[f].pc = "insert" /\ flow[f].seen \in Nat
      /\ flow[f] \in FlowShape /\ flow \in [Flow -> Placed]
      /\ session \in [Session -> SessionShape]
  BY DEF Accounted, Shape, Placed, FlowShape, Insert, At
<1>2. Later
  BY SameWorld DEF Insert
<1>3. ASSUME UNCHANGED <<conn, proved, registry, session>>,
             Fail(f) \/ Finish(f) \/ flow' = [flow EXCEPT ![f].pc = "defer", ![f].seen = 0]
      PROVE  Honest'
  <2>1. Plain(f)
    <3>1. ASSUME flow' = [flow EXCEPT ![f].pc = "defer", ![f].seen = 0] PROVE Plain(f)
      BY <1>1, <3>1 DEF FlowShape, Plain
    <3> QED BY <1>3, <3>1, FailPlain, FinishPlain
  <2>2. SameOnes
    BY <1>3, SameWorld
  <2>3. HonestFlow(flow'[f], session', conn', proved')
    BY <2>1, <2>2, PlainIsHonest
  <2>4. /\ \A g \in Flow : g # f => flow'[g] = flow[g]
        /\ \A d \in Conn : registry'[d] \in {None, registry[d]}
    BY <1>1, <1>3 DEF Fail, Finish
  <2> QED BY <1>2, <2>2, <2>3, <2>4, HonestStep
<1>4. ASSUME NEW s \in Session, session[s] = Unused, conn' = conn, proved' = proved,
             registry' = [registry EXCEPT ![c] = s],
             session' = [session EXCEPT ![s] =
                [Unused EXCEPT !.conn = c, !.rev = flow[f].seen, !.st = "starting"]],
             flow' = [flow EXCEPT ![f].sess = s, ![f].seen = 0, ![f].pc = "start"]
      PROVE  Honest'
  <2> DEFINE row == [Unused EXCEPT !.conn = c, !.rev = flow[f].seen, !.st = "starting"]
  <2>1. row.st = "starting" /\ row.conn = c /\ row.rev = flow[f].seen
    BY DEF Unused
  <2>2. session' = [session EXCEPT ![s] = row]
    BY <1>4
  <2> HIDE DEF row
  <2>3. flow'[f].pc = "start" /\ flow'[f].conn = c /\ flow'[f].sess = s
    BY <1>1, <1>4 DEF FlowShape
  <2>4. HonestFlow(flow[f], session, conn, proved)
    BY DEF Honest
  <2>5. session[s].st = "unused"
    BY <1>4 DEF Unused
  <2>6. session'[s] = row /\ \A z \in Session : z # s => session'[z] = session[z]
    BY <1>1, <2>2
  <2>7. ReadyWasProved'
    BY <1>4 DEF Honest, ReadyWasProved
  <2>8. ASSUME NEW z \in Session PROVE HonestSession(session'[z], conn', proved')
    BY <1>1, <1>4, <2>1, <2>4, <2>6 DEF Honest, HonestFlow, HonestSession
  <2>9. ASSUME NEW d \in Conn, registry'[d] # None
        PROVE  session'[registry'[d]].conn = d
    <3>1. CASE d = c
      BY <1>1, <1>4, <2>1, <2>6, <3>1 DEF Accounted, Shape
    <3>2. CASE d # c
      <4>1. registry'[d] = registry[d] /\ registry[d] \in Session
        BY <1>4, <2>9, <3>2 DEF Accounted, Shape
      <4>2. registry[d] # s
        BY <2>5, <2>9, <4>1 DEF Accounted, InUse
      <4> QED BY <2>6, <2>9, <4>1, <4>2 DEF Honest
    <3> QED BY <3>1, <3>2
  <2>10. ASSUME NEW g \in Flow PROVE HonestFlow(flow'[g], session', conn', proved')
    <3>1. CASE g = f
      BY <2>1, <2>3, <2>6, <3>1 DEF HonestFlow
    <3>2. CASE g # f
      <4>1. flow'[g] = flow[g] /\ flow[g] \in Placed
        BY <1>1, <1>4, <3>2
      <4>2. flow[g].sess \in Session \cup {None} /\ flow[g].sess # s
        BY <2>5, <4>1, NoneAssumption DEF Accounted, InUse, Placed, FlowShape
      <4>3. flow[g].sess # None => session'[flow[g].sess] = session[flow[g].sess]
        BY <2>6, <4>2
      <4>4. flow[g].pc \in {"store", "write"} => flow[g].sess # None
        BY <4>1, NoneAssumption DEF Placed, Roaming
      <4>5. HonestFlow(flow[g], session, conn, proved)
        BY DEF Honest
      <4>6. CASE flow[g].sess = None
        BY <1>4, <4>1, <4>4, <4>5, <4>6 DEF HonestFlow
      <4>7. CASE flow[g].sess # None
        <5>1. /\ session'[flow[g].sess] = session[flow[g].sess]
              /\ conn' = conn /\ proved' = proved
          BY <1>4, <4>3, <4>7
        <5>2. HonestFlow(flow[g], session', conn', proved')
          BY <4>5, <5>1 DEF HonestFlow
        <5> QED BY <4>1, <5>2
      <4> QED BY <4>6, <4>7
    <3> QED BY <3>1, <3>2
  <2> QED BY <2>7, <2>8, <2>9, <2>10 DEF Honest
<1>5. \/ /\ UNCHANGED <<conn, proved, registry, session>>
         /\ Fail(f) \/ Finish(f) \/ flow' = [flow EXCEPT ![f].pc = "defer", ![f].seen = 0]
      \/ \E s \in Session :
           /\ session[s] = Unused /\ conn' = conn /\ proved' = proved
           /\ registry' = [registry EXCEPT ![c] = s]
           /\ session' = [session EXCEPT ![s] =
                [Unused EXCEPT !.conn = c, !.rev = flow[f].seen, !.st = "starting"]]
           /\ flow' = [flow EXCEPT ![f].sess = s, ![f].seen = 0, ![f].pc = "start"]
  BY DEF Insert
<1> QED BY <1>3, <1>4, <1>5

\* Steps of no task.
LEMMA HonestWorld ==
    ASSUME Accounted, Accounted', Honest, Later, SameOnes, registry' = registry, flow' = flow
    PROVE  Honest'
<1>1. ASSUME NEW c \in Conn, registry'[c] # None
      PROVE  session'[registry'[c]].conn = c
  BY <1>1 DEF Accounted, Shape, InUse, SameOnes, Honest
<1>2. ASSUME NEW f \in Flow
      PROVE  HonestFlow(flow'[f], session', conn', proved')
  <2>1. flow[f] \in Placed /\ (flow[f].sess # None => session'[flow[f].sess].st # "unused")
    BY DEF Accounted, Shape, InUse
  <2>2. HonestFlow(flow[f], session, conn, proved)
    BY DEF Honest
  <2>3. HonestFlow(flow[f], session', conn', proved')
    BY <2>1, <2>2, WorldStaysHonest
  <2> QED BY <2>3
<1> QED BY <1>1, <1>2, WorldStaysHonest DEF Honest

LEMMA GoneIsHonest ==
    ASSUME Accounted, Accounted', Honest, NEW s \in Session, Drop(s) \/ Exited(s)
    PROVE  Honest'
<1>1. session \in [Session -> SessionShape]
  BY DEF Accounted, Shape
<1>2. CASE Drop(s)
  <2>1. session'[s].st = "unused" /\ \A z \in Session : z # s => session'[z] = session[z]
    BY <1>1, <1>2 DEF Drop, Unused, Ending
  <2>2. SameOnes
    BY <2>1 DEF SameOnes
  <2>3. Later
    BY <1>2, SameWorld DEF Drop
  <2> QED BY <1>2, <2>2, <2>3, HonestWorld DEF Drop
<1>3. CASE Exited(s)
  <2>1. \A z \in Session : z # s => session'[z] = session[z]
    BY <1>1, <1>3 DEF Exited
  <2>3. session[s].st = "unused" => session'[s].st = "unused"
    BY <1>1, <1>3 DEF Exited, Unused
  <2>4. session[s].st # "unused" =>
           /\ session'[s].st = session[s].st /\ session'[s].conn = session[s].conn
           /\ session'[s].rev = session[s].rev
    <3>1. session[s].st # "unused" => session'[s] = [session[s] EXCEPT !.browser = "none"]
      BY <1>1, <1>3 DEF Exited
    <3> QED BY <1>1, <3>1 DEF SessionShape
  <2>5. SameOnes
    BY <2>1, <2>3, <2>4 DEF SameOnes
  <2>6. Later
    BY <1>3, SameWorld DEF Exited
  <2> QED BY <1>3, <2>5, <2>6, HonestWorld DEF Exited
<1> QED BY <1>2, <1>3

LEMMA ActivateIsHonest ==
    ASSUME Accounted, Accounted', Honest, NEW c \in Conn, Activate(c)
    PROVE  Honest'
<1>1. Later
  BY DEF Activate, Later, Accounted, Shape, ConnShape
<1>2. SameOnes
  BY SameWorld DEF Activate
<1> QED BY <1>1, <1>2, HonestWorld DEF Activate

LEMMA RestartIsHonest ==
    ASSUME Accounted, Accounted', Honest, Restart
    PROVE  Honest'
<1>1. \A c \in Conn : conn'[c].st = "ready" => conn[c].st = "ready"
  BY DEF Restart, Accounted, Shape, ConnShape, Pending
<1>2. ReadyWasProved'
  BY <1>1 DEF Restart, Honest, ReadyWasProved
<1>3. \A s \in Session : HonestSession(session'[s], conn', proved')
  BY DEF Restart, HonestSession, Unused
<1>4. \A f \in Flow : HonestFlow(flow'[f], session', conn', proved')
  BY DEF Restart, HonestFlow, Idle
<1>5. \A c \in Conn : registry'[c] # None => session'[registry'[c]].conn = c
  BY DEF Restart
<1> QED BY <1>2, <1>3, <1>4, <1>5 DEF Honest

LEMMA NextIsHonest ==
    ASSUME Accounted, Honest, Next
    PROVE  Honest'
<1>a. Accounted'
  BY NextKeeps
<1>1. ASSUME NEW s \in Session, Drop(s) \/ Exited(s) PROVE Honest'
  BY <1>1, <1>a, GoneIsHonest
<1>2. ASSUME NEW f \in Flow, Advance(f) \/ Abandon(f) PROVE Honest'
  BY <1>2, <1>a, QuietIsHonest, StopIsHonest, RevokeCurrentIsHonest, CloseIsHonest,
     InsertIsHonest DEF Advance
<1>3. ASSUME NEW f \in Flow, NEW c \in Conn, Arrive(f, c) PROVE Honest'
  BY <1>3, <1>a, ArrivalIsHonest
<1>4. ASSUME NEW f \in Flow, NEW g \in Flow, CancelJob(f, g) PROVE Honest'
  BY <1>4, <1>a, CancelIsHonest
<1>5. ASSUME NEW c \in Conn, Activate(c) \/ Sweep(c) PROVE Honest'
  BY <1>5, <1>a, ActivateIsHonest, SweepIsHonest
<1> QED BY <1>a, <1>1, <1>2, <1>3, <1>4, <1>5, RestartIsHonest DEF Next

\* A connection shown as ready was accepted by its provider with the credentials it holds
\* now: Store::connection_state writes nothing for a session of older ones, however late its
\* sign-in answers and whichever tasks were dropped meanwhile.
THEOREM ReadyIsProved == Spec => []ReadyWasProved
<1>1. Init => Honest
  BY DEF Init, Honest, ReadyWasProved, HonestSession, HonestFlow, Unused, Idle
<1>2. Accounted /\ Honest /\ [Next]_vars => Honest'
  <2>1. ASSUME Honest, UNCHANGED vars PROVE Honest'
    BY <2>1 DEF vars, Honest, ReadyWasProved, HonestSession, HonestFlow
  <2> QED BY <2>1, NextIsHonest
<1>3. Honest => ReadyWasProved
  BY DEF Honest
<1> QED BY AlwaysAccounted, <1>1, <1>2, <1>3, PTL DEF Spec

-----------------------------------------------------------------------------
(***************************************************************************)
(* For any number of callers, profiles and slots: no profile has two live  *)
(* browsers, no more live than there are slots, and no caller is given the *)
(* answer to another's command.                                            *)
(*                                                                         *)
(* A live worker belongs to a run that holds a slot and a profile          *)
(* (LeasesAreHeld, SlotsAreHeld, RunsAreWhole), and the lease and the      *)
(* permit go only with the run. Between the supervisor and the worker is   *)
(* the one command in flight or its answer (PipesInStep): a command that   *)
(* is abandoned in flight retires the browser, so that nothing is left in  *)
(* the pipe for the next one.                                              *)
(***************************************************************************)

\* The runs that hold a slot and a profile.
Running == {c \in Caller : run[c].phase # "none"}

\* A profile is leased to the one run that holds it, and every slot is free or held.
LeasesAreHeld ==
    /\ \A c \in Running : call[c].profile \in leased
    /\ \A c, d \in Running : call[c].profile = call[d].profile => c = d
SlotsAreHeld == IsFiniteSet(Running) /\ slots + Cardinality(Running) = Slots

\* A worker that lives belongs to a run, and a call launches only without one.
RunsAreWhole(c) ==
    /\ Alive(c) => c \in Running
    /\ call[c].at \in {"idle", "launching"} => c \notin Running
    /\ call[c].at # "idle" => call[c].profile \in Profile

\* Between the supervisor and its worker is the command in flight, or its answer, and nothing
\* else; before and between commands nothing.
OnlyInFlight(r) ==
    IF r.current = Nobody THEN r.pipe = <<>> /\ r.answers = <<>>
    ELSE \/ r.pipe = <<r.current>> /\ r.answers = <<>>
         \/ r.pipe = <<>> /\ \E ok \in BOOLEAN : r.answers = <<[of |-> r.current, ok |-> ok]>>
PipesInStep(c) ==
    /\ run[c].phase \in {"startup", "serving"} => OnlyInFlight(run[c])
    /\ run[c].phase \in {"none", "startup"} => run[c].current = Nobody /\ run[c].pipe = <<>>

RuntimeInv ==
    /\ RuntimeTypeOK /\ LeasesAreHeld /\ SlotsAreHeld
    /\ \A c \in Caller : RunsAreWhole(c) /\ PipesInStep(c)
    /\ AnswersAreTheirOwn

LEMMA NobodyIsNone == Nobody \notin Profile /\ Nobody \notin Command
  BY RuntimeAssumption

LEMMA NoRunRow ==
    /\ NoRun \in RunRow /\ NoRun.phase = "none" /\ NoRun.worker = "none" /\ OnlyInFlight(NoRun)
    /\ NoRun.current = Nobody /\ NoRun.pipe = <<>> /\ NoRun.stop = FALSE /\ NoRun.queue = <<>>
    /\ NoRun.answers = <<>>
  BY DEF NoRun, RunRow, OnlyInFlight

LEMMA RuntimeInvInit == RuntimeInit => RuntimeInv
<1> SUFFICES ASSUME RuntimeInit PROVE RuntimeInv
  OBVIOUS
<1>1. RuntimeTypeOK
  BY NoRunRow, RuntimeAssumption DEF RuntimeInit, RuntimeTypeOK, CallRow, CommandRow
<1>2. Running = {}
  BY NoRunRow DEF RuntimeInit, Running
<1>3. LeasesAreHeld /\ SlotsAreHeld
  <2>1. Cardinality({}) = 0 /\ IsFiniteSet({})
    BY FS_EmptySet
  <2> QED BY <1>2, <2>1, RuntimeAssumption DEF RuntimeInit, LeasesAreHeld, SlotsAreHeld
<1>4. \A c \in Caller : RunsAreWhole(c) /\ PipesInStep(c)
  BY NoRunRow DEF RuntimeInit, RunsAreWhole, PipesInStep, Running, Alive
<1>5. AnswersAreTheirOwn
  BY DEF RuntimeInit, AnswersAreTheirOwn
<1> QED BY <1>1, <1>3, <1>4, <1>5 DEF RuntimeInv

-----------------------------------------------------------------------------
\* The step of one run: its row is replaced, by one that still holds its slot.

LEMMA RowStep ==
    ASSUME RuntimeInv, NEW c \in Caller, NEW row \in RunRow, run' = [run EXCEPT ![c] = row],
           row.phase # "none" <=> run[c].phase # "none",
           row.worker \in {"starting", "ready"} => Alive(c),
           row.phase \in {"startup", "serving"} => OnlyInFlight(row),
           row.phase \in {"none", "startup"} => row.current = Nobody /\ row.pipe = <<>>,
           call' \in [Caller -> CallRow],
           \A d \in Caller : /\ call'[d].profile = call[d].profile
                             /\ call'[d].at \in {"idle", "launching"} =>
                                    d \notin Running
                             /\ call[d].at = "idle" => call'[d].at = "idle",
           command' \in [Command -> CommandRow], AnswersAreTheirOwn', UNCHANGED <<slots, leased>>
    PROVE  RuntimeInv'
<1> USE DEF RuntimeInv
<1>1. Running' = Running
  BY DEF Running, RuntimeTypeOK
<1>2. RuntimeTypeOK'
  BY DEF RuntimeTypeOK
<1>3. LeasesAreHeld' /\ SlotsAreHeld'
  <2>1. \A d \in Running : d \in Caller
    BY DEF Running
  <2> QED BY <1>1, <2>1 DEF LeasesAreHeld, SlotsAreHeld
<1>4. \A d \in Caller : RunsAreWhole(d)' /\ PipesInStep(d)'
  <2> TAKE d \in Caller
  <2>1. PipesInStep(d)'
    BY DEF PipesInStep, RuntimeTypeOK
  <2>2. RunsAreWhole(d)'
    BY <1>1 DEF RunsAreWhole, RuntimeTypeOK, Alive, CallRow
  <2> QED BY <2>1, <2>2
<1> QED BY <1>2, <1>3, <1>4

\* A step that changes no run.
LEMMA CallStep ==
    ASSUME RuntimeInv, UNCHANGED <<run, slots, leased>>,
           call' \in [Caller -> CallRow],
           \A d \in Caller : /\ d \in Running => call'[d].profile = call[d].profile
                             /\ call'[d].at \in {"idle", "launching"} => d \notin Running
                             /\ call'[d].at # "idle" => call'[d].profile \in Profile,
           command' \in [Command -> CommandRow], AnswersAreTheirOwn'
    PROVE  RuntimeInv'
<1> USE DEF RuntimeInv
<1>1. Running' = Running
  BY DEF Running
<1>2. \A d \in Running : d \in Caller
  BY DEF Running
<1>3. RuntimeTypeOK' /\ LeasesAreHeld' /\ SlotsAreHeld'
  BY <1>1, <1>2 DEF LeasesAreHeld, SlotsAreHeld, RuntimeTypeOK
<1>4. \A d \in Caller : RunsAreWhole(d)' /\ PipesInStep(d)'
  BY <1>1 DEF RunsAreWhole, PipesInStep, Alive
<1> QED BY <1>3, <1>4

\* What every step reads.
LEMMA RuntimeRows ==
    ASSUME RuntimeInv, NEW c \in Caller
    PROVE  /\ run \in [Caller -> RunRow] /\ run[c] \in RunRow
           /\ call \in [Caller -> CallRow] /\ call[c] \in CallRow
           /\ command \in [Command -> CommandRow] /\ AnswersAreTheirOwn
           /\ RunsAreWhole(c) /\ PipesInStep(c)
           /\ slots \in 0..Slots /\ leased \subseteq Profile
  BY DEF RuntimeInv, RuntimeTypeOK

-----------------------------------------------------------------------------
\* Slots and profiles are taken and given back.

LEMMA LaunchedKeepsInv ==
    ASSUME RuntimeInv, NEW c \in Caller, Launched(c)
    PROVE  RuntimeInv'
<1> DEFINE row == [NoRun EXCEPT !.phase = "startup", !.worker = "starting"]
<1> USE DEF RuntimeInv
<1>1. /\ row \in RunRow /\ row.phase = "startup" /\ row.worker = "starting" /\ OnlyInFlight(row)
      /\ row.current = Nobody /\ row.pipe = <<>>
  <2>1. NoRun \in RunRow
    BY NoRunRow
  <2>2. /\ row \in RunRow /\ row.phase = "startup" /\ row.worker = "starting"
        /\ row.current = NoRun.current /\ row.pipe = NoRun.pipe /\ row.answers = NoRun.answers
    BY <2>1 DEF RunRow
  <2> HIDE DEF row
  <2>3. row.current = Nobody /\ row.pipe = <<>> /\ row.answers = <<>>
    BY <2>2, NoRunRow
  <2> QED BY <2>2, <2>3 DEF OnlyInFlight
<1>2. /\ run' = [run EXCEPT ![c] = row] /\ slots' = slots - 1 /\ slots > 0
      /\ leased' = leased \cup {call[c].profile} /\ call[c].profile \notin leased
      /\ call' = [call EXCEPT ![c].at = "starting"] /\ UNCHANGED command
      /\ call[c].at = "launching"
  BY DEF Launched, MoveCall, LeaseFree, CallAt
<1> HIDE DEF row
<1>3. c \notin Running /\ call[c].profile \in Profile
  BY <1>2 DEF RunsAreWhole
<1>4. Running' = Running \cup {c}
  BY <1>1, <1>2 DEF Running, RuntimeTypeOK
<1>5. /\ call' \in [Caller -> CallRow]
      /\ \A d \in Caller : call'[d].profile = call[d].profile
      /\ \A d \in Caller : d # c => call'[d] = call[d]
      /\ call'[c].at = "starting"
  BY <1>2 DEF RuntimeTypeOK, CallRow
<1>6. RuntimeTypeOK'
  <2>1. slots' \in 0..Slots
    BY <1>2, RuntimeAssumption DEF RuntimeTypeOK
  <2> QED BY <1>1, <1>2, <1>3, <1>5, <2>1 DEF RuntimeTypeOK
<1>7. LeasesAreHeld'
  <2>1. \A d \in Running : d \in Caller
    BY DEF Running
  <2> QED BY <1>2, <1>3, <1>4, <1>5, <2>1 DEF LeasesAreHeld
<1>8. SlotsAreHeld'
  <2>1. /\ IsFiniteSet(Running) /\ Cardinality(Running) \in Nat
        /\ Cardinality(Running') = Cardinality(Running) + 1 /\ IsFiniteSet(Running')
    BY <1>3, <1>4, FS_AddElement, FS_CardinalityType DEF SlotsAreHeld
  <2>2. slots \in Int /\ Slots \in Int
    BY RuntimeAssumption DEF RuntimeTypeOK
  <2> QED BY <1>2, <2>1, <2>2 DEF SlotsAreHeld
<1>9. \A d \in Caller : RunsAreWhole(d)' /\ PipesInStep(d)'
  <2> TAKE d \in Caller
  <2>1. CASE d = c
    BY <1>1, <1>2, <1>3, <1>4, <1>5, <2>1 DEF RunsAreWhole, PipesInStep, RuntimeTypeOK
  <2>2. CASE d # c
    <3>1. run'[d] = run[d] /\ call'[d] = call[d] /\ (d \in Running' <=> d \in Running)
      BY <1>2, <1>4, <1>5, <2>2
    <3> QED BY <3>1 DEF RunsAreWhole, PipesInStep, Alive
  <2> QED BY <2>1, <2>2
<1> QED BY <1>2, <1>6, <1>7, <1>8, <1>9 DEF AnswersAreTheirOwn

LEMMA ReapKeepsInv ==
    ASSUME RuntimeInv, NEW c \in Caller, ReapChild(c)
    PROVE  RuntimeInv'
<1> USE DEF RuntimeInv
<1>1. /\ run' = [run EXCEPT ![c] = NoRun] /\ slots' = slots + 1
      /\ leased' = leased \ {call[c].profile} /\ UNCHANGED <<call, command>>
      /\ run[c].phase = "stopping"
  BY DEF ReapChild, Phase
<1>2. c \in Running /\ Running' = Running \ {c}
  BY <1>1, NoRunRow DEF Running, RuntimeTypeOK
<1>3. /\ IsFiniteSet(Running) /\ Cardinality(Running) \in Nat
      /\ Cardinality(Running') = Cardinality(Running) - 1 /\ IsFiniteSet(Running')
  BY <1>2, FS_RemoveElement, FS_CardinalityType DEF SlotsAreHeld
<1>4. Cardinality(Running') \in Nat
  BY <1>3, FS_CardinalityType
<1>5. RuntimeTypeOK' /\ SlotsAreHeld'
  <2>1. slots \in Int /\ Slots \in Int /\ slots + Cardinality(Running) = Slots /\ slots >= 0
    BY RuntimeAssumption DEF RuntimeTypeOK, SlotsAreHeld
  <2>2. slots' \in 0..Slots /\ slots' + Cardinality(Running') = Slots
    BY <1>1, <1>3, <1>4, <2>1
  <2> QED BY <1>1, <1>3, <2>2, NoRunRow DEF RuntimeTypeOK, SlotsAreHeld
<1>6. LeasesAreHeld'
  BY <1>1, <1>2 DEF LeasesAreHeld
<1>7. \A d \in Caller : RunsAreWhole(d)' /\ PipesInStep(d)'
  <2> TAKE d \in Caller
  <2>1. CASE d = c
    BY <1>1, <1>2, <2>1, NoRunRow DEF RunsAreWhole, PipesInStep, RuntimeTypeOK, Alive
  <2>2. CASE d # c
    <3>1. run'[d] = run[d] /\ call'[d] = call[d] /\ (d \in Running' <=> d \in Running)
      BY <1>1, <1>2, <2>2
    <3> QED BY <3>1 DEF RunsAreWhole, PipesInStep, Alive
  <2> QED BY <2>1, <2>2
<1> QED BY <1>1, <1>5, <1>6, <1>7 DEF AnswersAreTheirOwn

-----------------------------------------------------------------------------
\* Steps of one run that leave its pipe and its answers alone.

MovesPhase(c, row) ==
    /\ row \in RunRow
    /\ row.phase # "none" <=> run[c].phase # "none"
    /\ row.worker \in {"starting", "ready"} => Alive(c)
    /\ row.current = run[c].current /\ row.pipe = run[c].pipe /\ row.answers = run[c].answers
    /\ \/ row.phase = run[c].phase
       \/ row.phase = "serving" /\ run[c].phase = "startup"
       \/ row.phase = "stopping" /\ run[c].phase # "none"

LEMMA PhasesKeepInv ==
    ASSUME RuntimeInv, NEW c \in Caller,
           \/ WorkerStarts(c) \/ Reported(c) \/ NotReported(c) \/ StartupEnds(c)
           \/ CloseSession(c) \/ WorkerExits(c)
    PROVE  RuntimeInv'
<1> DEFINE r == run[c]
<1>1. r \in RunRow
  BY RuntimeRows
<1>2. UNCHANGED <<slots, leased, command>>
  BY DEF WorkerStarts, Reported, NotReported, StartupEnds, CloseSession, WorkerExits
<1>3. call' = call \/ \E at \in {"running", "closing"} : call' = [call EXCEPT ![c].at = at]
      /\ r.phase = "startup"
  BY DEF WorkerStarts, Reported, NotReported, StartupEnds, CloseSession, WorkerExits, MoveCall,
     Phase
<1>4. /\ call' \in [Caller -> CallRow]
      /\ \A d \in Caller : /\ call'[d].profile = call[d].profile
                           /\ call'[d].at \in {"idle", "launching"} => d \notin Running
                           /\ call[d].at = "idle" => call'[d].at = "idle"
  <2>1. \A d \in Caller : call[d].at \in {"idle", "launching"} => d \notin Running
    BY DEF RuntimeInv, RunsAreWhole
  <2>2. r.phase = "startup" => c \in Running
    BY DEF Running
  <2> QED BY <1>3, <2>1, <2>2, RuntimeRows DEF CallRow
<1>5. \E row \in RunRow : run' = [run EXCEPT ![c] = row] /\ MovesPhase(c, row)
  <2>1. CASE WorkerStarts(c)
    <3> DEFINE row == [r EXCEPT !.worker = "ready"]
    <3>1. run' = [run EXCEPT ![c] = row] /\ Alive(c)
      BY <2>1 DEF WorkerStarts, Alive
    <3>2. /\ row \in RunRow /\ row.current = r.current /\ row.pipe = r.pipe
          /\ row.answers = r.answers /\ row.phase = r.phase
      BY <1>1 DEF RunRow
    <3> HIDE DEF row
    <3>3. MovesPhase(c, row)
      BY <3>1, <3>2 DEF MovesPhase, Alive
    <3> QED BY <3>1, <3>3 DEF MovesPhase
  <2>2. CASE Reported(c)
    <3> DEFINE row == [r EXCEPT !.phase = "serving"]
    <3>1. run' = [run EXCEPT ![c] = row] /\ r.phase = "startup"
      BY <2>2 DEF Reported, Phase
    <3>2. /\ row \in RunRow /\ row.current = r.current /\ row.pipe = r.pipe
          /\ row.answers = r.answers /\ row.phase = "serving" /\ row.worker = r.worker
      BY <1>1 DEF RunRow
    <3> HIDE DEF row
    <3>3. MovesPhase(c, row)
      BY <3>1, <3>2 DEF MovesPhase, Alive
    <3> QED BY <3>1, <3>3 DEF MovesPhase
  <2>3. CASE NotReported(c)
    <3> DEFINE row == [r EXCEPT !.phase = "stopping", !.stop = TRUE]
    <3>1. run' = [run EXCEPT ![c] = row] /\ r.phase = "startup"
      BY <2>3, RuntimeRows DEF NotReported, Phase
    <3>2. /\ row \in RunRow /\ row.current = r.current /\ row.pipe = r.pipe
          /\ row.answers = r.answers /\ row.phase = "stopping" /\ row.worker = r.worker
      BY <1>1 DEF RunRow
    <3> HIDE DEF row
    <3>3. MovesPhase(c, row)
      BY <3>1, <3>2 DEF MovesPhase, Alive
    <3> QED BY <3>1, <3>3 DEF MovesPhase
  <2>4. CASE StartupEnds(c)
    <3> DEFINE row == [r EXCEPT !.phase = "stopping"]
    <3>1. run' = [run EXCEPT ![c] = row] /\ r.phase = "startup"
      BY <2>4 DEF StartupEnds, Phase
    <3>2. /\ row \in RunRow /\ row.current = r.current /\ row.pipe = r.pipe
          /\ row.answers = r.answers /\ row.phase = "stopping" /\ row.worker = r.worker
      BY <1>1 DEF RunRow
    <3> HIDE DEF row
    <3>3. MovesPhase(c, row)
      BY <3>1, <3>2 DEF MovesPhase, Alive
    <3> QED BY <3>1, <3>3 DEF MovesPhase
  <2>5. CASE CloseSession(c)
    <3> DEFINE row == [r EXCEPT !.stop = TRUE]
    <3>1. run' = [run EXCEPT ![c] = row]
      BY <2>5 DEF CloseSession
    <3>2. /\ row \in RunRow /\ row.current = r.current /\ row.pipe = r.pipe
          /\ row.answers = r.answers /\ row.phase = r.phase /\ row.worker = r.worker
      BY <1>1 DEF RunRow
    <3> HIDE DEF row
    <3>3. MovesPhase(c, row)
      BY <3>1, <3>2 DEF MovesPhase, Alive
    <3> QED BY <3>1, <3>3 DEF MovesPhase
  <2>6. CASE WorkerExits(c)
    <3> DEFINE row == [r EXCEPT !.worker = "exited"]
    <3>1. run' = [run EXCEPT ![c] = row]
      BY <2>6 DEF WorkerExits
    <3>2. /\ row \in RunRow /\ row.current = r.current /\ row.pipe = r.pipe
          /\ row.answers = r.answers /\ row.phase = r.phase /\ row.worker = "exited"
      BY <1>1 DEF RunRow
    <3> HIDE DEF row
    <3>3. MovesPhase(c, row)
      BY <3>1, <3>2 DEF MovesPhase, Alive
    <3> QED BY <3>1, <3>3 DEF MovesPhase
  <2> QED BY <2>1, <2>2, <2>3, <2>4, <2>5, <2>6
<1>6. PICK row \in RunRow : run' = [run EXCEPT ![c] = row] /\ MovesPhase(c, row)
  BY <1>5
<1>7. /\ row.phase \in {"startup", "serving"} => OnlyInFlight(row)
      /\ row.phase \in {"none", "startup"} => row.current = Nobody /\ row.pipe = <<>>
  <2>1. PipesInStep(c)
    BY RuntimeRows
  <2> QED BY <1>6, <2>1 DEF MovesPhase, PipesInStep, OnlyInFlight
<1>8. command' \in [Command -> CommandRow] /\ AnswersAreTheirOwn'
  BY <1>2, RuntimeRows DEF AnswersAreTheirOwn
<1> QED BY <1>2, <1>4, <1>6, <1>7, <1>8, RowStep DEF MovesPhase

\* What a call is told without its run: it begins, it is refused, it tries again, it is dropped.
LEMMA CallsKeepInv ==
    ASSUME RuntimeInv, NEW c \in Caller,
           \/ \E p \in Profile : StartBrowser(c, p)
           \/ LaunchRefused(c) \/ TryAgain(c) \/ DropStart(c)
    PROVE  RuntimeInv'
<1>1. /\ \A d \in Caller : RunsAreWhole(d)
      /\ call \in [Caller -> CallRow] /\ run \in [Caller -> RunRow]
      /\ command \in [Command -> CommandRow] /\ AnswersAreTheirOwn
  BY DEF RuntimeInv, RuntimeTypeOK
<1>2. UNCHANGED <<slots, leased, command>> /\ AnswersAreTheirOwn'
  BY <1>1 DEF StartBrowser, LaunchRefused, TryAgain, DropStart, AnswersAreTheirOwn
<1>3. ASSUME NEW p \in Profile, StartBrowser(c, p) PROVE RuntimeInv'
  <2> DEFINE row == [call[c] EXCEPT !.at = "launching", !.profile = p]
  <2>1. call' = [call EXCEPT ![c] = row] /\ UNCHANGED run /\ call[c].at = "idle"
    BY <1>1, <1>3 DEF StartBrowser, CallAt
  <2>2. row \in CallRow /\ row.profile = p /\ row.at = "launching"
    BY <1>1 DEF CallRow
  <2>3. c \notin Running
    BY <1>1, <2>1 DEF RunsAreWhole
  <2> HIDE DEF row
  <2> QED BY <1>1, <1>2, <2>1, <2>2, <2>3, CallStep DEF RunsAreWhole
<1>4. CASE LaunchRefused(c)
  <2>1. call' = [call EXCEPT ![c].at = "over"] /\ UNCHANGED run /\ call[c].at = "launching"
    BY <1>4 DEF LaunchRefused, MoveCall, CallAt
  <2>2. call' \in [Caller -> CallRow]
    BY <1>1, <2>1 DEF CallRow
  <2>3. \A d \in Caller : /\ call'[d].profile = call[d].profile
                          /\ d # c => call'[d] = call[d]
                          /\ call'[c].at = "over"
    BY <1>1, <2>1 DEF CallRow
  <2> QED BY <1>1, <1>2, <2>1, <2>2, <2>3, CallStep DEF RunsAreWhole
<1>5. CASE TryAgain(c)
  <2>1. c \notin Running /\ UNCHANGED run /\ call[c].at = "closing"
    BY <1>5 DEF TryAgain, Phase, CallAt, Running
  <2>2. \E row \in CallRow : call' = [call EXCEPT ![c] = row] /\ row.profile = call[c].profile
    <3>1. CASE call[c].again
      <4> DEFINE row == [call[c] EXCEPT !.at = "over"]
      <4>1. call' = [call EXCEPT ![c] = row]
        BY <1>5, <3>1 DEF TryAgain
      <4>2. row \in CallRow /\ row.profile = call[c].profile
        BY <1>1 DEF CallRow
      <4> HIDE DEF row
      <4> QED BY <4>1, <4>2
    <3>2. CASE ~call[c].again
      <4> DEFINE row == [call[c] EXCEPT !.at = "launching", !.again = TRUE]
      <4>1. call' = [call EXCEPT ![c] = row]
        BY <1>1, <1>5, <3>2 DEF TryAgain
      <4>2. row \in CallRow /\ row.profile = call[c].profile
        BY <1>1 DEF CallRow
      <4> HIDE DEF row
      <4> QED BY <4>1, <4>2
    <3> QED BY <3>1, <3>2
  <2>3. PICK row \in CallRow : call' = [call EXCEPT ![c] = row] /\ row.profile = call[c].profile
    BY <2>2
  <2>4. call[c].profile \in Profile
    BY <1>1, <2>1 DEF RunsAreWhole
  <2> QED BY <1>1, <1>2, <2>1, <2>3, <2>4, CallStep DEF RunsAreWhole
<1>6. CASE DropStart(c)
  <2>1. /\ call' = [call EXCEPT ![c].at = "over"] /\ call[c].at # "idle"
        /\ run' = run \/ run' = [run EXCEPT ![c].stop = TRUE]
    BY <1>6 DEF DropStart, MoveCall
  <2>2. /\ call' \in [Caller -> CallRow]
        /\ \A d \in Caller : call'[d].profile = call[d].profile
        /\ \A d \in Caller : d # c => call'[d] = call[d]
        /\ call'[c].at = "over"
    BY <1>1, <2>1 DEF CallRow
  <2>3. CASE run' = run
    BY <1>1, <1>2, <2>1, <2>2, <2>3, CallStep DEF RunsAreWhole
  <2>4. CASE run' = [run EXCEPT ![c].stop = TRUE]
    <3> DEFINE r == run[c]
               row == [r EXCEPT !.stop = TRUE]
    <3>1. run' = [run EXCEPT ![c] = row]
      BY <2>4
    <3>2. /\ row \in RunRow /\ row.current = r.current /\ row.pipe = r.pipe
          /\ row.answers = r.answers /\ row.phase = r.phase /\ row.worker = r.worker
      BY <1>1 DEF RunRow
    <3> HIDE DEF row
    <3>3. PipesInStep(c)
      BY RuntimeRows
    <3>4. /\ row.phase \in {"startup", "serving"} => OnlyInFlight(row)
          /\ row.phase \in {"none", "startup"} => row.current = Nobody /\ row.pipe = <<>>
          /\ row.worker \in {"starting", "ready"} => Alive(c)
      BY <3>2, <3>3 DEF PipesInStep, OnlyInFlight, Alive
    <3>5. \A d \in Caller : /\ call'[d].at \in {"idle", "launching"} => d \notin Running
                            /\ call[d].at = "idle" => call'[d].at = "idle"
      BY <1>1, <2>1, <2>2 DEF RunsAreWhole
    <3> QED BY <1>1, <1>2, <2>2, <3>1, <3>2, <3>4, <3>5, RowStep
  <2> QED BY <2>1, <2>3, <2>4
<1> QED BY <1>3, <1>4, <1>5, <1>6

-----------------------------------------------------------------------------
\* Commands.

\* The sender of a command is told of it, or that there is no answer.
LEMMA GivenIsTheirOwn ==
    ASSUME RuntimeInv, NEW k, NEW got \in {k, Nobody}, command' = Given(k, got)
    PROVE  command' \in [Command -> CommandRow] /\ AnswersAreTheirOwn'
  BY DEF RuntimeInv, RuntimeTypeOK, CommandRow, AnswersAreTheirOwn, Given

LEMMA ClosedIsTheirOwn ==
    ASSUME RuntimeInv, NEW c \in Caller, command' = ClosedOn(c)
    PROVE  command' \in [Command -> CommandRow] /\ AnswersAreTheirOwn'
<1> DEFINE closed == [at |-> "done", got |-> Nobody]
<1>1. closed \in CommandRow /\ closed.got = Nobody
  BY DEF CommandRow
<1>2. \A k \in Command : command'[k] = closed \/ command'[k] = command[k]
  BY DEF ClosedOn
<1>3. DOMAIN command' = Command /\ command' = [k \in Command |-> command'[k]]
  BY DEF ClosedOn
<1> HIDE DEF closed
<1> QED BY <1>1, <1>2, <1>3 DEF RuntimeInv, RuntimeTypeOK, AnswersAreTheirOwn

\* A row of the run that a command changes, with the slot, the worker and the phase as they were.
Exchanges(c, row) ==
    /\ row \in RunRow /\ run' = [run EXCEPT ![c] = row]
    /\ row.worker \in {"starting", "ready"} => Alive(c)
    /\ row.phase = run[c].phase \/ (row.phase = "stopping" /\ run[c].phase = "serving")
    /\ row.phase \in {"startup", "serving"} => OnlyInFlight(row)
    /\ row.phase \in {"none", "startup"} => row.current = Nobody /\ row.pipe = <<>>

LEMMA ExchangeKeepsInv ==
    ASSUME RuntimeInv, NEW c \in Caller, NEW row, Exchanges(c, row),
           command' \in [Command -> CommandRow], AnswersAreTheirOwn',
           UNCHANGED <<slots, leased, call>>
    PROVE  RuntimeInv'
<1>1. \A d \in Caller : call[d].at \in {"idle", "launching"} => d \notin Running
  BY DEF RuntimeInv, RunsAreWhole
<1>2. row.phase # "none" <=> run[c].phase # "none"
  BY DEF Exchanges
<1> QED BY <1>1, <1>2, RuntimeRows, RowStep DEF Exchanges

LEMMA SendKeepsInv ==
    ASSUME RuntimeInv, NEW c \in Caller, NEW k \in Command, Send(k, c)
    PROVE  RuntimeInv'
<1> DEFINE r == run[c]
<1>1. r \in RunRow /\ PipesInStep(c)
  BY RuntimeRows
<1>2. UNCHANGED <<slots, leased, call>>
  BY DEF Send
<1>3. CASE Phase(c, "serving") /\ Len(r.queue) < QueueSize
  <2> DEFINE row == [r EXCEPT !.queue = Append(r.queue, k)]
  <2>1. run' = [run EXCEPT ![c] = row] /\ command' = [command EXCEPT ![k].at = "open"]
    BY <1>3 DEF Send
  <2>2. /\ row \in RunRow /\ row.current = r.current /\ row.pipe = r.pipe
        /\ row.answers = r.answers /\ row.phase = r.phase /\ row.worker = r.worker
    <3>1. Append(r.queue, k) \in Seq(Command)
      BY <1>1 DEF RunRow
    <3> QED BY <1>1, <3>1 DEF RunRow
  <2> HIDE DEF row
  <2>3. Exchanges(c, row)
    BY <1>1, <2>1, <2>2 DEF Exchanges, PipesInStep, OnlyInFlight, Alive
  <2>4. command' \in [Command -> CommandRow] /\ AnswersAreTheirOwn'
    BY <2>1, RuntimeRows DEF CommandRow, AnswersAreTheirOwn
  <2> QED BY <1>2, <2>3, <2>4, ExchangeKeepsInv
<1>4. CASE ~(Phase(c, "serving") /\ Len(r.queue) < QueueSize)
  <2>1. run' = run /\ command' = Given(k, Nobody)
    BY <1>4 DEF Send
  <2>2. command' \in [Command -> CommandRow] /\ AnswersAreTheirOwn'
    BY <2>1, GivenIsTheirOwn
  <2>3. \A d \in Caller : RunsAreWhole(d)
    BY DEF RuntimeInv
  <2> QED BY <1>2, <2>1, <2>2, <2>3, RuntimeRows, CallStep DEF RunsAreWhole
<1> QED BY <1>3, <1>4

LEMMA TakeKeepsInv ==
    ASSUME RuntimeInv, NEW c \in Caller, TakeRequest(c)
    PROVE  RuntimeInv'
<1> DEFINE r == run[c]
           k == Head(r.queue)
           row == [r EXCEPT !.queue = Tail(r.queue), !.current = k, !.pipe = Append(r.pipe, k)]
<1>1. r \in RunRow /\ PipesInStep(c)
  BY RuntimeRows
<1>2. r.phase = "serving" /\ r.current = Nobody /\ r.queue # <<>> /\ r.queue \in Seq(Command)
  BY <1>1 DEF TakeRequest, Waiting, Phase, RunRow
<1>3. r.pipe = <<>> /\ r.answers = <<>>
  BY <1>1, <1>2 DEF PipesInStep, OnlyInFlight
<1>4. k \in Command /\ Tail(r.queue) \in Seq(Command) /\ Append(r.pipe, k) = <<k>>
      /\ <<k>> \in Seq(Command)
  BY <1>2, <1>3
<1>5. run' = [run EXCEPT ![c] = row] /\ UNCHANGED <<slots, leased, call, command>>
  BY <1>1, RuntimeRows DEF TakeRequest
<1> HIDE DEF k
<1>6. /\ row \in RunRow /\ row.current = k /\ row.pipe = <<k>> /\ row.answers = <<>>
      /\ row.phase = "serving" /\ row.worker = r.worker
  <2>1. ASSUME NEW rest \in Seq(Command), NEW p \in Seq(Command)
        PROVE  LET new == [r EXCEPT !.queue = rest, !.current = k, !.pipe = p]
               IN  /\ new \in RunRow /\ new.current = k /\ new.pipe = p
                   /\ new.answers = r.answers /\ new.phase = r.phase /\ new.worker = r.worker
    BY <1>1, <1>4 DEF RunRow
  <2>2. Append(r.pipe, k) \in Seq(Command)
    BY <1>4
  <2>3. /\ row \in RunRow /\ row.current = k /\ row.pipe = Append(r.pipe, k)
        /\ row.answers = r.answers /\ row.phase = r.phase /\ row.worker = r.worker
    BY <1>4, <2>1, <2>2, Zenon
  <2> HIDE DEF row
  <2> QED BY <1>2, <1>3, <1>4, <2>3
<1> HIDE DEF row
<1>7. OnlyInFlight(row)
  BY <1>4, <1>6, NobodyIsNone DEF OnlyInFlight
<1>8. Exchanges(c, row)
  BY <1>2, <1>5, <1>6, <1>7 DEF Exchanges, Alive
<1>9. command' \in [Command -> CommandRow] /\ AnswersAreTheirOwn'
  BY <1>5, RuntimeRows DEF AnswersAreTheirOwn
<1> QED BY <1>5, <1>8, <1>9, ExchangeKeepsInv

LEMMA SkipKeepsInv ==
    ASSUME RuntimeInv, NEW c \in Caller, SkipRequest(c)
    PROVE  RuntimeInv'
<1> DEFINE r == run[c]
           row == [r EXCEPT !.queue = Tail(r.queue)]
<1>1. r \in RunRow /\ PipesInStep(c)
  BY RuntimeRows
<1>2. r.queue # <<>> /\ r.queue \in Seq(Command)
  BY <1>1 DEF SkipRequest, RunRow
<1>3. Tail(r.queue) \in Seq(Command)
  BY <1>2
<1>4. run' = [run EXCEPT ![c] = row] /\ UNCHANGED <<slots, leased, call>>
  BY <1>1 DEF SkipRequest
<1>5. /\ row \in RunRow /\ row.current = r.current /\ row.pipe = r.pipe
      /\ row.answers = r.answers /\ row.phase = r.phase /\ row.worker = r.worker
  BY <1>1, <1>3 DEF RunRow
<1> HIDE DEF row
<1>6. Exchanges(c, row)
  BY <1>1, <1>4, <1>5 DEF Exchanges, PipesInStep, OnlyInFlight, Alive
<1>7. command' \in [Command -> CommandRow] /\ AnswersAreTheirOwn'
  <2>1. command' = command \/ command' = Given(Head(r.queue), Nobody)
    BY DEF SkipRequest
  <2>2. CASE command' = command
    BY <2>2, RuntimeRows DEF AnswersAreTheirOwn
  <2> QED BY <2>1, <2>2, GivenIsTheirOwn
<1> QED BY <1>4, <1>6, <1>7, ExchangeKeepsInv

LEMMA WorkerAnswersKeepsInv ==
    ASSUME RuntimeInv, NEW c \in Caller, NEW ok \in BOOLEAN, WorkerAnswers(c, ok)
    PROVE  RuntimeInv'
<1> DEFINE r == run[c]
           a == [of |-> Head(r.pipe), ok |-> ok]
           w == IF ok THEN r.worker ELSE "exited"
           p == Tail(r.pipe)
           t == Append(r.answers, a)
           row == [r EXCEPT !.pipe = p, !.answers = t, !.worker = w]
<1>1. r \in RunRow /\ PipesInStep(c)
  BY RuntimeRows
<1>2. /\ r.pipe # <<>> /\ r.pipe \in Seq(Command) /\ r.answers \in Seq(Answer)
      /\ r.worker = "ready"
  BY <1>1 DEF WorkerAnswers, RunRow
<1>3. Tail(r.pipe) \in Seq(Command) /\ a \in Answer /\ Append(r.answers, a) \in Seq(Answer)
  BY <1>2 DEF Answer
<1>4. UNCHANGED <<slots, leased, call, command>>
  BY DEF WorkerAnswers
<1>5. run' = [run EXCEPT ![c] = row]
  <2>1. run' = [run EXCEPT ![c].pipe = Tail(r.pipe), ![c].answers = Append(r.answers, a),
                           ![c].worker = w]
    BY RuntimeRows DEF WorkerAnswers
  <2> QED BY <2>1, RuntimeRows
<1>7. w \in {"ready", "exited"}
  BY <1>2
<1>6. p \in Seq(Command) /\ t \in Seq(Answer)
  BY <1>3
<1> HIDE DEF w, p, t
<1>8. /\ row \in RunRow /\ row.current = r.current /\ row.pipe = p
      /\ row.answers = t /\ row.phase = r.phase /\ row.worker = w
  BY <1>1, <1>6, <1>7 DEF RunRow
<1> HIDE DEF row, a
<1>9. ~(r.phase \in {"none", "startup"})
  BY <1>1, <1>2 DEF PipesInStep
<1>10. r.phase = "serving" => OnlyInFlight(row)
  <2> SUFFICES ASSUME r.phase = "serving" PROVE OnlyInFlight(row)
    OBVIOUS
  <2>1. r.current # Nobody /\ r.pipe = <<r.current>> /\ r.answers = <<>>
    BY <1>1, <1>2 DEF PipesInStep, OnlyInFlight
  <2>2. row.pipe = <<>> /\ row.answers = <<a>>
    BY <1>8, <2>1 DEF p, t
  <2>3. a = [of |-> r.current, ok |-> ok]
    BY <2>1 DEF a
  <2> QED BY <1>8, <2>1, <2>2, <2>3 DEF OnlyInFlight
<1>11. Exchanges(c, row)
  BY <1>2, <1>5, <1>8, <1>9, <1>10 DEF Exchanges, Alive
<1>12. command' \in [Command -> CommandRow] /\ AnswersAreTheirOwn'
  BY <1>4, RuntimeRows DEF AnswersAreTheirOwn
<1> QED BY <1>4, <1>11, <1>12, ExchangeKeepsInv

\* The answer that is read is that of the command in flight: nothing else was in the pipe.
LEMMA ReadKeepsInv ==
    ASSUME RuntimeInv, NEW c \in Caller, ReadAnswer(c)
    PROVE  RuntimeInv'
<1> DEFINE r == run[c]
           row == [r EXCEPT !.current = Nobody, !.answers = Tail(r.answers)]
<1>1. r \in RunRow /\ PipesInStep(c)
  BY RuntimeRows
<1>2. /\ r.phase = "serving" /\ r.current # Nobody /\ r.answers # <<>>
      /\ r.answers \in Seq(Answer)
  BY <1>1 DEF ReadAnswer, Phase, RunRow
<1>3. r.pipe = <<>> /\ \E ok \in BOOLEAN : r.answers = <<[of |-> r.current, ok |-> ok]>>
  BY <1>1, <1>2 DEF PipesInStep, OnlyInFlight
<1>4. Head(r.answers).of = r.current /\ Tail(r.answers) = <<>>
  BY <1>3
<1>5. /\ run' = [run EXCEPT ![c] = row] /\ command' = Given(r.current, Head(r.answers).of)
      /\ UNCHANGED <<slots, leased, call>>
  BY <1>1, RuntimeRows DEF ReadAnswer
<1>6. ASSUME NEW t \in Seq(Answer)
      PROVE  LET new == [r EXCEPT !.current = Nobody, !.answers = t]
             IN  /\ new \in RunRow /\ new.current = Nobody /\ new.pipe = r.pipe
                 /\ new.answers = t /\ new.phase = r.phase /\ new.worker = r.worker
  BY <1>1 DEF RunRow
<1>7. /\ row \in RunRow /\ row.current = Nobody /\ row.pipe = <<>>
      /\ row.answers = <<>> /\ row.phase = "serving" /\ row.worker = r.worker
  <2>1. Tail(r.answers) \in Seq(Answer)
    BY <1>2
  <2> QED BY <1>2, <1>3, <1>4, <1>6, <2>1
<1> HIDE DEF row
<1>8. Exchanges(c, row)
  BY <1>2, <1>5, <1>7 DEF Exchanges, OnlyInFlight, Alive
<1>9. command' \in [Command -> CommandRow] /\ AnswersAreTheirOwn'
  BY <1>4, <1>5, GivenIsTheirOwn
<1> QED BY <1>5, <1>8, <1>9, ExchangeKeepsInv

LEMMA EndKeepsInv ==
    ASSUME RuntimeInv, NEW c \in Caller, Phase(c, "serving"), EndServing(c)
    PROVE  RuntimeInv'
<1> DEFINE r == run[c]
           row == [r EXCEPT !.phase = "stopping", !.queue = <<>>, !.current = Nobody]
<1>1. r \in RunRow /\ r.phase = "serving"
  BY RuntimeRows DEF Phase
<1>2. run' = [run EXCEPT ![c] = row] /\ UNCHANGED <<slots, leased, call>>
  BY RuntimeRows DEF EndServing
<1>3. row \in RunRow /\ row.phase = "stopping" /\ row.worker = r.worker
  <2>1. <<>> \in Seq(Command)
    OBVIOUS
  <2>2. ASSUME NEW empty \in Seq(Command)
        PROVE  LET new == [r EXCEPT !.phase = "stopping", !.queue = empty, !.current = Nobody]
               IN  new \in RunRow /\ new.phase = "stopping" /\ new.worker = r.worker
    BY <1>1 DEF RunRow
  <2> QED BY <2>1, <2>2
<1> HIDE DEF row
<1>4. Exchanges(c, row)
  BY <1>1, <1>2, <1>3 DEF Exchanges, Alive
<1>5. command' \in [Command -> CommandRow] /\ AnswersAreTheirOwn'
  BY ClosedIsTheirOwn DEF EndServing
<1> QED BY <1>2, <1>4, <1>5, ExchangeKeepsInv

LEMMA LeaveKeepsInv ==
    ASSUME RuntimeInv, NEW k \in Command, LeaveCommand(k)
    PROVE  RuntimeInv'
<1>1. UNCHANGED <<slots, leased, call, run>> /\ command' = [command EXCEPT ![k].at = "left"]
  BY DEF LeaveCommand
<1>2. /\ \A d \in Caller : RunsAreWhole(d) /\ call \in [Caller -> CallRow]
      /\ command \in [Command -> CommandRow] /\ AnswersAreTheirOwn
      /\ call \in [Caller -> CallRow]
  BY DEF RuntimeInv, RuntimeTypeOK
<1>3. command' \in [Command -> CommandRow] /\ AnswersAreTheirOwn'
  BY <1>1, <1>2 DEF CommandRow, AnswersAreTheirOwn
<1> QED BY <1>1, <1>2, <1>3, CallStep DEF RunsAreWhole

LEMMA RuntimeInvNext == RuntimeInv /\ [RuntimeNext]_runtimeVars => RuntimeInv'
<1> SUFFICES ASSUME RuntimeInv, [RuntimeNext]_runtimeVars PROVE RuntimeInv'
  OBVIOUS
<1>1. ASSUME NEW c \in Caller,
             \/ \E p \in Profile : StartBrowser(c, p)
             \/ LaunchRefused(c) \/ TryAgain(c) \/ DropStart(c)
      PROVE  RuntimeInv'
  BY <1>1, CallsKeepInv
<1>2. ASSUME NEW c \in Caller,
             \/ WorkerStarts(c) \/ Reported(c) \/ NotReported(c) \/ StartupEnds(c)
             \/ CloseSession(c) \/ WorkerExits(c)
      PROVE  RuntimeInv'
  BY <1>2, PhasesKeepInv
<1>3. ASSUME NEW c \in Caller, Launched(c) \/ ReapChild(c) PROVE RuntimeInv'
  BY <1>3, LaunchedKeepsInv, ReapKeepsInv
<1>4. ASSUME NEW c \in Caller, SkipRequest(c) \/ TakeRequest(c) \/ ReadAnswer(c) PROVE RuntimeInv'
  BY <1>4, SkipKeepsInv, TakeKeepsInv, ReadKeepsInv
<1>5. ASSUME NEW c \in Caller, RetireAbandoned(c) \/ RetireSession(c) PROVE RuntimeInv'
  BY <1>5, EndKeepsInv DEF RetireAbandoned, RetireSession
<1>6. ASSUME NEW c \in Caller, NEW ok \in BOOLEAN, WorkerAnswers(c, ok) PROVE RuntimeInv'
  BY <1>6, WorkerAnswersKeepsInv
<1>7. ASSUME NEW c \in Caller, NEW k \in Command, Send(k, c) PROVE RuntimeInv'
  BY <1>7, SendKeepsInv
<1>8. ASSUME NEW k \in Command, LeaveCommand(k) PROVE RuntimeInv'
  BY <1>8, LeaveKeepsInv
<1>9. CASE UNCHANGED runtimeVars
  BY <1>9 DEF runtimeVars, RuntimeInv, RuntimeTypeOK, LeasesAreHeld, SlotsAreHeld, Running,
     RunsAreWhole, PipesInStep, AnswersAreTheirOwn, Alive
<1> QED BY <1>1, <1>2, <1>3, <1>4, <1>5, <1>6, <1>7, <1>8, <1>9 DEF RuntimeNext, Supervise

\* The inductive invariant of the browser runtime: leases and slots are held by the runs that took
\* them, and a pipe holds one command or its answer.
THEOREM RuntimeInvHolds == RuntimeSpec => []RuntimeInv
<1> QED BY RuntimeInvInit, RuntimeInvNext, PTL DEF RuntimeSpec

\* No profile has two live browsers and no more live than there are slots, for every number of
\* callers (browseros: profile_lease and the slots' permit go with the supervisor's task).
THEOREM BrowsersAreApart == RuntimeSpec => []OneBrowserEach
<1>1. RuntimeInv => OneBrowserEach
  <2> SUFFICES ASSUME RuntimeInv PROVE OneBrowserEach
    OBVIOUS
  <2> DEFINE alive == {c \in Caller : Alive(c)}
  <2>1. alive \subseteq Running
    BY DEF RuntimeInv, RunsAreWhole
  <2>2. IsFiniteSet(Running) /\ slots + Cardinality(Running) = Slots /\ slots \in 0..Slots
    BY DEF RuntimeInv, SlotsAreHeld, RuntimeTypeOK
  <2>3. /\ Cardinality(alive) <= Cardinality(Running) /\ IsFiniteSet(alive)
        /\ Cardinality(Running) \in Nat /\ Cardinality(alive) \in Nat
    BY <2>1, <2>2, FS_Subset, FS_CardinalityType
  <2>4. Cardinality(alive) <= Slots
    BY <2>2, <2>3, RuntimeAssumption
  <2>5. \A c, d \in alive : c = d \/ call[c].profile # call[d].profile
    BY <2>1 DEF RuntimeInv, LeasesAreHeld
  <2> QED BY <2>4, <2>5 DEF OneBrowserEach
<1> QED BY <1>1, RuntimeInvHolds, PTL

\* Whoever is given an answer is given that to the command they sent, whatever was abandoned
\* before it (browseros serve_child: a command left in flight retires its browser).
THEOREM AnswersMatch == RuntimeSpec => []AnswersAreTheirOwn
<1>1. RuntimeInv => AnswersAreTheirOwn
  BY DEF RuntimeInv
<1> QED BY <1>1, RuntimeInvHolds, PTL
=============================================================================
