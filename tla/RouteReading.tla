----------------------------- MODULE RouteReading -----------------------------
(***************************************************************************)
(* The meals of one day of a DSP: a sync lists the routes Cortex shows,    *)
(* reads each in one of two tabs, lists them again until nothing moved     *)
(* meanwhile, and publishes (browsers/cortex/collection.rs,                *)
(* live_collection.rs, meals/mod.rs).  Meanwhile the meal comparison shows *)
(* what was read so far over what was published (meals/comparison.rs).     *)
(*                                                                         *)
(* Cortex is a function from routes to what it says of their meals; a      *)
(* listing reads it in one piece, and the routes move under the reader.    *)
(***************************************************************************)
EXTENDS Integers, Sequences, FiniteSets

CONSTANTS
  Route,        \* the routes Cortex may list, in the order it lists them
  Content,      \* what it may say of a route's meals
  RoutePasses,  \* passes over the list: 6 in the code
  RouteTries,   \* bound: attempts of a sync (its max_attempts)
  Mornings,     \* what Cortex may show at first
  MaxSyncs,     \* bound: syncs of the day
  MaxMoves      \* bound: changes of what Cortex shows

ASSUME RouteReadingAssumption ==
  /\ IsFiniteSet(Route) /\ Route \subseteq Nat \ {0} /\ Content \subseteq Nat \ {0}
  /\ {RoutePasses, RouteTries, MaxSyncs} \subseteq Nat \ {0} /\ MaxMoves \in Nat
  /\ Mornings \subseteq [Route -> Content \union {0}]

Tab == {1, 2}
Unlisted == 0
NoRoutes == [r \in Route |-> Unlisted]
Listed(routes) == {r \in Route : routes[r] # Unlisted}

VARIABLES
  moments,   \* what Cortex has shown, the last being what it shows
  sync,      \* the last sync: its number, status and attempt, and whether its scope was found
  reader,    \* the attempt in memory
  tabs,      \* what each tab is doing
  overlay,   \* the live run: whether there is one, the drivers listed, the routes read
  closures,  \* live writes of an attempt that is gone, still waiting for the lock
  meals,     \* the active publication: its sync, the moment it was listed, its routes
  counted    \* every route a publication of the day has held

routeVars == <<moments, sync, reader, tabs, overlay, closures, meals, counted>>

Source == moments[Len(moments)]
IdleTab == [at |-> "idle", route |-> 0, error |-> "none"]
NoReader == [phase |-> "none", list |-> NoRoutes, pass |-> 0, known |-> {}, pending |-> {},
             records |-> NoRoutes, beside |-> FALSE, stopped |-> FALSE, at |-> 0]
NoOverlay == [on |-> FALSE, drivers |-> {}, routes |-> NoRoutes]
NoMeals == [sync |-> 0, at |-> 0, routes |-> NoRoutes]

\* The guard asks for the job and for the process: an attempt that is gone passes it while
\* the same process holds the job again.
HoldsSync(no) == sync.status = "running" /\ sync.no = no

AllIdle == [t \in Tab |-> IdleTab]
Retryable == {"cortex_content_incomplete", "cortex_source_changed", "provider_timeout"}

\* finish for an attempt that failed: queued again for a retryable code while attempts
\* remain.  The live run goes in both cases.
EndSync(code) ==
  /\ IF HoldsSync(sync.no)
     THEN /\ sync' = [sync EXCEPT !.status =
                        IF code \in Retryable /\ sync.attempt < RouteTries THEN "queued" ELSE "failed"]
          /\ overlay' = NoOverlay
     ELSE UNCHANGED <<sync, overlay>>
  /\ reader' = NoReader /\ tabs' = AllIdle

-----------------------------------------------------------------------------
\* A sync is queued with the scope of what was published, or to find its scope first.
QueueSync ==
  /\ sync.status \in {"none", "succeeded", "failed", "cancelled"} /\ sync.no < MaxSyncs
  /\ reader = NoReader
  /\ sync' = [no |-> sync.no + 1, status |-> "queued", attempt |-> 0, scoped |-> meals # NoMeals]
  /\ UNCHANGED <<moments, reader, tabs, overlay, closures, meals, counted>>

StartSync ==
  /\ sync.status = "queued" /\ reader = NoReader
  /\ sync' = [sync EXCEPT !.status = "running", !.attempt = @ + 1]
  /\ reader' = [NoReader EXCEPT !.phase = "scope"]
  /\ UNCHANGED <<moments, tabs, overlay, closures, meals, counted>>

\* A sync without a scope follows Cortex to its service area and the DSP's provider.
ResolveScope ==
  /\ reader.phase = "scope"
  /\ \/ reader' = [reader EXCEPT !.phase = "list"] /\ UNCHANGED <<sync, tabs, overlay>>
     \/ /\ ~sync.scoped
        /\ \E code \in {"cortex_station_unavailable", "cortex_content_incomplete"} : EndSync(code)
  /\ UNCHANGED <<moments, closures, meals, counted>>

ReadList ==
  /\ reader.phase = "list"
  /\ \/ /\ reader' = [reader EXCEPT !.phase = "start", !.list = Source]
        /\ UNCHANGED <<sync, tabs, overlay>>
     \/ EndSync("cortex_content_incomplete")
  /\ UNCHANGED <<moments, closures, meals, counted>>

\* A pass reads the listed routes whose record is missing or of another revision.
BeginPass(list, n) ==
  [reader EXCEPT !.phase = "read", !.list = list, !.pass = n, !.stopped = FALSE,
                 !.known = @ \union Listed(list),
                 !.pending = {r \in Listed(list) : reader.records[r] # list[r]}]

\* start_cortex: the live run starts over, with the drivers of the list.  A second tab is
\* opened when the list has a second route, for every pass.
StartOverlay ==
  /\ reader.phase = "start"
  /\ IF HoldsSync(sync.no)
     THEN /\ overlay' = [on |-> TRUE, drivers |-> Listed(reader.list), routes |-> NoRoutes]
          /\ reader' = [BeginPass(reader.list, 1) EXCEPT !.beside = Cardinality(Listed(reader.list)) > 1]
          /\ UNCHANGED <<sync, tabs>>
     ELSE EndSync("job_cancelled")
  /\ UNCHANGED <<moments, closures, meals, counted>>

-----------------------------------------------------------------------------
\* A tab's error keeps the others from their next route.
FailTab(t, code) ==
  /\ tabs' = [tabs EXCEPT ![t] = [IdleTab EXCEPT !.at = "failed", !.error = code]]
  /\ reader' = [reader EXCEPT !.stopped = TRUE]

TakeRoute(t) ==
  /\ reader.phase = "read" /\ tabs[t].at = "idle" /\ (t = 1 \/ reader.beside) /\ ~reader.stopped /\ reader.pending # {}
  /\ IF HoldsSync(sync.no)
     THEN LET r == CHOOSE x \in reader.pending : \A o \in reader.pending : x <= o
          IN /\ tabs' = [tabs EXCEPT ![t] = [IdleTab EXCEPT !.at = "page", !.route = r]]
             /\ reader' = [reader EXCEPT !.pending = @ \ {r}]
     ELSE FailTab(t, "job_cancelled")
  /\ UNCHANGED <<moments, sync, overlay, closures, meals, counted>>

\* The page of a route settles on the revision that was listed, or says it changed: then
\* its record goes, for the next pass to read.  (The code drops and keeps records once all
\* tabs have ended; nobody looks at them before.)
ReadRoute(t) ==
  /\ tabs[t].at = "page"
  /\ LET r == tabs[t].route
     IN \/ /\ Source[r] = reader.list[r]
           /\ tabs' = [tabs EXCEPT ![t].at = "stage"] /\ UNCHANGED reader
        \/ /\ Source[r] # reader.list[r]
           /\ tabs' = [tabs EXCEPT ![t] = IdleTab]
           /\ reader' = [reader EXCEPT !.records[r] = Unlisted]
        \/ \E code \in {"cortex_content_incomplete", "cortex_invalid_identity"} : FailTab(t, code)
  /\ UNCHANGED <<moments, sync, overlay, closures, meals, counted>>

\* Writer::cortex: one validated route becomes visible, in the run of its own job only.
Shows(no, r, content) ==
  IF HoldsSync(no) /\ overlay.on THEN [overlay EXCEPT !.routes[r] = content] ELSE overlay

StageRoute(t) ==
  /\ tabs[t].at = "stage"
  /\ LET r == tabs[t].route
     IN IF HoldsSync(sync.no) /\ overlay.on
        THEN /\ overlay' = Shows(sync.no, r, reader.list[r])
             /\ tabs' = [tabs EXCEPT ![t] = IdleTab]
             /\ reader' = [reader EXCEPT !.records[r] = reader.list[r]]
        ELSE FailTab(t, "job_cancelled") /\ UNCHANGED overlay
  /\ UNCHANGED <<moments, sync, closures, meals, counted>>

StageLate ==
  /\ \E w \in closures : closures' = closures \ {w} /\ overlay' = Shows(w.no, w.route, w.content)
  /\ UNCHANGED <<moments, sync, reader, tabs, meals, counted>>

-----------------------------------------------------------------------------
TabsEnded == \A t \in Tab : tabs[t].at = "failed"
                            \/ (tabs[t].at = "idle" /\ (reader.stopped \/ reader.pending = {}))
FailedTabs == {t \in Tab : tabs[t].at = "failed"}

\* Every tab is waited for; the first one's error is the attempt's.
EndPass ==
  /\ reader.phase = "read" /\ TabsEnded
  /\ IF FailedTabs # {}
     THEN EndSync(tabs[CHOOSE t \in FailedTabs : \A o \in FailedTabs : t <= o].error)
     ELSE IF ~HoldsSync(sync.no) THEN EndSync("job_cancelled")
     ELSE reader' = [reader EXCEPT !.phase = "check"] /\ UNCHANGED <<sync, tabs, overlay>>
  /\ UNCHANGED <<moments, closures, meals, counted>>

\* (Weakened: the revisions are not compared.)
AgreesInNumber(next) == Cardinality(Listed(next)) = Cardinality(Listed(reader.records))

\* The records are what the list names, each at the revision it now has.
Agrees(next) ==
  /\ Cardinality(Listed(next)) = Cardinality(Listed(reader.records))
  /\ \A r \in Listed(next) : reader.records[r] = next[r]

\* The routes are listed again.  One that was listed before must still be there; when the
\* records agree with the list they are the capture, and otherwise it is the next pass's.
CheckList ==
  /\ reader.phase = "check"
  /\ \/ /\ reader.known \subseteq Listed(Source)
        /\ reader' = IF Agrees(Source) THEN [reader EXCEPT !.phase = "publish", !.at = Len(moments)]
                     ELSE [reader EXCEPT !.phase = "again", !.list = Source]
        /\ UNCHANGED <<sync, tabs, overlay>>
     \/ ~(reader.known \subseteq Listed(Source)) /\ EndSync("cortex_membership_regressed")
     \/ EndSync("cortex_content_incomplete")
  /\ UNCHANGED <<moments, closures, meals, counted>>

\* cortex_drivers, and another pass while any is left.
NextPass ==
  /\ reader.phase = "again"
  /\ IF ~HoldsSync(sync.no) THEN EndSync("job_cancelled")
     ELSE IF reader.pass = RoutePasses THEN EndSync("cortex_source_changed")
     ELSE /\ overlay' = [overlay EXCEPT !.drivers = Listed(reader.list)]
          /\ reader' = BeginPass(reader.list, reader.pass + 1) /\ UNCHANGED <<sync, tabs>>
  /\ UNCHANGED <<moments, closures, meals, counted>>

-----------------------------------------------------------------------------
\* publish_meals, in the collector's database: a sync that published before a crash finds
\* its publication; one that is older, or lacks a route, is refused.
Succeeds(active) == meals.sync = 0 \/ (meals.at <= active.at /\ Listed(meals.routes) \subseteq Listed(active.routes))
PublishMeals ==
  /\ reader.phase = "publish"
  /\ LET capture == [sync |-> sync.no, at |-> reader.at, routes |-> reader.records]
     IN IF ~HoldsSync(sync.no)
        THEN EndSync("job_cancelled") /\ UNCHANGED <<meals, counted>>
        ELSE IF meals.sync # sync.no /\ ~Succeeds(capture)
        THEN EndSync("cortex_membership_regressed") /\ UNCHANGED <<meals, counted>>
        ELSE /\ IF meals.sync = sync.no THEN UNCHANGED <<meals, counted>>
                ELSE meals' = capture /\ counted' = counted \union Listed(capture.routes)
             /\ reader' = [reader EXCEPT !.phase = "finish"]
             /\ UNCHANGED <<sync, tabs, overlay>>
  /\ UNCHANGED <<moments, closures>>

\* The same closure ends the job, in another database.
FinishSync ==
  /\ reader.phase = "finish"
  /\ sync' = [sync EXCEPT !.status = "succeeded"] /\ overlay' = NoOverlay
  /\ reader' = NoReader /\ tabs' = AllIdle
  /\ UNCHANGED <<moments, closures, meals, counted>>

-----------------------------------------------------------------------------
\* No other closure runs between the two halves of a publication.
ReaderUnlocked == reader.phase # "finish"

CancelSync ==
  /\ ReaderUnlocked /\ sync.status \in {"queued", "running"}
  /\ sync' = [sync EXCEPT !.status = "cancelled"] /\ overlay' = NoOverlay
  /\ UNCHANGED <<moments, reader, tabs, closures, meals, counted>>

Returned == [sync EXCEPT !.status = IF sync.attempt < RouteTries THEN "queued" ELSE "failed"]

\* The lease runs out: the job is queued again, the reader goes, and what it was writing
\* may still be waiting for the lock.
LoseSync ==
  /\ ReaderUnlocked /\ sync.status = "running"
  /\ closures' = closures \union {[no |-> sync.no, route |-> tabs[t].route, content |-> reader.list[tabs[t].route]]
                                  : t \in {x \in Tab : tabs[x].at = "stage"}}
  /\ sync' = Returned /\ reader' = NoReader /\ tabs' = AllIdle
  /\ UNCHANGED <<moments, overlay, meals, counted>>

\* The process ends, also between the halves of a publication, and starts again: reset
\* drops the live rows.
RestartReading ==
  /\ sync.status = "running"
  /\ sync' = Returned /\ reader' = NoReader /\ tabs' = AllIdle
  /\ overlay' = NoOverlay /\ closures' = {}
  /\ UNCHANGED <<moments, meals, counted>>

\* Meals are taken and corrected; routes are added and taken back.
CortexMoves ==
  /\ Len(moments) <= MaxMoves
  /\ \E r \in Route, c \in Content \union {Unlisted} :
       Source[r] # c /\ moments' = Append(moments, [Source EXCEPT ![r] = c])
  /\ UNCHANGED <<sync, reader, tabs, overlay, closures, meals, counted>>

-----------------------------------------------------------------------------
RouteInit ==
  /\ moments \in {<<routes>> : routes \in Mornings}
  /\ sync = [no |-> 0, status |-> "none", attempt |-> 0, scoped |-> FALSE]
  /\ reader = NoReader /\ tabs = AllIdle /\ overlay = NoOverlay /\ closures = {}
  /\ meals = NoMeals /\ counted = {}

RouteNext ==
  \/ QueueSync \/ StartSync \/ ResolveScope \/ ReadList \/ StartOverlay
  \/ \E t \in Tab : TakeRoute(t) \/ ReadRoute(t) \/ StageRoute(t)
  \/ StageLate \/ EndPass \/ CheckList \/ NextPass \/ PublishMeals \/ FinishSync
  \/ CancelSync \/ LoseSync \/ RestartReading \/ CortexMoves

RouteSpec == RouteInit /\ [][RouteNext]_routeVars

-----------------------------------------------------------------------------
\* What the meal comparison shows of a route: the live run's row while its job may still
\* be run, and otherwise the publication's.
Shown(r) == IF HoldsSync(sync.no) /\ overlay.routes[r] # Unlisted THEN overlay.routes[r] ELSE meals.routes[r]

\* What is published is what Cortex showed at one moment, though its routes were read one
\* by one in two tabs while they moved: no mixture of revisions, none missing, none left over.
AtOneMoment == meals # NoMeals => meals.routes = moments[meals.at]

\* A route once published stays in every later publication of its day.
NothingLost == counted \subseteq Listed(meals.routes)

\* What is shown of a route is never older than the publication, also when the job was
\* interrupted after it had published, and whatever is still written for an attempt that is
\* gone.  (Nobody reads between the halves of a publication.)
ShownIsNoOlder ==
  ReaderUnlocked => \A r \in Route : Shown(r) # Unlisted =>
    \E k \in 1 .. Len(moments) : k >= meals.at /\ moments[k][r] = Shown(r)

\* The meals a member reads, published or live (collection.rs, meals/mod.rs, comparison.rs).
MealsAreTheDay == AtOneMoment /\ NothingLost /\ ShownIsNoOlder
=============================================================================
