---------------------------- MODULE ReadingProofs ----------------------------
(***************************************************************************)
(* Theorems about the reading of routes and about what a dashboard shows   *)
(* meanwhile.                                                              *)
(***************************************************************************)
EXTENDS RouteReading, LiveReads, FiniteSetTheorems, SequenceTheorems, WellFoundedInduction,
        TLAPS

-----------------------------------------------------------------------------
(***************************************************************************)
(* For any routes, tabs, attempts and changes at the provider: the meals   *)
(* of a day are those Cortex showed at one moment, and what is shown over  *)
(* them while a sync runs is not older.                                    *)
(*                                                                         *)
(* What an attempt is about to publish is its list of one moment with      *)
(* every record read since (NothingLost, ReaderStands); what is staged is  *)
(* of that sync and no earlier than the last publication (LiveStands),     *)
(* late writes included (LateStands).                                      *)
(***************************************************************************)

Rows == [Route -> Content \union {Unlisted}]
SyncRow == [no : Nat, status : {"none", "queued", "running", "succeeded", "failed", "cancelled"},
            attempt : Nat, scoped : BOOLEAN]
ReaderRow == [phase : {"none", "scope", "list", "start", "read", "check", "again", "publish", "finish"},
              list : Rows, pass : Nat, known : SUBSET Route, pending : SUBSET Route, records : Rows,
              beside : BOOLEAN, stopped : BOOLEAN, at : Nat]
TabRow == [at : {"idle", "page", "stage", "failed"}, route : Nat,
           error : {"none", "job_cancelled", "cortex_content_incomplete", "cortex_invalid_identity"}]
OverlayRow == [on : BOOLEAN, drivers : SUBSET Route, routes : Rows]
LateWrites == [no : Nat, route : Route, content : Content \union {Unlisted}]

RouteType ==
    /\ moments \in Seq(Rows) /\ Len(moments) > 0
    /\ sync \in SyncRow /\ reader \in ReaderRow /\ tabs \in [Tab -> TabRow]
    /\ overlay \in OverlayRow /\ closures \subseteq LateWrites
    /\ meals \in [sync : Nat, at : Nat, routes : Rows] /\ counted \subseteq Route

\* What Cortex has shown, of all routes or of one, not before the day was last published.
WasListed(routes) == \E k \in 1 .. Len(moments) : k >= meals.at /\ routes = moments[k]
WasSeen(content, r) == \E k \in 1 .. Len(moments) : k >= meals.at /\ moments[k][r] = content

\* The attempt in memory: it reads the routes of a list that Cortex showed, and what it is
\* about to publish is a moment.
ReaderStands ==
    /\ sync.no = 0 => sync.status = "none" /\ reader.phase = "none"
    /\ \A t \in Tab : tabs[t].at \in {"page", "stage"} => reader.phase = "read" /\ tabs[t].route \in Route
    /\ reader.phase \in {"start", "read", "check", "again", "publish"} => WasListed(reader.list)
    /\ reader.phase = "publish" => reader.at \in 1 .. Len(moments) /\ reader.records = moments[reader.at]

\* The publication is a moment; nothing is without a sync.
MealsStand ==
    /\ meals.at <= Len(moments)
    /\ meals.sync = 0 => meals = NoMeals
    /\ meals # NoMeals => meals.at \in 1 .. Len(moments) /\ meals.routes = moments[meals.at]

\* Between publications, what is shown over one, and what may still be, is of its time or later.
LiveStands == ReaderUnlocked => \A r \in Route : overlay.routes[r] # Unlisted => WasSeen(overlay.routes[r], r)
LateStands ==
    \A w \in closures : /\ w.no <= sync.no
                        /\ w.no = sync.no /\ ReaderUnlocked /\ sync.status # "succeeded" => WasSeen(w.content, w.route)

RouteInv == RouteType /\ ReaderStands /\ MealsStand /\ LiveStands /\ LateStands /\ NothingLost

-----------------------------------------------------------------------------
\* A set of naturals has a least member.
LEMMA LeastIsThere ==
    ASSUME NEW S, S \subseteq Nat, S # {}
    PROVE  (CHOOSE x \in S : \A o \in S : x <= o) \in S
<1> DEFINE less == OpToRel(<, Nat)
<1>1. IsWellFoundedOn(less, Nat)
  BY NatLessThanWellFounded
<1> HIDE DEF less
<1>2. \E x \in S : \A o \in S : ~ (<<o, x>> \in less)
  BY <1>1, WFMin, Zenon
<1>3. PICK x \in S : \A o \in S : ~ (<<o, x>> \in less)
  BY <1>2
<1>4. \A o \in S : ~(o < x)
  BY <1>3 DEF less, OpToRel
<1>5. \A o \in S : x <= o
  BY <1>4
<1> QED BY <1>5

LEMMA NothingIsThere ==
    /\ NoRoutes \in Rows /\ \A r \in Route : NoRoutes[r] = Unlisted
    /\ NoReader \in ReaderRow /\ NoReader.phase = "none"
    /\ AllIdle \in [Tab -> TabRow] /\ \A t \in Tab : AllIdle[t].at = "idle"
    /\ NoOverlay \in OverlayRow /\ NoOverlay.routes = NoRoutes
    /\ IdleTab \in TabRow /\ IdleTab.at = "idle"
    /\ NoMeals \in [sync : Nat, at : Nat, routes : Rows] /\ NoMeals.at = 0 /\ NoMeals.sync = 0
    /\ NoMeals.routes = NoRoutes
<1>1. NoRoutes \in Rows /\ \A r \in Route : NoRoutes[r] = Unlisted
  BY DEF NoRoutes, Rows
<1>2. IdleTab \in TabRow /\ IdleTab.at = "idle"
  BY DEF IdleTab, TabRow
<1>3. AllIdle \in [Tab -> TabRow] /\ \A t \in Tab : AllIdle[t].at = "idle"
  BY <1>2 DEF AllIdle
<1>4. NoReader \in ReaderRow /\ NoReader.phase = "none"
  BY <1>1 DEF NoReader, ReaderRow
<1>5. NoOverlay \in OverlayRow /\ NoOverlay.routes = NoRoutes
  BY <1>1 DEF NoOverlay, OverlayRow
<1>6. /\ NoMeals \in [sync : Nat, at : Nat, routes : Rows] /\ NoMeals.at = 0 /\ NoMeals.sync = 0
      /\ NoMeals.routes = NoRoutes
  BY <1>1 DEF NoMeals
<1> QED BY <1>1, <1>2, <1>3, <1>4, <1>5, <1>6

\* What is shown now is a moment, and later than the publication.
LEMMA SourceIsSince ==
    ASSUME RouteInv
    PROVE  Source \in Rows /\ WasListed(Source) /\ Len(moments) \in 1 .. Len(moments)
<1>1. Len(moments) \in Nat /\ Len(moments) > 0 /\ moments \in Seq(Rows) /\ meals.at <= Len(moments) /\ meals.at \in Nat
  BY DEF RouteInv, RouteType, MealsStand
<1>2. moments[Len(moments)] \in Rows
  BY <1>1
<1> QED BY <1>1, <1>2 DEF Source, WasListed

\* Of what was a moment, every route was seen.
LEMMA SinceIsSeen ==
    ASSUME NEW routes, WasListed(routes), NEW r \in Route
    PROVE  WasSeen(routes[r], r)
  BY DEF WasListed, WasSeen

-----------------------------------------------------------------------------
\* The attempt goes on, and nothing else moves but what is shown of it.
LEMMA ReaderKeepsInv ==
    ASSUME RouteInv, ReaderUnlocked, UNCHANGED <<moments, sync, closures, meals, counted>>,
           reader' \in ReaderRow, tabs' \in [Tab -> TabRow], overlay' \in OverlayRow,
           sync.no = 0 => reader'.phase = "none",
           \A t \in Tab : tabs'[t].at \in {"page", "stage"} => reader'.phase = "read" /\ tabs'[t].route \in Route,
           reader'.phase \in {"start", "read", "check", "again", "publish"} => WasListed(reader'.list),
           reader'.phase = "publish" => reader'.at \in 1 .. Len(moments) /\ reader'.records = moments[reader'.at],
           \A r \in Route : overlay'.routes[r] # Unlisted => WasSeen(overlay'.routes[r], r)
    PROVE  RouteInv'
<1>1. RouteType'
  BY DEF RouteInv, RouteType
<1>2. ReaderStands'
  BY DEF RouteInv, ReaderStands, WasListed
<1>3. MealsStand' /\ NothingLost'
  BY DEF RouteInv, MealsStand, NothingLost, Listed
<1>4. LiveStands'
  BY DEF LiveStands, WasSeen
<1>5. LateStands'
  BY DEF RouteInv, LateStands, WasSeen
<1> QED BY <1>1, <1>2, <1>3, <1>4, <1>5 DEF RouteInv

\* An attempt that ends leaves nothing in memory, and nothing of it is shown if the job was its.
LEMMA EndSyncKeepsInv ==
    ASSUME RouteInv, ReaderUnlocked, NEW code, EndSync(code), UNCHANGED <<moments, closures, meals, counted>>
    PROVE  RouteInv'
<1> DEFINE status == IF code \in Retryable /\ sync.attempt < RouteTries THEN "queued" ELSE "failed"
<1>1. reader' = NoReader /\ tabs' = AllIdle /\ sync \in SyncRow
  BY DEF EndSync, RouteInv, RouteType
<1>2. /\ sync' \in SyncRow /\ sync'.no = sync.no /\ (sync.no = 0 => sync'.status = "none")
      /\ overlay' \in {overlay, NoOverlay} /\ (sync'.status = "succeeded" <=> sync.status = "succeeded")
  <2>1. CASE HoldsSync(sync.no)
    <3>1. sync' = [sync EXCEPT !.status = status] /\ overlay' = NoOverlay
      BY <2>1 DEF EndSync
    <3>2. status \in {"queued", "failed"}
      OBVIOUS
    <3> HIDE DEF status
    <3>3. sync.status = "running" /\ sync.no # 0
      BY <2>1 DEF HoldsSync, RouteInv, ReaderStands
    <3> QED BY <1>1, <3>1, <3>2, <3>3 DEF SyncRow
  <2>2. CASE ~HoldsSync(sync.no)
    BY <1>1, <2>2 DEF EndSync, RouteInv, ReaderStands
  <2> QED BY <2>1, <2>2
<1>3. RouteType'
  BY <1>1, <1>2, NothingIsThere DEF RouteInv, RouteType
<1>4. ReaderStands'
  BY <1>1, <1>2, NothingIsThere DEF ReaderStands
<1>5. MealsStand' /\ NothingLost'
  BY DEF RouteInv, MealsStand, NothingLost, Listed
<1>6. LiveStands'
  BY <1>2, NothingIsThere DEF RouteInv, LiveStands, WasSeen
<1>7. LateStands'
  BY <1>2 DEF RouteInv, LateStands, WasSeen
<1> QED BY <1>3, <1>4, <1>5, <1>6, <1>7 DEF RouteInv

-----------------------------------------------------------------------------
LEMMA QueueSyncKeepsInv == ASSUME RouteInv, QueueSync PROVE RouteInv'
<1>1. sync \in SyncRow /\ sync.no \in Nat /\ closures \subseteq LateWrites /\ ReaderUnlocked /\ reader.phase = "none"
  BY NothingIsThere DEF QueueSync, RouteInv, RouteType, SyncRow, ReaderUnlocked
<1>2. sync' \in SyncRow /\ sync'.no = sync.no + 1 /\ sync'.status = "queued" /\ ReaderUnlocked'
  BY <1>1 DEF QueueSync, SyncRow, ReaderUnlocked
<1>3. RouteType'
  BY <1>2 DEF QueueSync, RouteInv, RouteType
<1>4. ReaderStands'
  BY <1>1, <1>2 DEF QueueSync, RouteInv, ReaderStands, WasListed
<1>5. MealsStand' /\ NothingLost'
  BY DEF QueueSync, RouteInv, MealsStand, NothingLost, Listed
<1>6. LiveStands'
  BY <1>1 DEF QueueSync, RouteInv, LiveStands, WasSeen
<1>7. LateStands'
  BY <1>1, <1>2 DEF QueueSync, RouteInv, LateStands, LateWrites
<1> QED BY <1>3, <1>4, <1>5, <1>6, <1>7 DEF RouteInv

LEMMA StartSyncKeepsInv == ASSUME RouteInv, StartSync PROVE RouteInv'
<1> DEFINE attempt == sync.attempt + 1
<1>1. sync \in SyncRow /\ reader \in ReaderRow /\ attempt \in Nat /\ ReaderUnlocked
      /\ reader.phase = "none" /\ sync.no # 0 /\ sync.status = "queued"
  BY NothingIsThere DEF StartSync, RouteInv, RouteType, ReaderStands, SyncRow, ReaderUnlocked
<1>2. sync' = [sync EXCEPT !.status = "running", !.attempt = attempt]
  BY <1>1 DEF StartSync, SyncRow
<1> HIDE DEF attempt
<1>3. sync' \in SyncRow /\ sync'.no = sync.no /\ sync'.status = "running"
  BY <1>1, <1>2 DEF SyncRow
<1>4. reader' \in ReaderRow /\ reader'.phase = "scope" /\ ReaderUnlocked'
  BY NothingIsThere DEF StartSync, ReaderRow, ReaderUnlocked
<1>5. RouteType'
  BY <1>3, <1>4 DEF StartSync, RouteInv, RouteType
<1>6. ReaderStands'
  BY <1>1, <1>3, <1>4 DEF StartSync, RouteInv, ReaderStands
<1>7. MealsStand' /\ NothingLost'
  BY DEF StartSync, RouteInv, MealsStand, NothingLost, Listed
<1>8. LiveStands' /\ LateStands'
  BY <1>1, <1>3 DEF StartSync, RouteInv, LiveStands, LateStands, WasSeen
<1> QED BY <1>5, <1>6, <1>7, <1>8 DEF RouteInv

\* What every step of the attempt finds.
LEMMA ReaderIs ==
    ASSUME RouteInv
    PROVE  /\ reader \in ReaderRow /\ tabs \in [Tab -> TabRow] /\ overlay \in OverlayRow
           /\ reader.list \in Rows /\ reader.records \in Rows
           /\ reader.phase # "none" => sync.no # 0
           /\ ReaderUnlocked => \A r \in Route : overlay.routes[r] # Unlisted => WasSeen(overlay.routes[r], r)
           /\ reader.phase # "read" => \A t \in Tab : tabs[t].at \notin {"page", "stage"}
  BY DEF RouteInv, RouteType, ReaderRow, ReaderStands, LiveStands

LEMMA ResolveScopeKeepsInv == ASSUME RouteInv, ResolveScope PROVE RouteInv'
<1>1. ReaderUnlocked /\ UNCHANGED <<moments, closures, meals, counted>> /\ reader.phase = "scope"
  BY DEF ResolveScope, ReaderUnlocked
<1>2. CASE reader' = [reader EXCEPT !.phase = "list"] /\ UNCHANGED <<sync, tabs, overlay>>
  <2>1. reader' \in ReaderRow /\ reader'.phase = "list"
    BY <1>2, ReaderIs DEF ReaderRow
  <2> QED BY <1>1, <1>2, <2>1, ReaderIs, ReaderKeepsInv
<1>3. CASE \E code \in {"cortex_station_unavailable", "cortex_content_incomplete"} : EndSync(code)
  BY <1>1, <1>3, EndSyncKeepsInv
<1> QED BY <1>2, <1>3 DEF ResolveScope

LEMMA ReadListKeepsInv == ASSUME RouteInv, ReadList PROVE RouteInv'
<1>1. ReaderUnlocked /\ UNCHANGED <<moments, closures, meals, counted>> /\ reader.phase = "list"
  BY DEF ReadList, ReaderUnlocked
<1>2. CASE reader' = [reader EXCEPT !.phase = "start", !.list = Source] /\ UNCHANGED <<sync, tabs, overlay>>
  <2>1. reader' \in ReaderRow /\ reader'.phase = "start" /\ reader'.list = Source
    BY <1>2, ReaderIs, SourceIsSince DEF ReaderRow
  <2> QED BY <1>1, <1>2, <2>1, ReaderIs, SourceIsSince, ReaderKeepsInv
<1>3. CASE EndSync("cortex_content_incomplete")
  BY <1>1, <1>3, EndSyncKeepsInv
<1> QED BY <1>2, <1>3 DEF ReadList

LEMMA PassReads ==
    ASSUME RouteInv, NEW list \in Rows, NEW n \in Nat
    PROVE  BeginPass(list, n) \in ReaderRow /\ BeginPass(list, n).phase = "read" /\ BeginPass(list, n).list = list
<1> DEFINE knownThen == reader.known \union Listed(list)
           pendingThen == {r \in Listed(list) : reader.records[r] # list[r]}
<1>1. reader \in ReaderRow
  BY DEF RouteInv, RouteType
<1>2. knownThen \subseteq Route /\ pendingThen \subseteq Route
  BY <1>1 DEF Listed, ReaderRow
<1>3. BeginPass(list, n) = [reader EXCEPT !.phase = "read", !.list = list, !.pass = n, !.stopped = FALSE,
                                     !.known = knownThen, !.pending = pendingThen]
  BY <1>1 DEF BeginPass, ReaderRow
<1> HIDE DEF knownThen, pendingThen
<1> QED BY <1>1, <1>2, <1>3 DEF ReaderRow

LEMMA StartLiveKeepsInv == ASSUME RouteInv, StartOverlay PROVE RouteInv'
<1>1. /\ ReaderUnlocked /\ UNCHANGED <<moments, closures, meals, counted>> /\ reader.phase = "start"
      /\ WasListed(reader.list) /\ reader.list \in Rows
  BY ReaderIs DEF StartOverlay, ReaderUnlocked, RouteInv, ReaderStands
<1>2. CASE HoldsSync(sync.no)
  <2> DEFINE drivers == Listed(reader.list)
             beside == Cardinality(Listed(reader.list)) > 1
             pass == BeginPass(reader.list, 1)
  <2>1. /\ overlay' = [on |-> TRUE, drivers |-> drivers, routes |-> NoRoutes]
        /\ reader' = [pass EXCEPT !.beside = beside] /\ UNCHANGED <<sync, tabs>>
    BY <1>2 DEF StartOverlay
  <2>2. drivers \subseteq Route /\ beside \in BOOLEAN
    BY DEF Listed
  <2>3. pass \in ReaderRow /\ pass.phase = "read" /\ pass.list = reader.list
    BY <1>1, PassReads
  <2> HIDE DEF drivers, beside, pass
  <2>4. overlay' \in OverlayRow /\ overlay'.routes = NoRoutes
    BY <2>1, <2>2, NothingIsThere DEF OverlayRow
  <2>5. reader' \in ReaderRow /\ reader'.phase = "read" /\ reader'.list = reader.list
    BY <2>1, <2>2, <2>3 DEF ReaderRow
  <2> QED BY <1>1, <2>1, <2>4, <2>5, ReaderIs, NothingIsThere, ReaderKeepsInv
<1>3. CASE EndSync("job_cancelled")
  BY <1>1, <1>3, EndSyncKeepsInv
<1> QED BY <1>2, <1>3 DEF StartOverlay

LEMMA NextPassKeepsInv == ASSUME RouteInv, NextPass PROVE RouteInv'
<1>1. /\ ReaderUnlocked /\ UNCHANGED <<moments, closures, meals, counted>> /\ reader.phase = "again"
      /\ WasListed(reader.list) /\ reader.list \in Rows
  BY ReaderIs DEF NextPass, ReaderUnlocked, RouteInv, ReaderStands
<1>2. CASE /\ overlay' = [overlay EXCEPT !.drivers = Listed(reader.list)]
           /\ reader' = BeginPass(reader.list, reader.pass + 1) /\ UNCHANGED <<sync, tabs>>
  <2>1. reader.pass + 1 \in Nat
    BY ReaderIs DEF ReaderRow
  <2>2. reader' \in ReaderRow /\ reader'.phase = "read" /\ reader'.list = reader.list
    BY <1>1, <1>2, <2>1, PassReads
  <2>3. Listed(reader.list) \subseteq Route
    BY DEF Listed
  <2>4. overlay' \in OverlayRow /\ overlay'.routes = overlay.routes
    BY <1>2, <2>3, ReaderIs DEF OverlayRow
  <2> QED BY <1>1, <1>2, <2>2, <2>4, ReaderIs, ReaderKeepsInv
<1>3. CASE \E code \in {"job_cancelled", "cortex_source_changed"} : EndSync(code)
  BY <1>1, <1>3, EndSyncKeepsInv
<1> QED BY <1>2, <1>3 DEF NextPass

-----------------------------------------------------------------------------
\* A tab that reads.
LEMMA ReadingTabIs ==
    ASSUME RouteInv, NEW t \in Tab, tabs[t].at \in {"page", "stage"}
    PROVE  ReaderUnlocked /\ reader.phase = "read" /\ tabs[t].route \in Route /\ sync.no # 0
  BY DEF RouteInv, ReaderStands, ReaderUnlocked

\* One tab goes on, while the list that is read stays.
LEMMA TabKeepsInv ==
    ASSUME RouteInv, UNCHANGED <<moments, sync, closures, meals, counted>>, reader.phase = "read",
           NEW t \in Tab, tabs' \in [Tab -> TabRow], \A o \in Tab \ {t} : tabs'[o] = tabs[o],
           tabs'[t].at \in {"page", "stage"} => tabs'[t].route \in Route,
           reader' \in ReaderRow, reader'.phase = "read", reader'.list = reader.list,
           overlay' \in OverlayRow,
           \A r \in Route : overlay'.routes[r] # Unlisted => WasSeen(overlay'.routes[r], r)
    PROVE  RouteInv'
<1>1. ReaderUnlocked /\ sync.no # 0 /\ WasListed(reader.list)
  BY DEF ReaderUnlocked, RouteInv, ReaderStands
<1>2. \A o \in Tab : tabs'[o].at \in {"page", "stage"} => tabs'[o].route \in Route
  BY DEF RouteInv, ReaderStands
<1> QED BY <1>1, <1>2, ReaderKeepsInv

LEMMA FailTabKeepsInv ==
    ASSUME RouteInv, NEW t \in Tab, reader.phase = "read",
           NEW code \in {"job_cancelled", "cortex_content_incomplete", "cortex_invalid_identity"},
           FailTab(t, code), UNCHANGED <<moments, sync, overlay, closures, meals, counted>>
    PROVE  RouteInv'
<1> DEFINE tab == [IdleTab EXCEPT !.at = "failed", !.error = code]
<1>1. tab \in TabRow /\ tab.at = "failed"
  BY NothingIsThere DEF TabRow
<1>2. tabs' = [tabs EXCEPT ![t] = tab] /\ reader' = [reader EXCEPT !.stopped = TRUE]
  BY DEF FailTab
<1> HIDE DEF tab
<1>3. tabs' \in [Tab -> TabRow] /\ tabs'[t] = tab /\ \A o \in Tab \ {t} : tabs'[o] = tabs[o]
  BY <1>1, <1>2, ReaderIs
<1>4. reader' \in ReaderRow /\ reader'.phase = "read" /\ reader'.list = reader.list
  BY <1>2, ReaderIs DEF ReaderRow
<1>5. ReaderUnlocked
  BY DEF ReaderUnlocked
<1> QED BY <1>1, <1>3, <1>4, <1>5, ReaderIs, TabKeepsInv

LEMMA TakeRouteKeepsInv == ASSUME RouteInv, NEW t \in Tab, TakeRoute(t) PROVE RouteInv'
<1>1. reader.phase = "read" /\ UNCHANGED <<moments, sync, overlay, closures, meals, counted>> /\ ReaderUnlocked
  BY DEF TakeRoute, ReaderUnlocked
<1>2. CASE HoldsSync(sync.no)
  <2> DEFINE r == CHOOSE x \in reader.pending : \A o \in reader.pending : x <= o
             tab == [IdleTab EXCEPT !.at = "page", !.route = r]
             pendingThen == reader.pending \ {r}
  <2>1. tabs' = [tabs EXCEPT ![t] = tab] /\ reader' = [reader EXCEPT !.pending = pendingThen]
    <3>1. pendingThen = reader.pending \ {r}
      OBVIOUS
    <3> HIDE DEF r
    <3> QED BY <1>2, ReaderIs DEF TakeRoute, ReaderRow, r
  <2>2. r \in Route
    <3>1. reader.pending \subseteq Route
      BY ReaderIs DEF ReaderRow
    <3>2. reader.pending \subseteq Nat /\ reader.pending # {}
      BY <3>1, RouteReadingAssumption DEF TakeRoute
    <3> QED BY <3>1, <3>2, LeastIsThere
  <2>3. pendingThen \subseteq Route
    BY ReaderIs DEF ReaderRow
  <2> HIDE DEF r, pendingThen
  <2>4. tab \in TabRow /\ tab.route = r
    BY <2>2, NothingIsThere, RouteReadingAssumption DEF TabRow
  <2> HIDE DEF tab
  <2>5. tabs' \in [Tab -> TabRow] /\ tabs'[t] = tab /\ \A o \in Tab \ {t} : tabs'[o] = tabs[o]
    BY <2>1, <2>4, ReaderIs
  <2>6. reader' \in ReaderRow /\ reader'.phase = "read" /\ reader'.list = reader.list
    BY <1>1, <2>1, <2>3, ReaderIs DEF ReaderRow
  <2> QED BY <1>1, <2>2, <2>4, <2>5, <2>6, ReaderIs, TabKeepsInv
<1>3. CASE FailTab(t, "job_cancelled")
  BY <1>1, <1>3, FailTabKeepsInv
<1> QED BY <1>2, <1>3 DEF TakeRoute

LEMMA ReadRouteKeepsInv == ASSUME RouteInv, NEW t \in Tab, ReadRoute(t) PROVE RouteInv'
<1> DEFINE r == tabs[t].route
<1>1. /\ reader.phase = "read" /\ UNCHANGED <<moments, sync, overlay, closures, meals, counted>> /\ ReaderUnlocked
      /\ r \in Route /\ tabs[t] \in TabRow
  BY ReadingTabIs, ReaderIs DEF ReadRoute
<1>2. CASE tabs' = [tabs EXCEPT ![t].at = "stage"] /\ UNCHANGED reader
  <2> DEFINE tab == [tabs[t] EXCEPT !.at = "stage"]
  <2>1. tab \in TabRow /\ tab.route = r
    BY <1>1 DEF TabRow
  <2>2. tabs' = [tabs EXCEPT ![t] = tab]
    BY <1>2, ReaderIs
  <2> HIDE DEF tab
  <2>3. tabs' \in [Tab -> TabRow] /\ tabs'[t] = tab /\ \A o \in Tab \ {t} : tabs'[o] = tabs[o]
    BY <2>1, <2>2, ReaderIs
  <2> QED BY <1>1, <1>2, <2>1, <2>3, ReaderIs, TabKeepsInv
<1>3. CASE tabs' = [tabs EXCEPT ![t] = IdleTab] /\ reader' = [reader EXCEPT !.records[r] = Unlisted]
  <2> DEFINE records == [reader.records EXCEPT ![r] = Unlisted]
  <2>1. records \in Rows
    BY ReaderIs DEF Rows
  <2>2. reader' = [reader EXCEPT !.records = records]
    BY <1>3
  <2> HIDE DEF records
  <2>3. reader' \in ReaderRow /\ reader'.phase = "read" /\ reader'.list = reader.list
    BY <1>1, <2>1, <2>2, ReaderIs DEF ReaderRow
  <2>4. tabs' \in [Tab -> TabRow] /\ tabs'[t].at = "idle" /\ \A o \in Tab \ {t} : tabs'[o] = tabs[o]
    BY <1>3, NothingIsThere, ReaderIs
  <2> QED BY <1>1, <2>3, <2>4, ReaderIs, TabKeepsInv
<1>4. CASE \E code \in {"cortex_content_incomplete", "cortex_invalid_identity"} : FailTab(t, code)
  BY <1>1, <1>4, FailTabKeepsInv
<1> QED BY <1>2, <1>3, <1>4 DEF ReadRoute

\* A route that is written becomes visible, unless its run is not there.
LEMMA ShowsIsSeen ==
    ASSUME RouteInv, ReaderUnlocked, NEW no, NEW r \in Route, NEW content \in Content \union {Unlisted},
           HoldsSync(no) => WasSeen(content, r)
    PROVE  /\ Shows(no, r, content) \in OverlayRow
           /\ \A o \in Route : Shows(no, r, content).routes[o] # Unlisted
                               => WasSeen(Shows(no, r, content).routes[o], o)
<1> DEFINE routes == [overlay.routes EXCEPT ![r] = content]
<1>1. overlay \in OverlayRow /\ overlay.routes \in Rows
  BY ReaderIs DEF OverlayRow
<1>2. CASE HoldsSync(no) /\ overlay.on
  <2>1. Shows(no, r, content) = [overlay EXCEPT !.routes = routes]
    BY <1>2 DEF Shows
  <2>2. routes \in Rows /\ \A o \in Route : routes[o] # Unlisted => WasSeen(routes[o], o)
    BY <1>1, <1>2, ReaderIs DEF Rows
  <2> HIDE DEF routes
  <2> QED BY <1>1, <2>1, <2>2 DEF OverlayRow
<1>3. CASE ~(HoldsSync(no) /\ overlay.on)
  BY <1>1, <1>3, ReaderIs DEF Shows
<1> QED BY <1>2, <1>3

LEMMA StageRouteKeepsInv == ASSUME RouteInv, NEW t \in Tab, StageRoute(t) PROVE RouteInv'
<1> DEFINE r == tabs[t].route
           content == reader.list[r]
<1>1. /\ reader.phase = "read" /\ UNCHANGED <<moments, sync, closures, meals, counted>> /\ ReaderUnlocked
      /\ r \in Route
  BY ReadingTabIs DEF StageRoute
<1>2. content \in Content \union {Unlisted} /\ WasSeen(content, r)
  <2>1. WasListed(reader.list) /\ reader.list \in Rows
    BY <1>1, ReaderIs DEF RouteInv, ReaderStands
  <2> QED BY <1>1, <2>1, SinceIsSeen DEF Rows
<1>3. CASE HoldsSync(sync.no) /\ overlay.on
  <2> DEFINE records == [reader.records EXCEPT ![r] = content]
  <2>1. /\ overlay' = Shows(sync.no, r, content) /\ tabs' = [tabs EXCEPT ![t] = IdleTab]
        /\ reader' = [reader EXCEPT !.records[r] = content]
    BY <1>3 DEF StageRoute
  <2>2. reader' = [reader EXCEPT !.records = records]
    BY <2>1
  <2>3. records \in Rows
    BY <1>2, ReaderIs DEF Rows
  <2> HIDE DEF records, content, r
  <2>4. reader' \in ReaderRow /\ reader'.phase = "read" /\ reader'.list = reader.list
    BY <1>1, <2>2, <2>3, ReaderIs DEF ReaderRow
  <2>5. tabs' \in [Tab -> TabRow] /\ tabs'[t].at = "idle" /\ \A o \in Tab \ {t} : tabs'[o] = tabs[o]
    BY <2>1, NothingIsThere, ReaderIs
  <2>6. overlay' \in OverlayRow /\ \A o \in Route : overlay'.routes[o] # Unlisted => WasSeen(overlay'.routes[o], o)
    BY <1>1, <1>2, <2>1, ShowsIsSeen
  <2> QED BY <1>1, <2>4, <2>5, <2>6, TabKeepsInv
<1>4. CASE FailTab(t, "job_cancelled") /\ UNCHANGED overlay
  BY <1>1, <1>4, FailTabKeepsInv
<1> QED BY <1>3, <1>4 DEF StageRoute

LEMMA StageLateKeepsInv == ASSUME RouteInv, StageLate PROVE RouteInv'
<1>1. PICK w \in closures : closures' = closures \ {w} /\ overlay' = Shows(w.no, w.route, w.content)
  BY DEF StageLate
<1>2. UNCHANGED <<moments, sync, reader, tabs, meals, counted>>
  BY DEF StageLate
<1>3. w.route \in Route /\ w.content \in Content \union {Unlisted}
  BY DEF RouteInv, RouteType, LateWrites
<1>4. overlay' \in OverlayRow
  <2>1. CASE HoldsSync(w.no) /\ overlay.on
    <3> DEFINE routes == [overlay.routes EXCEPT ![w.route] = w.content]
    <3>1. overlay' = [overlay EXCEPT !.routes = routes]
      BY <1>1, <2>1 DEF Shows
    <3>2. routes \in Rows
      BY <1>3, ReaderIs DEF OverlayRow, Rows
    <3> HIDE DEF routes
    <3> QED BY <3>1, <3>2, ReaderIs DEF OverlayRow
  <2>2. CASE ~(HoldsSync(w.no) /\ overlay.on)
    BY <1>1, <2>2, ReaderIs DEF Shows
  <2> QED BY <2>1, <2>2
<1>5. RouteType'
  BY <1>1, <1>2, <1>4 DEF RouteInv, RouteType
<1>6. ReaderStands' /\ MealsStand' /\ NothingLost'
  BY <1>2 DEF RouteInv, ReaderStands, WasListed, MealsStand, NothingLost, Listed
<1>7. LiveStands'
  <2> SUFFICES ASSUME ReaderUnlocked
               PROVE  \A o \in Route : overlay'.routes[o] # Unlisted => WasSeen(overlay'.routes[o], o)
    BY <1>2 DEF LiveStands, ReaderUnlocked, WasSeen
  <2>1. HoldsSync(w.no) => WasSeen(w.content, w.route)
    BY DEF HoldsSync, RouteInv, LateStands
  <2> QED BY <1>1, <1>3, <2>1, ShowsIsSeen
<1>8. LateStands'
  BY <1>1, <1>2 DEF RouteInv, LateStands, ReaderUnlocked, WasSeen
<1> QED BY <1>5, <1>6, <1>7, <1>8 DEF RouteInv

LEMMA EndPassKeepsInv == ASSUME RouteInv, EndPass PROVE RouteInv'
<1>1. reader.phase = "read" /\ ReaderUnlocked /\ UNCHANGED <<moments, closures, meals, counted>> /\ WasListed(reader.list)
  BY DEF EndPass, ReaderUnlocked, RouteInv, ReaderStands
<1>2. ASSUME NEW code, EndSync(code) PROVE RouteInv'
  BY <1>1, <1>2, EndSyncKeepsInv
<1>3. CASE /\ FailedTabs = {} /\ reader' = [reader EXCEPT !.phase = "check"] /\ UNCHANGED <<sync, tabs, overlay>>
  <2>1. reader' \in ReaderRow /\ reader'.phase = "check" /\ reader'.list = reader.list
    BY <1>3, ReaderIs DEF ReaderRow
  <2>2. \A t \in Tab : tabs[t].at = "idle"
    BY <1>3 DEF EndPass, TabsEnded, FailedTabs
  <2> QED BY <1>1, <1>3, <2>1, <2>2, ReaderIs, ReaderKeepsInv
<1> QED BY <1>2, <1>3 DEF EndPass

-----------------------------------------------------------------------------
\* Records that are as many as the list names and agree with it on each are the list.
LEMMA AgreeingIsEqual ==
    ASSUME NEW next \in Rows, reader.records \in Rows, Agrees(next)
    PROVE  reader.records = next
<1> DEFINE S == Listed(reader.records)
           T == Listed(next)
<1>1. T \subseteq S /\ S \subseteq Route /\ T \subseteq Route
  BY DEF Agrees, Listed
<1>2. IsFiniteSet(S) /\ Cardinality(S) = Cardinality(T)
  BY <1>1, FS_Subset, RouteReadingAssumption DEF Agrees
<1>3. S = T
  <2> HIDE DEF S, T
  <2> QED BY <1>1, <1>2, FS_Subset
<1>4. \A r \in Route : reader.records[r] = next[r]
  BY <1>3 DEF Agrees, Listed
<1> QED BY <1>4 DEF Rows

LEMMA CheckListKeepsInv == ASSUME RouteInv, CheckList PROVE RouteInv'
<1>1. reader.phase = "check" /\ ReaderUnlocked /\ UNCHANGED <<moments, closures, meals, counted>> /\ WasListed(reader.list)
  BY DEF CheckList, ReaderUnlocked, RouteInv, ReaderStands
<1>2. Source \in Rows /\ WasListed(Source) /\ Len(moments) \in 1 .. Len(moments) /\ Len(moments) \in Nat
      /\ Source = moments[Len(moments)]
  BY SourceIsSince DEF Source, RouteInv, RouteType
<1>3. CASE /\ Agrees(Source) /\ reader' = [reader EXCEPT !.phase = "publish", !.at = Len(moments)]
           /\ UNCHANGED <<sync, tabs, overlay>>
  <2>1. /\ reader' \in ReaderRow /\ reader'.phase = "publish" /\ reader'.list = reader.list
        /\ reader'.at = Len(moments) /\ reader'.records = reader.records
    BY <1>2, <1>3, ReaderIs DEF ReaderRow
  <2>2. reader.records = Source
    BY <1>2, <1>3, ReaderIs, AgreeingIsEqual
  <2> QED BY <1>1, <1>2, <1>3, <2>1, <2>2, ReaderIs, ReaderKeepsInv
<1>4. CASE reader' = [reader EXCEPT !.phase = "again", !.list = Source] /\ UNCHANGED <<sync, tabs, overlay>>
  <2>1. reader' \in ReaderRow /\ reader'.phase = "again" /\ reader'.list = Source
    BY <1>2, <1>4, ReaderIs DEF ReaderRow
  <2> QED BY <1>1, <1>2, <1>4, <2>1, ReaderIs, ReaderKeepsInv
<1>5. ASSUME NEW code, EndSync(code) PROVE RouteInv'
  BY <1>1, <1>5, EndSyncKeepsInv
<1> QED BY <1>3, <1>4, <1>5 DEF CheckList

LEMMA PublishMealsKeepsInv == ASSUME RouteInv, PublishMeals PROVE RouteInv'
<1>1. /\ reader.phase = "publish" /\ ReaderUnlocked /\ UNCHANGED <<moments, closures>> /\ sync.no # 0
      /\ reader.at \in 1 .. Len(moments) /\ reader.records = moments[reader.at]
      /\ Len(moments) \in Nat
  BY ReaderIs DEF PublishMeals, ReaderUnlocked, RouteInv, RouteType, ReaderStands
<1>2. ASSUME NEW code, EndSync(code), UNCHANGED <<meals, counted>> PROVE RouteInv'
  BY <1>1, <1>2, EndSyncKeepsInv
<1>3. CASE /\ IF meals.sync = sync.no THEN UNCHANGED <<meals, counted>>
              ELSE /\ Succeeds([sync |-> sync.no, at |-> reader.at, routes |-> reader.records])
                   /\ meals' = [sync |-> sync.no, at |-> reader.at, routes |-> reader.records]
                   /\ counted' = counted \union Listed(reader.records)
           /\ reader' = [reader EXCEPT !.phase = "finish"] /\ UNCHANGED <<sync, tabs, overlay>>
  <2>1. reader' \in ReaderRow /\ reader'.phase = "finish" /\ ~ReaderUnlocked'
    BY <1>3, ReaderIs DEF ReaderRow, ReaderUnlocked
  <2>2. /\ meals' \in [sync : Nat, at : Nat, routes : Rows] /\ counted' \subseteq Route
        /\ MealsStand' /\ NothingLost'
    <3>1. CASE meals.sync = sync.no
      BY <1>1, <1>3, <3>1 DEF RouteInv, RouteType, MealsStand, NothingLost, Listed
    <3>2. CASE meals.sync # sync.no
      <4>1. sync.no \in Nat /\ reader.at \in Nat /\ reader.records \in Rows
        BY ReaderIs DEF RouteInv, RouteType, SyncRow, ReaderRow
      <4>2. /\ meals' = [sync |-> sync.no, at |-> reader.at, routes |-> reader.records]
            /\ counted' = counted \union Listed(reader.records)
        BY <1>3, <3>2
      <4>3. Listed(meals.routes) \subseteq Listed(reader.records)
        <5>1. CASE meals.sync = 0
          BY <5>1, NothingIsThere DEF RouteInv, MealsStand, Listed
        <5>2. CASE meals.sync # 0
          BY <1>3, <3>2, <5>2 DEF Succeeds
        <5> QED BY <5>1, <5>2
      <4>4. meals' \in [sync : Nat, at : Nat, routes : Rows] /\ counted' \subseteq Route
        BY <4>1, <4>2 DEF RouteInv, RouteType, Listed
      <4>5. MealsStand'
        BY <1>1, <4>1, <4>2 DEF MealsStand
      <4>6. NothingLost'
        <5>1. meals'.routes = reader.records
          BY <4>2
        <5>2. Listed(meals.routes) \subseteq Listed(reader.records) /\ counted \subseteq Listed(meals.routes)
          BY <4>3 DEF RouteInv, NothingLost
        <5>3. NothingLost' <=> counted' \subseteq Listed(reader.records)
          BY <5>1 DEF NothingLost, Listed
        <5> QED BY <4>2, <5>2, <5>3
      <4> QED BY <4>4, <4>5, <4>6
    <3> QED BY <3>1, <3>2
  <2>3. RouteType'
    BY <1>1, <1>3, <2>1, <2>2 DEF RouteInv, RouteType
  <2>4. ReaderStands'
    BY <1>1, <1>3, <2>1, ReaderIs DEF ReaderStands
  <2>5. LiveStands' /\ LateStands'
    BY <1>1, <1>3, <2>1 DEF RouteInv, LiveStands, LateStands
  <2> QED BY <2>2, <2>3, <2>4, <2>5 DEF RouteInv
<1> QED BY <1>2, <1>3 DEF PublishMeals

LEMMA FinishSyncKeepsInv == ASSUME RouteInv, FinishSync PROVE RouteInv'
<1>1. /\ reader' = NoReader /\ tabs' = AllIdle /\ overlay' = NoOverlay /\ sync.no # 0 /\ sync \in SyncRow
      /\ UNCHANGED <<moments, closures, meals, counted>> /\ sync' = [sync EXCEPT !.status = "succeeded"]
  BY ReaderIs DEF FinishSync, RouteInv, RouteType
<1>2. sync' \in SyncRow /\ sync'.no = sync.no /\ sync'.status = "succeeded"
  BY <1>1 DEF SyncRow
<1>3. RouteType'
  BY <1>1, <1>2, NothingIsThere DEF RouteInv, RouteType
<1>4. ReaderStands'
  BY <1>1, <1>2, NothingIsThere DEF ReaderStands
<1>5. MealsStand' /\ NothingLost'
  BY <1>1 DEF RouteInv, MealsStand, NothingLost, Listed
<1>6. LiveStands' /\ LateStands'
  BY <1>1, <1>2, NothingIsThere DEF RouteInv, LiveStands, LateStands
<1> QED BY <1>3, <1>4, <1>5, <1>6 DEF RouteInv

LEMMA CancelSyncKeepsInv == ASSUME RouteInv, CancelSync PROVE RouteInv'
<1>1. /\ ReaderUnlocked /\ overlay' = NoOverlay /\ sync.no # 0 /\ sync \in SyncRow /\ sync.status # "succeeded"
      /\ UNCHANGED <<moments, reader, tabs, closures, meals, counted>>
      /\ sync' = [sync EXCEPT !.status = "cancelled"]
  BY DEF CancelSync, RouteInv, RouteType, ReaderStands
<1>2. sync' \in SyncRow /\ sync'.no = sync.no
  BY <1>1 DEF SyncRow
<1>3. RouteType'
  BY <1>1, <1>2, NothingIsThere DEF RouteInv, RouteType
<1>4. ReaderStands'
  BY <1>1, <1>2 DEF RouteInv, ReaderStands, WasListed
<1>5. MealsStand' /\ NothingLost'
  BY <1>1 DEF RouteInv, MealsStand, NothingLost, Listed
<1>6. LiveStands' /\ LateStands'
  BY <1>1, <1>2, NothingIsThere DEF RouteInv, LiveStands, LateStands, WasSeen
<1> QED BY <1>3, <1>4, <1>5, <1>6 DEF RouteInv

\* The job of an attempt that is lost is queued again, or has failed.
LEMMA ReturnedIs ==
    ASSUME RouteInv, sync.status = "running"
    PROVE  Returned \in SyncRow /\ Returned.no = sync.no /\ sync.no # 0
<1> DEFINE status == IF sync.attempt < RouteTries THEN "queued" ELSE "failed"
<1>1. status \in {"queued", "failed"} /\ sync \in SyncRow /\ Returned = [sync EXCEPT !.status = status]
  BY DEF Returned, RouteInv, RouteType
<1> HIDE DEF status
<1> QED BY <1>1 DEF SyncRow, RouteInv, ReaderStands

LEMMA LoseSyncKeepsInv == ASSUME RouteInv, LoseSync PROVE RouteInv'
<1> DEFINE left == {[no |-> sync.no, route |-> tabs[t].route, content |-> reader.list[tabs[t].route]]
                    : t \in {x \in Tab : tabs[x].at = "stage"}}
<1>1. ReaderUnlocked /\ sync.status = "running" /\ sync' = Returned /\ reader' = NoReader /\ tabs' = AllIdle
      /\ UNCHANGED <<moments, overlay, meals, counted>> /\ closures' = closures \union left
  BY DEF LoseSync
<1>2. \A w \in left : w \in LateWrites /\ w.no = sync.no /\ WasSeen(w.content, w.route)
  <2> SUFFICES ASSUME NEW t \in Tab, tabs[t].at = "stage", NEW w,
                      w = [no |-> sync.no, route |-> tabs[t].route, content |-> reader.list[tabs[t].route]]
               PROVE  w \in LateWrites /\ w.no = sync.no /\ WasSeen(w.content, w.route)
    OBVIOUS
  <2>1. tabs[t].route \in Route /\ WasListed(reader.list) /\ reader.list \in Rows /\ sync.no \in Nat
    BY ReadingTabIs, ReaderIs DEF RouteInv, RouteType, SyncRow, ReaderStands
  <2> QED BY <2>1, SinceIsSeen DEF LateWrites, Rows
<1> HIDE DEF left
<1>3. sync' \in SyncRow /\ sync'.no = sync.no /\ sync.no # 0 /\ sync.no \in Nat
  BY <1>1, ReturnedIs DEF SyncRow
<1>4. RouteType'
  BY <1>1, <1>2, <1>3, NothingIsThere DEF RouteInv, RouteType
<1>5. ReaderStands'
  BY <1>1, <1>3, NothingIsThere DEF ReaderStands
<1>6. MealsStand' /\ NothingLost'
  BY <1>1 DEF RouteInv, MealsStand, NothingLost, Listed
<1>7. LiveStands'
  BY <1>1 DEF RouteInv, LiveStands, WasSeen
<1>8. LateStands'
  BY <1>1, <1>2, <1>3 DEF RouteInv, LateStands, WasSeen
<1> QED BY <1>4, <1>5, <1>6, <1>7, <1>8 DEF RouteInv

LEMMA RestartReadingKeepsInv == ASSUME RouteInv, RestartReading PROVE RouteInv'
<1>1. sync.status = "running" /\ sync' = Returned /\ reader' = NoReader /\ tabs' = AllIdle
      /\ UNCHANGED <<moments, meals, counted>> /\ closures' = {} /\ overlay' = NoOverlay
  BY DEF RestartReading
<1>2. sync' \in SyncRow /\ sync'.no = sync.no /\ sync.no # 0
  BY <1>1, ReturnedIs
<1>3. RouteType'
  BY <1>1, <1>2, NothingIsThere DEF RouteInv, RouteType
<1>4. ReaderStands'
  BY <1>1, <1>2, NothingIsThere DEF ReaderStands
<1>5. MealsStand' /\ NothingLost'
  BY <1>1 DEF RouteInv, MealsStand, NothingLost, Listed
<1>6. LiveStands' /\ LateStands'
  BY <1>1, NothingIsThere DEF LiveStands, LateStands
<1> QED BY <1>3, <1>4, <1>5, <1>6 DEF RouteInv

\* What Cortex has shown stays, and something is shown after it.
LEMMA CortexMovesKeepsInv == ASSUME RouteInv, CortexMoves PROVE RouteInv'
<1>1. UNCHANGED <<sync, reader, tabs, overlay, closures, meals, counted>>
  BY DEF CortexMoves
<1>2. /\ moments' \in Seq(Rows) /\ Len(moments) \in Nat /\ Len(moments') = Len(moments) + 1
      /\ \A k \in 1 .. Len(moments) : moments'[k] = moments[k]
  <2>1. PICK r \in Route, c \in Content \union {Unlisted} : moments' = Append(moments, [Source EXCEPT ![r] = c])
    BY DEF CortexMoves
  <2> DEFINE moved == [Source EXCEPT ![r] = c]
  <2>2. moved \in Rows
    BY SourceIsSince DEF Rows
  <2> HIDE DEF moved
  <2>3. moments' = Append(moments, moved) /\ moments \in Seq(Rows)
    BY <2>1 DEF moved, RouteInv, RouteType
  <2> QED BY <2>2, <2>3
<1>3. /\ \A routes : WasListed(routes) => WasListed(routes)'
      /\ \A content, r : WasSeen(content, r) => WasSeen(content, r)'
  BY <1>1, <1>2 DEF WasListed, WasSeen
<1>4. RouteType'
  BY <1>1, <1>2 DEF RouteInv, RouteType
<1>5. ReaderStands'
  BY <1>1, <1>2, <1>3 DEF RouteInv, ReaderStands
<1>6. MealsStand' /\ NothingLost'
  BY <1>1, <1>2 DEF RouteInv, RouteType, MealsStand, NothingLost, Listed
<1>7. LiveStands' /\ LateStands'
  BY <1>1, <1>3 DEF RouteInv, LiveStands, LateStands, ReaderUnlocked
<1> QED BY <1>4, <1>5, <1>6, <1>7 DEF RouteInv

LEMMA InitRouteInv == ASSUME RouteInit PROVE RouteInv
<1>1. PICK routes \in Mornings : moments = <<routes>>
  BY DEF RouteInit
<1>2. moments \in Seq(Rows) /\ Len(moments) = 1
  BY <1>1, RouteReadingAssumption DEF Rows, Unlisted
<1>3. sync \in SyncRow /\ sync.no = 0 /\ sync.status = "none"
  BY DEF RouteInit, SyncRow
<1>4. RouteType
  BY <1>2, <1>3, NothingIsThere DEF RouteInit, RouteType
<1>5. ReaderStands /\ MealsStand
  BY <1>2, <1>3, NothingIsThere DEF RouteInit, ReaderStands, MealsStand
<1>6. LiveStands /\ LateStands /\ NothingLost
  BY NothingIsThere DEF RouteInit, LiveStands, LateStands, NothingLost
<1> QED BY <1>4, <1>5, <1>6 DEF RouteInv

LEMMA RouteNextKeepsInv == ASSUME RouteInv, [RouteNext]_routeVars PROVE RouteInv'
<1>1. CASE UNCHANGED routeVars
  <2>1. RouteType' /\ ReaderStands' /\ MealsStand'
    BY <1>1 DEF RouteInv, RouteType, ReaderStands, WasListed, MealsStand, routeVars
  <2>2. LiveStands' /\ LateStands' /\ NothingLost'
    BY <1>1 DEF RouteInv, LiveStands, LateStands, WasSeen, ReaderUnlocked, NothingLost, Listed, routeVars
  <2> QED BY <2>1, <2>2 DEF RouteInv
<1>2. ASSUME NEW t \in Tab, TakeRoute(t) \/ ReadRoute(t) \/ StageRoute(t) PROVE RouteInv'
  BY <1>2, TakeRouteKeepsInv, ReadRouteKeepsInv, StageRouteKeepsInv
<1> QED BY <1>1, <1>2, QueueSyncKeepsInv, StartSyncKeepsInv, ResolveScopeKeepsInv, ReadListKeepsInv,
           StartLiveKeepsInv, StageLateKeepsInv, EndPassKeepsInv, CheckListKeepsInv, NextPassKeepsInv,
           PublishMealsKeepsInv, FinishSyncKeepsInv, CancelSyncKeepsInv, LoseSyncKeepsInv,
           RestartReadingKeepsInv, CortexMovesKeepsInv DEF RouteNext

\* Every state of the meals' reading satisfies the invariant.
THEOREM RouteInvHolds == RouteSpec => []RouteInv
<1>1. RouteInit => RouteInv
  BY InitRouteInv
<1>2. RouteInv /\ [RouteNext]_routeVars => RouteInv'
  BY RouteNextKeepsInv
<1> QED BY <1>1, <1>2, PTL DEF RouteSpec

\* The meals of a day are what Cortex showed at one moment, lose no route once published, and are
\* never shown from before their publication, however the routes moved while two tabs read them
\* and whatever an attempt that is gone still writes.
THEOREM MealsAreTheDayHolds == RouteSpec => []MealsAreTheDay
<1>1. RouteInv => MealsAreTheDay
  <2> SUFFICES ASSUME RouteInv PROVE MealsAreTheDay
    OBVIOUS
  <2>1. AtOneMoment /\ NothingLost
    BY DEF RouteInv, MealsStand, AtOneMoment
  <2>2. ShownIsNoOlder
    <3> SUFFICES ASSUME ReaderUnlocked, NEW r \in Route, Shown(r) # Unlisted PROVE WasSeen(Shown(r), r)
      BY DEF ShownIsNoOlder, WasSeen
    <3>1. CASE HoldsSync(sync.no) /\ overlay.routes[r] # Unlisted
      BY <3>1 DEF Shown, RouteInv, LiveStands
    <3>2. CASE ~(HoldsSync(sync.no) /\ overlay.routes[r] # Unlisted)
      <4>1. Shown(r) = meals.routes[r] /\ meals # NoMeals
        BY <3>2, NothingIsThere DEF Shown
      <4>2. meals.at \in 1 .. Len(moments) /\ meals.routes = moments[meals.at] /\ meals.at <= meals.at
        BY <4>1 DEF RouteInv, RouteType, MealsStand
      <4> QED BY <4>1, <4>2 DEF WasSeen
    <3> QED BY <3>1, <3>2
  <2> QED BY <2>1, <2>2 DEF MealsAreTheDay
<1> QED BY <1>1, RouteInvHolds, PTL

-----------------------------------------------------------------------------
(***************************************************************************)
(* For any pages, any length of the history and any number of writes,      *)
(* restarts and failed polls: every answer is what the database holds when *)
(* it is given, and a dashboard with nothing left to read shows each page  *)
(* at least as it was announced last.                                      *)
(*                                                                         *)
(* An entry of the present revision is current, since a writer advances    *)
(* the revision first and shares the lock with no reader (CacheIsCurrent). *)
(* The dashboard's revisions follow one another (TokensStand), and of      *)
(* whatever is staler than its announcement it will still be told: since   *)
(* the revision it observed and, unless they name the page, since the one  *)
(* its timer holds back and the reply under way (StaleIsOwed). What nobody *)
(* announced it is not told of.                                            *)
(***************************************************************************)

TokenRow == [epoch : Nat, revision : Nat]
EntryRow == [page : Page, revision : Nat, value : Nat]
Requests == {NotPolling, Sent, [at |-> "loading"]}
            \union [at : {"answered"}, value : Nat, observed : BOOLEAN]
Polls == {NotPolling, [at |-> "waiting"], [at |-> "lost"]}
         \union [at : {"woken"}, through : TokenRow]
         \union [at : {"replied"}, through : TokenRow, pages : SUBSET Page]

ReadsType ==
    /\ data \in [Page -> Nat] /\ revision \in Nat /\ writer \subseteq Page
    /\ loads \subseteq [page : Page, revision : Nat] /\ entries \in Seq(EntryRow)
    /\ epoch \in Nat /\ known \in BOOLEAN /\ sent \in Nat /\ changes \in Seq(SUBSET Page)
    /\ unannounced \subseteq [pages : SUBSET Page, write : Nat] /\ writes \in Nat
    /\ announced \in [Page -> Nat]
    /\ request \in [Page -> Requests] /\ shown \in [Page -> [value : Nat, observed : BOOLEAN]]
    /\ poll \in Polls /\ after \in TokenRow /\ version \in TokenRow
    /\ pending \in [armed : BOOLEAN, version : TokenRow, pages : SUBSET Page]
    /\ failing \in BOOLEAN /\ hidden \in BOOLEAN

\* An entry of the current revision is what the database holds.
CacheIsCurrent ==
    /\ loads # {} => writer = {}
    /\ \A load \in loads : load.revision = revision
    /\ \A n \in 1..Len(entries) :
        /\ entries[n].revision <= revision
        /\ entries[n].revision = revision => writer = {} /\ entries[n].value = data[entries[n].page]

NotLater(a, b) == a.epoch < b.epoch \/ (a.epoch = b.epoch /\ a.revision <= b.revision)

\* A revision that was told, of this process or of one before it.
Told(token) ==
    /\ token.epoch > 0 /\ NotLater(token, Token)
    /\ token.epoch = epoch => known

\* The dashboard's revisions follow one another: what its cache observed, what its timer holds
\* back, what it polled last and what the poll under way will say.
TokensStand ==
    /\ epoch > 0 /\ Len(changes) <= sent
    /\ ~known => sent = 0
    /\ version # NoRevision => Told(version)
    /\ after # NoRevision => Told(after)
    /\ poll.at = "waiting" => known
    /\ poll.at = "woken" => poll.through.epoch = epoch
    /\ poll.at \in {"woken", "replied"} => Told(poll.through) /\ NotLater(after, poll.through)
    /\ poll.at # "idle" => ~hidden
    /\ ~pending.armed => pending.pages = {}
    /\ pending.armed => /\ ~hidden /\ after # NoRevision /\ pending.version = after
                        /\ version # after /\ NotLater(version, after)
    /\ ~pending.armed /\ ~hidden /\ after # NoRevision => version = after

\* What was announced is what a write had committed: no page shows more than the database holds.
AnnouncedIsCommitted == \A p \in Page : announced[p] <= data[p]

\* The dashboard has the page as it was before it was announced last, and has it since it had
\* observed a revision.
Stale(p) ==
    \/ request[p].at = "idle" /\ shown[p].observed /\ shown[p].value < announced[p]
    \/ request[p].at = "answered" /\ request[p].observed /\ request[p].value < announced[p]

\* A dashboard that is told of every change since this revision is told of this page's: it was of
\* another process, the change was announced since, or may have been dropped from the history.
Dropped == sent - Len(changes)
Owed(p, token) ==
    \/ token.epoch # epoch
    \/ token.revision < Dropped
    \/ \E n \in 1..Len(changes) : n + Dropped > token.revision /\ p \in changes[n]

\* What is stale is owed since the revision that was observed, and what the timer and the reply
\* under way do not name, since theirs.
StaleIsOwed ==
    \A p \in Page : Stale(p) =>
        /\ version # NoRevision /\ Owed(p, version)
        /\ pending.armed /\ p \notin pending.pages => Owed(p, pending.version)
        /\ poll.at = "replied" /\ after # NoRevision /\ p \notin poll.pages \union pending.pages
           => Owed(p, poll.through)

ObservedIsTold ==
    \A p \in Page : /\ shown[p].observed => version # NoRevision
                    /\ request[p].at = "answered" /\ request[p].observed => version # NoRevision

ReadsInv ==
    /\ ReadsType /\ CacheIsCurrent /\ AnnouncedIsCommitted
    /\ TokensStand /\ StaleIsOwed /\ ObservedIsTold

-----------------------------------------------------------------------------
\* What is retained of a list is of the list, at the places that were asked for.  (The function
\* that Retained is defined by exists, by the least place up to which it would not.)
LEMMA RetainedIsOf ==
    ASSUME NEW S, NEW list \in Seq(S), NEW places
    PROVE  /\ Retained(list, places) \in Seq(S)
           /\ \A k \in 1..Len(Retained(list, places)) :
                \E n \in 1..Len(list) : n \in places /\ Retained(list, places)[k] = list[n]
<1> DEFINE Next1(g, n) == IF n = 0 THEN <<>>
                          ELSE IF n \in places THEN Append(g[n - 1], list[n]) ELSE g[n - 1]
           Upto(g, m) == g = [n \in 0..m |-> Next1(g, n)]
           Good(s) == /\ s \in Seq(S)
                      /\ \A k \in 1..Len(s) : \E n \in 1..Len(list) : n \in places /\ s[k] = list[n]
           less == OpToRel(<, Nat)
<1>1. IsWellFoundedOn(less, Nat)
  BY NatLessThanWellFounded
<1>2. \A m \in Nat : \E g : Upto(g, m)
  <2> DEFINE T == {m \in Nat : ~\E g : Upto(g, m)}
  <2>1. SUFFICES ASSUME T # {} PROVE FALSE
    OBVIOUS
  <2>2. PICK m \in T : \A o \in T : ~ (<<o, m>> \in less)
    <3> HIDE DEF T, less
    <3>1. T \subseteq Nat
      BY DEF T
    <3> QED BY <1>1, <2>1, <3>1, WFMin, Zenon
  <2>3. m \in Nat /\ \A o \in Nat : o < m => \E g : Upto(g, o)
    <3>1. \A o \in T : ~(o < m)
      BY <2>2 DEF less, OpToRel
    <3> QED BY <3>1
  <2>4. CASE m = 0
    <3> DEFINE g == [n \in 0..0 |-> <<>>]
    <3>1. Upto(g, 0)
      OBVIOUS
    <3> QED BY <2>4, <3>1
  <2>5. CASE m # 0
    <3>1. m - 1 \in Nat /\ m - 1 < m
      BY <2>3, <2>5
    <3>2. PICK g : Upto(g, m - 1)
      BY <2>3, <3>1
    <3> DEFINE h == [n \in 0..m |-> IF n < m THEN g[n] ELSE Next1(g, m)]
    <3>3. ASSUME NEW n \in 0..m PROVE h[n] = Next1(h, n)
      <4>1. CASE n = m
        <5>0. m \in 0..m /\ m - 1 \in 0..m
          BY <2>3, <3>1
        <5>1. h[m - 1] = g[m - 1]
          BY <3>1, <5>0
        <5>2. h[m] = Next1(g, m)
          <6> HIDE DEF Next1
          <6>1. ~(m < m)
            BY <2>3
          <6> QED BY <5>0, <6>1
        <5> HIDE DEF h
        <5> QED BY <2>5, <4>1, <5>1, <5>2
      <4>2. CASE n # m
        <5>1. n \in 0..(m - 1) /\ n < m
          BY <2>3, <4>2
        <5>2. h[n] = g[n] /\ g[n] = Next1(g, n)
          BY <3>2, <5>1
        <5>3. n # 0 => h[n - 1] = g[n - 1]
          BY <2>3, <5>1
        <5> HIDE DEF h
        <5> QED BY <5>2, <5>3
      <4> QED BY <4>1, <4>2
    <3>4. Upto(h, m)
      BY <3>3
    <3> QED BY <3>4
  <2> QED BY <2>4, <2>5
<1> DEFINE upto == CHOOSE g : g = [n \in 0..Len(list) |-> Next1(g, n)]
<1>3. Retained(list, places) = upto[Len(list)]
  BY DEF Retained
<1>4. upto = [n \in 0..Len(list) |-> Next1(upto, n)]
  <2>1. \E g : Upto(g, Len(list))
    <3>1. Len(list) \in Nat
      OBVIOUS
    <3> HIDE DEF Upto
    <3> QED BY <1>2, <3>1
  <2> QED BY <2>1
<1> HIDE DEF upto
<1>5. \A n \in 0..Len(list) : upto[n] = Next1(upto, n)
  BY <1>4
<1>6. \A m \in Nat : m <= Len(list) => Good(upto[m])
  <2> HIDE DEF Good
  <2> DEFINE T == {m \in Nat : m <= Len(list) /\ ~Good(upto[m])}
  <2>1. SUFFICES ASSUME T # {} PROVE FALSE
    OBVIOUS
  <2>2. PICK m \in T : \A o \in T : ~ (<<o, m>> \in less)
    <3> HIDE DEF T, less
    <3>1. T \subseteq Nat
      BY DEF T
    <3> QED BY <1>1, <2>1, <3>1, WFMin, Zenon
  <2>3. /\ m \in Nat /\ m <= Len(list) /\ ~Good(upto[m])
        /\ \A o \in Nat : o < m => Good(upto[o])
    <3>1. \A o \in T : ~(o < m)
      BY <2>2 DEF less, OpToRel
    <3>2. m \in Nat /\ m <= Len(list) /\ ~Good(upto[m])
      BY <2>2
    <3>3. ASSUME NEW o \in Nat, o < m PROVE Good(upto[o])
      <4>1. o \notin T /\ o <= Len(list)
        BY <3>1, <3>2, <3>3
      <4> QED BY <4>1
    <3> QED BY <3>2, <3>3
  <2> HIDE DEF T, less
  <2>4. upto[m] = Next1(upto, m)
    BY <1>5, <2>3
  <2>5. CASE m = 0
    <3>1. upto[m] = <<>>
      BY <2>4, <2>5
    <3>2. Good(<<>>)
      BY DEF Good
    <3> QED BY <2>3, <3>1, <3>2
  <2>6. CASE m # 0
    <3>1. m - 1 \in Nat /\ m - 1 < m /\ m \in 1..Len(list) /\ list[m] \in S
      BY <2>3, <2>6
    <3> DEFINE before == upto[m - 1]
    <3>2. Good(before)
      BY <2>3, <3>1
    <3>3. upto[m] = IF m \in places THEN Append(before, list[m]) ELSE before
      BY <2>4, <2>6
    <3> HIDE DEF before
    <3>4. m \in places => Good(Append(before, list[m]))
      BY <3>1, <3>2 DEF Good
    <3> QED BY <2>3, <3>2, <3>3, <3>4
  <2> QED BY <2>5, <2>6
<1>7. Len(list) \in Nat
  OBVIOUS
<1>8. Good(upto[Len(list)])
  BY <1>6, <1>7
<1> QED BY <1>3, <1>8 DEF Good

-----------------------------------------------------------------------------
\* What the cache holds of the current revision, of one page or of the others.
LEMMA CurrentIsOf ==
    ASSUME ReadsInv, NEW p \in Page
    PROVE  /\ Of(p, Current) \in Seq(EntryRow) /\ OfOthers(p, Current) \in Seq(EntryRow)
           /\ \A k \in 1..Len(Of(p, Current)) : /\ Of(p, Current)[k].page = p
                                                /\ Of(p, Current)[k].revision = revision
                                                /\ \E n \in 1..Len(entries) : Of(p, Current)[k] = entries[n]
           /\ \A k \in 1..Len(OfOthers(p, Current)) :
                \E n \in 1..Len(entries) : OfOthers(p, Current)[k] = entries[n]
<1> DEFINE kept == Current
<1>1. entries \in Seq(EntryRow)
  BY DEF ReadsInv, ReadsType
<1>2. /\ kept \in Seq(EntryRow)
      /\ \A k \in 1..Len(kept) : \E n \in 1..Len(entries) : entries[n].revision = revision /\ kept[k] = entries[n]
  <2> DEFINE places == {n \in DOMAIN entries : Usable(n)}
  <2>1. kept = Retained(entries, places)
    BY DEF Current
  <2>2. \A n \in 1..Len(entries) : n \in places => entries[n].revision = revision
    BY DEF Usable
  <2> HIDE DEF places, kept
  <2> QED BY <1>1, <2>1, <2>2, RetainedIsOf
<1> HIDE DEF kept
<1>3. /\ Of(p, kept) \in Seq(EntryRow)
      /\ \A k \in 1..Len(Of(p, kept)) : \E n \in 1..Len(kept) : kept[n].page = p /\ Of(p, kept)[k] = kept[n]
  <2> DEFINE places == {n \in DOMAIN kept : kept[n].page = p}
             mine == Of(p, kept)
  <2>1. mine = Retained(kept, places)
    BY DEF Of
  <2>2. \A n \in 1..Len(kept) : n \in places => kept[n].page = p
    OBVIOUS
  <2> HIDE DEF places, mine
  <2>3. mine \in Seq(EntryRow) /\ \A k \in 1..Len(mine) : \E n \in 1..Len(kept) : kept[n].page = p /\ mine[k] = kept[n]
    BY <1>2, <2>1, <2>2, RetainedIsOf
  <2> QED BY <2>3 DEF mine
<1>4. /\ OfOthers(p, kept) \in Seq(EntryRow)
      /\ \A k \in 1..Len(OfOthers(p, kept)) : \E n \in 1..Len(kept) : OfOthers(p, kept)[k] = kept[n]
  <2> DEFINE places == {n \in DOMAIN kept : kept[n].page # p}
             others == OfOthers(p, kept)
  <2>1. others = Retained(kept, places)
    BY DEF OfOthers
  <2> HIDE DEF places, others
  <2>2. others \in Seq(EntryRow) /\ \A k \in 1..Len(others) : \E n \in 1..Len(kept) : others[k] = kept[n]
    <3>0. kept \in Seq(EntryRow)
      BY <1>2
    <3>1. /\ others \in Seq(EntryRow)
          /\ \A k \in 1..Len(others) : \E n \in 1..Len(kept) : n \in places /\ others[k] = kept[n]
      BY <2>1, <3>0, RetainedIsOf
    <3> QED BY <3>1
  <2> QED BY <2>2 DEF others
<1>5. kept = Current
  BY DEF kept
<1>6. \A k \in 1..Len(Of(p, kept)) : /\ Of(p, kept)[k].page = p
                                     /\ Of(p, kept)[k].revision = revision
                                     /\ \E n \in 1..Len(entries) : Of(p, kept)[k] = entries[n]
  BY <1>2, <1>3
<1>7. \A k \in 1..Len(OfOthers(p, kept)) : \E n \in 1..Len(entries) : OfOthers(p, kept)[k] = entries[n]
  BY <1>2, <1>4
<1> QED BY <1>3, <1>4, <1>5, <1>6, <1>7

\* An entry that answers holds what the database holds.
LEMMA AnswerIsCurrent ==
    ASSUME ReadsInv, NEW p \in Page, Of(p, Current) # <<>>, writer = {}
    PROVE  Of(p, Current)[1].value = data[p] /\ data[p] \in Nat
<1>1. 1 \in 1..Len(Of(p, Current))
  <2>1. Of(p, Current) \in Seq(EntryRow)
    BY CurrentIsOf
  <2> QED BY <2>1, EmptySeq
<1>2. PICK n \in 1..Len(entries) : Of(p, Current)[1] = entries[n]
  BY <1>1, CurrentIsOf
<1>3. entries[n].page = p /\ entries[n].revision = revision
  BY <1>1, <1>2, CurrentIsOf
<1>4. data[p] \in Nat
  BY DEF ReadsInv, ReadsType
<1> QED BY <1>2, <1>3, <1>4 DEF ReadsInv, CacheIsCurrent

\* Fewer entries are as current, under the same lock.
LEMMA FewerAreCurrent ==
    ASSUME ReadsInv, UNCHANGED <<data, revision, writer>>, entries' \in Seq(EntryRow),
           \A k \in 1..Len(entries') : \E n \in 1..Len(entries) : entries'[k] = entries[n]
    PROVE  \A k \in 1..Len(entries') :
               /\ entries'[k].revision <= revision'
               /\ entries'[k].revision = revision'
                  => writer' = {} /\ entries'[k].value = data'[entries'[k].page]
  BY DEF ReadsInv, CacheIsCurrent

-----------------------------------------------------------------------------
\* The requests of a dashboard.
LEMMA RequestIs ==
    ASSUME ReadsInv, NEW p \in Page
    PROVE  /\ request[p].at \in {"idle", "sent", "loading", "answered"}
           /\ request[p].at = "answered" => request[p] \in [at : {"answered"}, value : Nat, observed : BOOLEAN]
           /\ Sent \in Requests /\ NotPolling \in Requests /\ [at |-> "loading"] \in Requests
           /\ Sent.at = "sent" /\ NotPolling.at = "idle"
  BY DEF ReadsInv, ReadsType, Requests, NotPolling, Sent

\* The locks, the cache and the requests go on, while nothing is told: no page becomes stale.
LEMMA ReadingKeepsInv ==
    ASSUME ReadsInv, UNCHANGED <<updateVars, pollVars>>,
           UNCHANGED data, revision' \in Nat, writer' \subseteq Page,
           loads' \subseteq [page : Page, revision : Nat], entries' \in Seq(EntryRow), writes' \in Nat,
           request' \in [Page -> Requests], shown' \in [Page -> [value : Nat, observed : BOOLEAN]],
           CacheIsCurrent', \A p \in Page : Stale(p)' => Stale(p), ObservedIsTold'
    PROVE  ReadsInv'
<1> USE DEF updateVars, pollVars
<1>1. ReadsType'
  BY DEF ReadsInv, ReadsType
<1>2. TokensStand'
  BY DEF ReadsInv, TokensStand, Told, NotLater, Token
<1>3. StaleIsOwed'
  BY DEF ReadsInv, StaleIsOwed, Owed, Dropped
<1>4. AnnouncedIsCommitted'
  BY DEF ReadsInv, AnnouncedIsCommitted
<1> QED BY <1>1, <1>2, <1>3, <1>4 DEF ReadsInv

\* Nothing moves but the locks: no page becomes stale.
LEMMA SameIsNotStale ==
    ASSUME ReadsInv, UNCHANGED <<announced, request, shown, version>>
    PROVE  /\ \A p \in Page : Stale(p)' => Stale(p)
           /\ ObservedIsTold'
  BY DEF Stale, ReadsInv, ObservedIsTold

LEMMA StartWriteKeepsInv == ASSUME ReadsInv, StartWrite PROVE ReadsInv'
<1>1. /\ UNCHANGED <<data, loads, entries, updateVars, request, shown, pollVars>>
      /\ writer' \subseteq Page /\ revision' = revision + 1 /\ writes' = writes + 1 /\ loads = {}
  BY DEF StartWrite
<1>2. revision \in Nat /\ revision' \in Nat /\ writes' \in Nat
  BY <1>1 DEF ReadsInv, ReadsType
<1>3. CacheIsCurrent'
  <2>1. \A n \in 1..Len(entries) : entries[n].revision \in Nat /\ entries[n].revision <= revision
    <3>1. \A n \in 1..Len(entries) : entries[n] \in EntryRow
      BY DEF ReadsInv, ReadsType
    <3> QED BY <3>1 DEF ReadsInv, EntryRow, CacheIsCurrent
  <2> QED BY <1>1, <1>2, <2>1 DEF CacheIsCurrent
<1>4. \A p \in Page : Stale(p)' => Stale(p)
  BY <1>1, SameIsNotStale DEF pollVars, updateVars
<1>5. ObservedIsTold'
  BY <1>1, SameIsNotStale DEF pollVars, updateVars
<1> QED BY <1>1, <1>2, <1>3, <1>4, <1>5, ReadingKeepsInv DEF ReadsInv, ReadsType

LEMMA SaveEntryKeepsInv == ASSUME ReadsInv, NEW p \in Page, SaveEntry(p) PROVE ReadsInv'
<1> DEFINE seen == [value |-> request[p].value, observed |-> request[p].observed]
<1>1. /\ UNCHANGED <<lockVars, updateVars, pollVars, boundVars>> /\ request[p].at = "answered"
      /\ shown' = [shown EXCEPT ![p] = seen] /\ request' = [request EXCEPT ![p] = NotPolling]
  BY DEF SaveEntry
<1>2. seen \in [value : Nat, observed : BOOLEAN]
  BY <1>1, RequestIs
<1>3. seen.value = request[p].value /\ seen.observed = request[p].observed
  OBVIOUS
<1> HIDE DEF seen
<1>4. /\ request \in [Page -> Requests] /\ shown \in [Page -> [value : Nat, observed : BOOLEAN]]
  BY DEF ReadsInv, ReadsType
<1>5. /\ request' \in [Page -> Requests] /\ shown' \in [Page -> [value : Nat, observed : BOOLEAN]]
      /\ request'[p].at = "idle" /\ shown'[p] = seen
      /\ \A o \in Page \ {p} : request'[o] = request[o] /\ shown'[o] = shown[o]
  BY <1>1, <1>2, <1>4, RequestIs
<1>6. CacheIsCurrent'
  BY <1>1 DEF ReadsInv, CacheIsCurrent, lockVars
<1>7. \A o \in Page : Stale(o)' => Stale(o)
  BY <1>1, <1>3, <1>5 DEF Stale, updateVars
<1>8. ObservedIsTold'
  BY <1>1, <1>3, <1>5 DEF ReadsInv, ObservedIsTold, pollVars
<1> QED BY <1>1, <1>5, <1>6, <1>7, <1>8, ReadingKeepsInv DEF ReadsInv, ReadsType, lockVars, boundVars

\* A request that is answered with what the database holds.
LEMMA AnsweredIsCurrent ==
    ASSUME ReadsInv, NEW p \in Page, NEW value \in Nat, value = data[p], Answered(p, value),
           UNCHANGED <<announced, shown, version>>
    PROVE  /\ request' \in [Page -> Requests] /\ \A o \in Page : Stale(o)' => Stale(o)
           /\ ObservedIsTold'
<1> DEFINE answer == [at |-> "answered", value |-> value, observed |-> version # NoRevision]
<1>1. answer \in Requests
  BY DEF Requests
<1>2. answer.at = "answered" /\ answer.value = value /\ answer.observed = (version # NoRevision)
  OBVIOUS
<1>3. request' = [request EXCEPT ![p] = answer] /\ request \in [Page -> Requests]
  BY DEF Answered, ReadsInv, ReadsType
<1> HIDE DEF answer
<1>4. request' \in [Page -> Requests] /\ request'[p] = answer /\ \A o \in Page \ {p} : request'[o] = request[o]
  BY <1>1, <1>3
<1>5. \A o \in Page : Stale(o)' => Stale(o)
  <2>1. announced[p] \in Nat /\ announced[p] <= value
    BY DEF ReadsInv, ReadsType, AnnouncedIsCommitted
  <2> QED BY <1>2, <1>4, <2>1 DEF Stale
<1>6. ObservedIsTold'
  BY <1>2, <1>4 DEF ReadsInv, ObservedIsTold
<1> QED BY <1>4, <1>5, <1>6

LEMMA ReadFromCacheKeepsInv == ASSUME ReadsInv, NEW p \in Page, ReadFromCache(p) PROVE ReadsInv'
<1> DEFINE mine == Of(p, Current)
           others == OfOthers(p, Current)
<1>1. /\ UNCHANGED <<data, revision, writer, loads, updateVars, shown, pollVars, boundVars>> /\ writer = {}
      /\ mine # <<>> /\ Answered(p, mine[1].value) /\ entries' = others \o mine
  BY DEF ReadFromCache
<1>2. mine[1].value = data[p] /\ data[p] \in Nat
  BY <1>1, AnswerIsCurrent
<1>3. /\ mine \in Seq(EntryRow) /\ others \in Seq(EntryRow)
      /\ \A k \in 1..Len(mine) : \E n \in 1..Len(entries) : mine[k] = entries[n]
      /\ \A k \in 1..Len(others) : \E n \in 1..Len(entries) : others[k] = entries[n]
  BY CurrentIsOf
<1> HIDE DEF mine, others
<1>4. /\ entries' \in Seq(EntryRow)
      /\ \A k \in 1..Len(entries') : \E n \in 1..Len(entries) : entries'[k] = entries[n]
  <2>1. /\ entries' \in Seq(EntryRow) /\ Len(entries') = Len(others) + Len(mine)
        /\ \A k \in 1..(Len(others) + Len(mine)) :
              entries'[k] = IF k <= Len(others) THEN others[k] ELSE mine[k - Len(others)]
    BY <1>1, <1>3, ConcatProperties
  <2>2. ASSUME NEW k \in 1..Len(entries') PROVE \E n \in 1..Len(entries) : entries'[k] = entries[n]
    <3>1. Len(others) \in Nat /\ Len(mine) \in Nat
      BY <1>3
    <3>2. CASE k <= Len(others)
      <4>1. k \in 1..Len(others) /\ k \in 1..(Len(others) + Len(mine))
        BY <2>1, <3>1, <3>2
      <4>2. entries'[k] = others[k]
        BY <2>1, <3>2, <4>1
      <4> QED BY <1>3, <4>1, <4>2
    <3>3. CASE ~(k <= Len(others))
      <4>1. k - Len(others) \in 1..Len(mine) /\ entries'[k] = mine[k - Len(others)]
        BY <2>1, <3>1, <3>3
      <4> QED BY <1>3, <4>1
    <3> QED BY <3>2, <3>3
  <2> QED BY <2>1, <2>2
<1>5. CacheIsCurrent'
  <2>1. \A k \in 1..Len(entries') :
            /\ entries'[k].revision <= revision'
            /\ entries'[k].revision = revision'
               => writer' = {} /\ entries'[k].value = data'[entries'[k].page]
    BY <1>1, <1>4, FewerAreCurrent
  <2> QED BY <1>1, <2>1 DEF ReadsInv, CacheIsCurrent
<1>6. /\ request' \in [Page -> Requests] /\ (\A o \in Page : Stale(o)' => Stale(o)) /\ ObservedIsTold'
  BY <1>1, <1>2, AnsweredIsCurrent DEF pollVars, updateVars
<1> QED BY <1>1, <1>4, <1>5, <1>6, ReadingKeepsInv DEF ReadsInv, ReadsType, boundVars

LEMMA StartLoadKeepsInv == ASSUME ReadsInv, NEW p \in Page, StartLoad(p) PROVE ReadsInv'
<1>1. /\ UNCHANGED <<data, revision, writer, updateVars, shown, pollVars, boundVars>> /\ writer = {}
      /\ entries' = OfOthers(p, Current) /\ loads' = loads \cup {[page |-> p, revision |-> revision]}
      /\ request' = [request EXCEPT ![p] = [at |-> "loading"]]
  BY DEF StartLoad
<1>2. /\ entries' \in Seq(EntryRow)
      /\ \A k \in 1..Len(entries') : \E n \in 1..Len(entries) : entries'[k] = entries[n]
  BY <1>1, CurrentIsOf
<1>3. loads' \subseteq [page : Page, revision : Nat]
  BY <1>1 DEF ReadsInv, ReadsType
<1>4. CacheIsCurrent'
  <2>1. \A k \in 1..Len(entries') :
            /\ entries'[k].revision <= revision'
            /\ entries'[k].revision = revision'
               => writer' = {} /\ entries'[k].value = data'[entries'[k].page]
    BY <1>1, <1>2, FewerAreCurrent
  <2> QED BY <1>1, <2>1 DEF ReadsInv, CacheIsCurrent
<1>5. /\ request' \in [Page -> Requests] /\ request'[p].at = "loading"
      /\ \A o \in Page \ {p} : request'[o] = request[o]
  <2> DEFINE loading == [at |-> "loading"]
  <2>1. loading \in Requests /\ loading.at = "loading" /\ request' = [request EXCEPT ![p] = loading]
    BY <1>1, RequestIs
  <2> HIDE DEF loading
  <2> QED BY <2>1 DEF ReadsInv, ReadsType
<1>6. \A o \in Page : Stale(o)' => Stale(o)
  BY <1>1, <1>5 DEF Stale, updateVars
<1>7. ObservedIsTold'
  BY <1>1, <1>5 DEF ReadsInv, ObservedIsTold, pollVars
<1> QED BY <1>1, <1>2, <1>3, <1>4, <1>5, <1>6, <1>7, ReadingKeepsInv DEF ReadsInv, ReadsType, boundVars

LEMMA FinishLoadKeepsInv == ASSUME ReadsInv, FinishLoad PROVE ReadsInv'
<1>1. PICK load \in loads :
          /\ loads' = loads \ {load}
          /\ LET kept == Retained(entries, {n \in DOMAIN entries :
                           entries[n].page # load.page /\ entries[n].revision = load.revision})
                 first == IF Len(kept) >= CacheRoom THEN Len(kept) - CacheRoom + 2 ELSE 1
             IN  entries' = Append(SubSeq(kept, first, Len(kept)),
                      [page |-> load.page, revision |-> load.revision, value |-> data[load.page]])
          /\ IF request[load.page].at = "loading"
             THEN Answered(load.page, data[load.page])
             ELSE UNCHANGED request
          /\ UNCHANGED <<data, revision, writer, updateVars, shown, pollVars, boundVars>>
  BY DEF FinishLoad
<1> DEFINE kept == Retained(entries, {n \in DOMAIN entries :
                     entries[n].page # load.page /\ entries[n].revision = load.revision})
           first == IF Len(kept) >= CacheRoom THEN Len(kept) - CacheRoom + 2 ELSE 1
           rest == SubSeq(kept, first, Len(kept))
           entry == [page |-> load.page, revision |-> load.revision, value |-> data[load.page]]
<1>2. /\ load.page \in Page /\ load.revision = revision /\ writer = {} /\ data[load.page] \in Nat
      /\ revision \in Nat
  BY DEF ReadsInv, ReadsType, CacheIsCurrent
<1>3. entry \in EntryRow /\ entry.page = load.page /\ entry.revision = revision /\ entry.value = data[load.page]
  BY <1>2 DEF EntryRow
<1>4. /\ kept \in Seq(EntryRow)
      /\ \A k \in 1..Len(kept) : \E n \in 1..Len(entries) : kept[k] = entries[n]
  <2> DEFINE places == {n \in DOMAIN entries : entries[n].page # load.page /\ entries[n].revision = load.revision}
  <2>1. kept = Retained(entries, places) /\ entries \in Seq(EntryRow)
    BY DEF ReadsInv, ReadsType
  <2> HIDE DEF places, kept
  <2> QED BY <2>1, RetainedIsOf
<1>5. entries' = Append(rest, entry)
  BY <1>1
<1> HIDE DEF kept, entry
<1>6. first \in Int /\ first >= 1 /\ Len(kept) \in Nat
  BY <1>4, LiveReadsAssumption
<1> HIDE DEF first
<1>7. /\ rest \in Seq(EntryRow)
      /\ \A k \in 1..Len(rest) : \E n \in 1..Len(entries) : rest[k] = entries[n]
  <2>1. \A i \in first..Len(kept) : kept[i] \in EntryRow /\ i \in 1..Len(kept)
    BY <1>4, <1>6
  <2>2. /\ rest \in Seq(EntryRow) /\ Len(rest) = IF first <= Len(kept) THEN Len(kept) - first + 1 ELSE 0
        /\ \A i \in 1..(Len(kept) - first + 1) : rest[i] = kept[first + i - 1]
    BY <1>6, <2>1, SubSeqProperties
  <2>3. ASSUME NEW k \in 1..Len(rest) PROVE \E n \in 1..Len(entries) : rest[k] = entries[n]
    <3>1. k \in 1..(Len(kept) - first + 1) /\ first + k - 1 \in 1..Len(kept)
      BY <1>6, <2>2, <2>3
    <3> QED BY <1>4, <2>2, <3>1
  <2> QED BY <2>2, <2>3
<1> HIDE DEF rest
<1>8. /\ entries' \in Seq(EntryRow) /\ Len(entries') = Len(rest) + 1 /\ Len(rest) \in Nat
      /\ \A k \in 1..Len(rest) : entries'[k] = rest[k]
      /\ entries'[Len(rest) + 1] = entry
  BY <1>3, <1>5, <1>7, AppendProperties
<1>9. CacheIsCurrent'
  <2>1. ASSUME NEW k \in 1..Len(entries')
        PROVE  /\ entries'[k].revision <= revision'
               /\ entries'[k].revision = revision'
                  => writer' = {} /\ entries'[k].value = data'[entries'[k].page]
    <3>1. CASE k \in 1..Len(rest)
      <4>1. PICK n \in 1..Len(entries) : entries'[k] = entries[n]
        BY <1>7, <1>8, <3>1
      <4> QED BY <1>1, <4>1 DEF ReadsInv, CacheIsCurrent
    <3>2. CASE k = Len(rest) + 1
      <4>1. entries'[k] = entry /\ writer' = {} /\ data' = data /\ revision' = revision
        BY <1>1, <1>2, <1>8, <3>2
      <4> QED BY <1>2, <1>3, <4>1
    <3> QED BY <1>8, <3>1, <3>2
  <2> QED BY <1>1, <2>1 DEF ReadsInv, CacheIsCurrent
<1>10. /\ request' \in [Page -> Requests] /\ (\A o \in Page : Stale(o)' => Stale(o)) /\ ObservedIsTold'
  <2>1. UNCHANGED <<announced, shown, version>>
    BY <1>1 DEF pollVars, updateVars
  <2>2. CASE Answered(load.page, data[load.page])
    BY <1>2, <2>1, <2>2, AnsweredIsCurrent
  <2>3. CASE UNCHANGED request
    BY <2>1, <2>3, SameIsNotStale DEF ReadsInv, ReadsType
  <2> QED BY <1>1, <2>2, <2>3
<1> QED BY <1>1, <1>8, <1>9, <1>10, ReadingKeepsInv DEF ReadsInv, ReadsType, boundVars

-----------------------------------------------------------------------------
\* A write ends: what was committed is more than was announced, and nobody is told of it yet.
LEMMA EndWriteKeepsInv ==
    ASSUME ReadsInv, writer # {}, EndWrite, data' \in [Page -> Nat], \A p \in Page : data[p] <= data'[p]
    PROVE  ReadsInv'
<1> DEFINE change == [pages |-> writer, write |-> writes]
<1>1. /\ writer' = {} /\ unannounced' \subseteq unannounced \cup {change}
      /\ UNCHANGED <<revision, loads, entries, epoch, known, sent, changes, announced, request, shown,
                     pollVars, boundVars>>
  BY DEF EndWrite
<1>2. change \in [pages : SUBSET Page, write : Nat]
  BY DEF ReadsInv, ReadsType
<1> HIDE DEF change
<1>3. ReadsType'
  BY <1>1, <1>2 DEF ReadsInv, ReadsType, pollVars, boundVars
<1>4. CacheIsCurrent'
  BY <1>1 DEF ReadsInv, CacheIsCurrent
<1>5. AnnouncedIsCommitted'
  <2>1. \A p \in Page : announced[p] \in Nat /\ data[p] \in Nat /\ data'[p] \in Nat
    BY DEF ReadsInv, ReadsType
  <2> QED BY <1>1, <2>1 DEF ReadsInv, AnnouncedIsCommitted
<1>6. TokensStand'
  BY <1>1 DEF ReadsInv, TokensStand, Told, NotLater, Token, pollVars
<1>7. ObservedIsTold'
  BY <1>1 DEF ReadsInv, ObservedIsTold, pollVars
<1>8. StaleIsOwed'
  BY <1>1 DEF ReadsInv, StaleIsOwed, Stale, Owed, Dropped, pollVars
<1> QED BY <1>3, <1>4, <1>5, <1>6, <1>7, <1>8 DEF ReadsInv

LEMMA CommitWriteKeepsInv == ASSUME ReadsInv, CommitWrite PROVE ReadsInv'
<1>1. /\ writer # {} /\ EndWrite
      /\ data' = [p \in Page |-> IF p \in writer THEN data[p] + 1 ELSE data[p]]
  BY DEF CommitWrite
<1>2. data' \in [Page -> Nat] /\ \A p \in Page : data[p] <= data'[p]
  BY <1>1 DEF ReadsInv, ReadsType
<1> QED BY <1>1, <1>2, EndWriteKeepsInv

LEMMA FailWriteKeepsInv == ASSUME ReadsInv, FailWrite PROVE ReadsInv'
<1>1. writer # {} /\ EndWrite /\ UNCHANGED data
  BY DEF FailWrite
<1>2. data' \in [Page -> Nat] /\ \A p \in Page : data[p] <= data'[p]
  BY <1>1 DEF ReadsInv, ReadsType
<1> QED BY <1>1, <1>2, EndWriteKeepsInv

\* What is owed stays owed when a change is announced, though it may be dropped, and what the
\* change affects is owed to everybody who was told a revision.
LEMMA AnnouncedIsOwed ==
    ASSUME ReadsInv, NEW change \in unannounced,
           sent' = IF known THEN sent + 1 ELSE sent,
           LET kept == Append(changes, change.pages)
               first == IF Len(kept) > History THEN 2 ELSE 1
           IN  changes' = IF known THEN SubSeq(kept, first, Len(kept)) ELSE changes,
           epoch' = epoch,
           NEW p \in Page, NEW token \in TokenRow, Told(token), Owed(p, token) \/ p \in change.pages
    PROVE  Owed(p, token)'
<1>2. CASE token.epoch # epoch
  BY <1>2 DEF Owed
<1>3. CASE token.epoch = epoch
  <2> DEFINE kept == Append(changes, change.pages)
             first == IF Len(kept) > History THEN 2 ELSE 1
  <2>1. known /\ sent \in Nat /\ changes \in Seq(SUBSET Page) /\ change.pages \in SUBSET Page
        /\ token.revision \in Nat /\ token.revision <= sent
    BY <1>3 DEF Told, NotLater, Token, ReadsInv, ReadsType, TokenRow
  <2>2. /\ kept \in Seq(SUBSET Page) /\ Len(kept) = Len(changes) + 1 /\ Len(changes) \in Nat
        /\ \A i \in 1..Len(changes) : kept[i] = changes[i]
        /\ kept[Len(changes) + 1] = change.pages
    BY <2>1, AppendProperties
  <2>3. changes' = SubSeq(kept, first, Len(kept)) /\ sent' = sent + 1
    BY <2>1
  <2> HIDE DEF kept
  <2>4. first \in {1, 2}
    OBVIOUS
  <2> HIDE DEF first
  <2>5. /\ Len(changes') = Len(kept) - first + 1
        /\ \A i \in 1..(Len(kept) - first + 1) : changes'[i] = kept[first + i - 1]
    <3>1. \A i \in first..Len(kept) : kept[i] \in SUBSET Page
      BY <2>2, <2>4
    <3> QED BY <2>2, <2>3, <2>4, <3>1, SubSeqProperties
  <2>6. Dropped' = Dropped + first - 1 /\ Dropped \in Int
    <3> DEFINE a == Len(changes)
               b == Len(changes')
    <3>1. sent \in Nat /\ a \in Nat /\ sent' = sent + 1 /\ b = (a + 1) - first + 1
      BY <2>1, <2>2, <2>3, <2>5
    <3>2. Dropped = sent - a /\ Dropped' = sent' - b
      BY DEF Dropped
    <3> HIDE DEF a, b
    <3> QED BY <2>4, <3>1, <3>2
  <2>7. ASSUME NEW i \in 1..Len(kept), i + Dropped > token.revision, p \in kept[i]
        PROVE  Owed(p, token)'
    <3>1. CASE i >= first
      <4> DEFINE n == i - first + 1
      <4>1. n \in 1..Len(changes') /\ changes'[n] = kept[i] /\ n + Dropped' = i + Dropped
        <5>1. n \in 1..(Len(kept) - first + 1) /\ first + n - 1 = i
          BY <2>2, <2>4, <3>1
        <5>2. changes'[n] = kept[first + n - 1]
          BY <2>5, <5>1
        <5>3. n + Dropped' = i + Dropped
          BY <2>2, <2>4, <2>6, <3>1
        <5> HIDE DEF n
        <5> QED BY <2>5, <5>1, <5>2, <5>3
      <4>2. n + Dropped' > token.revision /\ p \in changes'[n]
        BY <2>7, <4>1
      <4> HIDE DEF n
      <4> QED BY <4>1, <4>2 DEF Owed
    <3>2. CASE i < first
      <4>1. i = 1 /\ first = 2
        BY <2>4, <3>2
      <4>2. token.revision < Dropped'
        BY <2>1, <2>6, <2>7, <4>1
      <4> QED BY <4>2 DEF Owed
    <3> QED BY <2>2, <2>4, <3>1, <3>2
  <2>8. CASE token.revision < Dropped
    <3>1. token.revision < Dropped'
      BY <2>1, <2>4, <2>6, <2>8
    <3> QED BY <3>1 DEF Owed
  <2>9. CASE \E n \in 1..Len(changes) : n + Dropped > token.revision /\ p \in changes[n]
    <3>1. PICK n \in 1..Len(changes) : n + Dropped > token.revision /\ p \in changes[n]
      BY <2>9
    <3>2. n \in 1..Len(kept) /\ kept[n] = changes[n]
      BY <2>2
    <3> QED BY <2>7, <3>1, <3>2
  <2>10. CASE p \in change.pages
    <3> DEFINE i == Len(changes) + 1
    <3>1. i \in 1..Len(kept) /\ p \in kept[i]
      BY <2>2, <2>10
    <3>2. i + Dropped > token.revision
      BY <2>1, <2>2 DEF Dropped
    <3> HIDE DEF i
    <3> QED BY <2>7, <3>1, <3>2
  <2> QED BY <1>3, <2>8, <2>9, <2>10 DEF Owed
<1> QED BY <1>2, <1>3

LEMMA AnnounceKeepsInv == ASSUME ReadsInv, Announce PROVE ReadsInv'
<1>1. PICK change \in unannounced :
          /\ unannounced' = unannounced \ {change}
          /\ sent' = IF known THEN sent + 1 ELSE sent
          /\ LET kept == Append(changes, change.pages)
                 first == IF Len(kept) > History THEN 2 ELSE 1
             IN  changes' = IF known THEN SubSeq(kept, first, Len(kept)) ELSE changes
          /\ announced' = [p \in Page |-> IF p \in change.pages THEN data[p] ELSE announced[p]]
          /\ UNCHANGED <<lockVars, epoch, known, request, shown, pollVars, boundVars>>
  BY DEF Announce
<1> USE DEF lockVars, pollVars, boundVars
<1>2. /\ sent' \in Nat /\ sent <= sent' /\ (~known => sent' = 0) /\ changes' \in Seq(SUBSET Page)
      /\ Len(changes') <= sent'
  <2>1. sent \in Nat /\ changes \in Seq(SUBSET Page) /\ change.pages \in SUBSET Page /\ Len(changes) <= sent
        /\ (~known => sent = 0)
    BY DEF ReadsInv, ReadsType, TokensStand
  <2>2. CASE known
    <3> DEFINE kept == Append(changes, change.pages)
               first == IF Len(kept) > History THEN 2 ELSE 1
    <3>1. kept \in Seq(SUBSET Page) /\ Len(kept) = Len(changes) + 1 /\ Len(changes) \in Nat
      BY <2>1, AppendProperties
    <3>2. changes' = SubSeq(kept, first, Len(kept)) /\ sent' = sent + 1
      BY <1>1, <2>2
    <3> HIDE DEF kept
    <3>3. first \in {1, 2}
      OBVIOUS
    <3> HIDE DEF first
    <3>4. changes' \in Seq(SUBSET Page) /\ Len(changes') = Len(kept) - first + 1
      <4>1. \A i \in first..Len(kept) : kept[i] \in SUBSET Page
        BY <3>1, <3>3
      <4> QED BY <3>1, <3>2, <3>3, <4>1, SubSeqProperties
    <3> QED BY <2>1, <2>2, <3>1, <3>2, <3>3, <3>4
  <2>3. CASE ~known
    BY <1>1, <2>1, <2>3
  <2> QED BY <2>2, <2>3
<1>3. ReadsType'
  <2>1. announced' \in [Page -> Nat]
    BY <1>1 DEF ReadsInv, ReadsType
  <2> QED BY <1>1, <1>2, <2>1 DEF ReadsInv, ReadsType
<1>4. CacheIsCurrent' /\ ObservedIsTold' /\ AnnouncedIsCommitted'
  <2>1. AnnouncedIsCommitted'
    BY <1>1 DEF ReadsInv, ReadsType, AnnouncedIsCommitted
  <2> QED BY <1>1, <2>1 DEF ReadsInv, CacheIsCurrent, ObservedIsTold
<1>5. \A token \in TokenRow : Told(token) => Told(token)'
  <2> SUFFICES ASSUME NEW token \in TokenRow, Told(token) PROVE Told(token)'
    OBVIOUS
  <2>1. sent \in Nat /\ token.revision \in Nat
    BY DEF ReadsInv, ReadsType, TokenRow
  <2> QED BY <1>1, <1>2, <2>1 DEF Told, NotLater, Token
<1>6. version \in TokenRow /\ after \in TokenRow
      /\ (poll.at \in {"woken", "replied"} => poll.through \in TokenRow)
      /\ pending.version \in TokenRow
  BY DEF ReadsInv, ReadsType, Polls, NotPolling
<1>7. TokensStand'
  BY <1>1, <1>2, <1>5, <1>6 DEF ReadsInv, TokensStand, NotLater
<1>8. \A p \in Page : Stale(p)' => version # NoRevision /\ (Stale(p) \/ p \in change.pages)
  BY <1>1 DEF Stale, ReadsInv, ObservedIsTold
<1>9. StaleIsOwed'
  <2> SUFFICES ASSUME NEW p \in Page, Stale(p)'
               PROVE  /\ version # NoRevision /\ Owed(p, version)'
                      /\ pending.armed /\ p \notin pending.pages => Owed(p, pending.version)'
                      /\ poll.at = "replied" /\ after # NoRevision /\ p \notin poll.pages \union pending.pages
                         => Owed(p, poll.through)'
    BY <1>1 DEF StaleIsOwed, Owed, Dropped
  <2>0. \A token \in TokenRow : Told(token) /\ (Owed(p, token) \/ p \in change.pages) => Owed(p, token)'
    BY <1>1, AnnouncedIsOwed
  <2>1. version # NoRevision /\ Owed(p, version)'
    <3>1. version # NoRevision /\ Told(version) /\ (Owed(p, version) \/ p \in change.pages)
      BY <1>8 DEF ReadsInv, StaleIsOwed, TokensStand
    <3> QED BY <1>1, <1>6, <2>0, <3>1
  <2>2. ASSUME pending.armed, p \notin pending.pages PROVE Owed(p, pending.version)'
    <3>1. Told(pending.version) /\ (Owed(p, pending.version) \/ p \in change.pages)
      BY <1>8, <2>2 DEF ReadsInv, StaleIsOwed, TokensStand
    <3> QED BY <1>1, <1>6, <2>0, <3>1
  <2>3. ASSUME poll.at = "replied", after # NoRevision, p \notin poll.pages \union pending.pages
        PROVE  Owed(p, poll.through)'
    <3>1. Told(poll.through) /\ (Owed(p, poll.through) \/ p \in change.pages)
      BY <1>8, <2>3 DEF ReadsInv, StaleIsOwed, TokensStand
    <3> QED BY <1>1, <1>6, <2>0, <2>3, <3>1
  <2> QED BY <2>1, <2>2, <2>3
<1> QED BY <1>3, <1>4, <1>7, <1>9 DEF ReadsInv

-----------------------------------------------------------------------------
LEMMA TokenOrder ==
    ASSUME NEW a \in TokenRow, NEW b \in TokenRow
    PROVE  /\ NotLater(a, a)
           /\ NotLater(a, b) /\ NotLater(b, a) => a = b
           /\ \A c \in TokenRow : NotLater(a, b) /\ NotLater(b, c) => NotLater(a, c)
<1>1. a.epoch \in Nat /\ a.revision \in Nat /\ b.epoch \in Nat /\ b.revision \in Nat
  BY DEF TokenRow
<1>2. NotLater(a, a)
  BY <1>1 DEF NotLater
<1>3. ASSUME NotLater(a, b), NotLater(b, a) PROVE a = b
  <2>1. a.epoch = b.epoch /\ a.revision = b.revision
    BY <1>1, <1>3 DEF NotLater
  <2> QED BY <2>1 DEF TokenRow
<1>4. ASSUME NEW c \in TokenRow, NotLater(a, b), NotLater(b, c) PROVE NotLater(a, c)
  <2>1. c.epoch \in Nat /\ c.revision \in Nat
    BY DEF TokenRow
  <2> QED BY <1>1, <1>4, <2>1 DEF NotLater
<1> QED BY <1>2, <1>3, <1>4

\* What the dashboard has in hand.
LEMMA PollIs ==
    ASSUME ReadsInv
    PROVE  /\ version \in TokenRow /\ after \in TokenRow /\ pending.version \in TokenRow
           /\ pending.pages \subseteq Page /\ pending.armed \in BOOLEAN
           /\ Token \in TokenRow /\ NoRevision \in TokenRow /\ Token # NoRevision
           /\ epoch \in Nat /\ epoch > 0 /\ sent \in Nat
           /\ poll.at \in {"idle", "waiting", "lost", "woken", "replied"}
           /\ poll.at = "idle" => poll = NotPolling
           /\ poll.at \in {"woken", "replied"} => poll.through \in TokenRow
           /\ poll.at = "replied" => poll.pages \subseteq Page
           /\ NotPolling \in Polls /\ NotPolling.at = "idle"
           /\ [at |-> "waiting"] \in Polls /\ [at |-> "lost"] \in Polls
<1>1. /\ version \in TokenRow /\ after \in TokenRow /\ pending.version \in TokenRow
      /\ pending.pages \subseteq Page /\ pending.armed \in BOOLEAN
      /\ epoch \in Nat /\ epoch > 0 /\ sent \in Nat
  BY DEF ReadsInv, ReadsType, TokensStand
<1>2. Token \in TokenRow /\ NoRevision \in TokenRow /\ Token # NoRevision
  BY <1>1 DEF Token, NoRevision, TokenRow
<1>3. /\ poll.at \in {"idle", "waiting", "lost", "woken", "replied"}
      /\ poll.at = "idle" => poll = NotPolling
      /\ poll.at \in {"woken", "replied"} => poll.through \in TokenRow
      /\ poll.at = "replied" => poll.pages \subseteq Page
  BY DEF ReadsInv, ReadsType, Polls, NotPolling
<1>4. /\ NotPolling \in Polls /\ NotPolling.at = "idle"
      /\ [at |-> "waiting"] \in Polls /\ [at |-> "lost"] \in Polls
  BY DEF Polls, NotPolling
<1> QED BY <1>1, <1>2, <1>3, <1>4

\* The dashboard goes on: nothing is written, and nothing else is told.
LEMMA PollKeepsInv ==
    ASSUME ReadsInv, UNCHANGED <<lockVars, epoch, sent, changes, unannounced, announced, shown, writes>>,
           known' \in BOOLEAN, request' \in [Page -> Requests], poll' \in Polls, after' \in TokenRow,
           version' \in TokenRow, pending' \in [armed : BOOLEAN, version : TokenRow, pages : SUBSET Page],
           failing' \in BOOLEAN, hidden' \in BOOLEAN,
           TokensStand', StaleIsOwed', version # NoRevision => version' # NoRevision,
           \A p \in Page : request'[p] = request[p] \/ request'[p].at = "sent"
    PROVE  ReadsInv'
<1>1. ReadsType'
  BY DEF ReadsInv, ReadsType, lockVars
<1>2. CacheIsCurrent' /\ AnnouncedIsCommitted'
  BY DEF ReadsInv, CacheIsCurrent, AnnouncedIsCommitted, lockVars
<1>3. ObservedIsTold'
  BY DEF ReadsInv, ObservedIsTold
<1> QED BY <1>1, <1>2, <1>3 DEF ReadsInv

\* What is stale then was stale before, and is not read again.
LEMMA StaleWas ==
    ASSUME ReadsInv, UNCHANGED <<lockVars, epoch, sent, changes, unannounced, announced, shown>>,
           NEW p \in Page, request'[p] = request[p] \/ request'[p].at = "sent", Stale(p)'
    PROVE  /\ Stale(p) /\ request'[p] = request[p] /\ version # NoRevision /\ Owed(p, version)
           /\ pending.armed /\ p \notin pending.pages => Owed(p, pending.version)
           /\ poll.at = "replied" /\ after # NoRevision /\ p \notin poll.pages \union pending.pages
              => Owed(p, poll.through)
<1>1. Stale(p) /\ request'[p] = request[p]
  BY DEF Stale, lockVars
<1> QED BY <1>1 DEF ReadsInv, StaleIsOwed

LEMMA ListenKeepsInv == ASSUME ReadsInv, Listen PROVE ReadsInv'
<1>1. /\ poll = NotPolling /\ ~hidden /\ poll' = [at |-> "waiting"] /\ known' = TRUE
      /\ UNCHANGED <<lockVars, epoch, sent, changes, unannounced, announced, request, shown,
                     after, version, pending, failing, hidden, boundVars>>
  BY DEF Listen
<1>2. TokensStand'
  BY <1>1 DEF ReadsInv, TokensStand, Told, NotLater, Token
<1>3. StaleIsOwed'
  BY <1>1, StaleWas DEF StaleIsOwed, Owed, Dropped
<1> QED BY <1>1, <1>2, <1>3, PollIs, PollKeepsInv DEF ReadsInv, ReadsType, boundVars

LEMMA WakeKeepsInv == ASSUME ReadsInv, Wake PROVE ReadsInv'
<1>1. /\ poll.at = "waiting" /\ poll' = [at |-> "woken", through |-> Token]
      /\ UNCHANGED <<lockVars, updateVars, request, shown, after, version, pending, failing,
                     hidden, boundVars>>
  BY DEF Wake
<1>2. poll' \in Polls /\ poll'.at = "woken" /\ poll'.through = Token
  BY <1>1, PollIs DEF Polls
<1>3. Told(Token) /\ NotLater(after, Token) /\ Token.epoch = epoch
  <2>1. known /\ epoch > 0 /\ ~hidden
    BY <1>1 DEF ReadsInv, TokensStand
  <2>2. Token.epoch = epoch
    BY DEF Token
  <2>3. Told(Token)
    BY <2>1, <2>2, PollIs, TokenOrder DEF Told
  <2>4. NotLater(after, Token)
    <3>1. CASE after = NoRevision
      BY <2>1, <2>2, <3>1 DEF NotLater, NoRevision
    <3>2. CASE after # NoRevision
      BY <3>2 DEF ReadsInv, TokensStand, Told
    <3> QED BY <3>1, <3>2
  <2> QED BY <2>2, <2>3, <2>4
<1>4. TokensStand'
  BY <1>1, <1>2, <1>3 DEF ReadsInv, TokensStand, Told, NotLater, Token, updateVars
<1>5. StaleIsOwed'
  BY <1>1, <1>2, StaleWas DEF StaleIsOwed, Owed, Dropped, updateVars
<1> QED BY <1>1, <1>2, <1>4, <1>5, PollKeepsInv DEF ReadsInv, ReadsType, boundVars, updateVars

\* The reply names what has changed since, unless it is owed still later.
LEMMA SinceNames ==
    ASSUME ReadsInv, NEW through \in TokenRow, Told(through), through.epoch = epoch,
           after # NoRevision, NotLater(after, through)
    PROVE  /\ Since(through) \subseteq Page
           /\ \A p \in Page : Owed(p, after) /\ p \notin Since(through) => Owed(p, through)
<1> DEFINE mayBeAll == \/ after.epoch # epoch
                       \/ after.revision > through.revision
                       \/ changes = <<>>
                       \/ after.revision < sent - Len(changes)
           named == UNION {changes[n - (sent - Len(changes))] :
                           n \in (after.revision + 1)..through.revision}
<1>1. CASE after = through
  BY <1>1 DEF Since
<1>2. CASE after # through /\ mayBeAll
  BY <1>2 DEF Since
<1>3. CASE after # through /\ ~mayBeAll
  <2>1. Since(through) = named
    BY <1>3 DEF Since
  <2>2. /\ changes \in Seq(SUBSET Page) /\ Len(changes) \in Nat /\ sent \in Nat /\ Dropped = sent - Len(changes)
        /\ after.revision \in Nat /\ through.revision \in Nat /\ through.revision <= sent
        /\ after.epoch = epoch /\ after.revision >= Dropped
    <3>1. through.revision <= sent
      BY PollIs DEF Told, NotLater, Token
    <3>2. after.revision \in Nat /\ through.revision \in Nat
      BY PollIs DEF TokenRow
    <3>3. changes \in Seq(SUBSET Page) /\ Len(changes) \in Nat /\ sent \in Nat
      BY DEF ReadsInv, ReadsType
    <3> QED BY <1>3, <3>1, <3>2, <3>3 DEF Dropped
  <2>3. \A n \in (after.revision + 1)..through.revision : n - (sent - Len(changes)) \in 1..Len(changes)
    BY <2>2
  <2>4. named \subseteq Page
    <3>1. \A n \in (after.revision + 1)..through.revision : changes[n - (sent - Len(changes))] \in SUBSET Page
      BY <2>2, <2>3
    <3> QED BY <3>1
  <2>5. ASSUME NEW p \in Page, Owed(p, after), p \notin named PROVE Owed(p, through)
    <3>2. CASE \E n \in 1..Len(changes) : n + Dropped > after.revision /\ p \in changes[n]
      <4>1. PICK n \in 1..Len(changes) : n + Dropped > after.revision /\ p \in changes[n]
        BY <3>2
      <4>2. CASE n + Dropped > through.revision
        BY <4>1, <4>2 DEF Owed
      <4>3. CASE ~(n + Dropped > through.revision)
        <5> DEFINE m == n + Dropped
        <5>1. m \in (after.revision + 1)..through.revision /\ m - (sent - Len(changes)) = n
          BY <2>2, <4>1, <4>3
        <5> HIDE DEF m
        <5>2. p \in named
          BY <4>1, <5>1
        <5> QED BY <2>5, <5>2
      <4> QED BY <4>2, <4>3
    <3>3. ~(after.revision < Dropped) /\ after.epoch = epoch
      BY <2>2
    <3> QED BY <2>5, <3>2, <3>3 DEF Owed
  <2> QED BY <2>1, <2>4, <2>5
<1> QED BY <1>1, <1>2, <1>3

LEMMA ReplyKeepsInv == ASSUME ReadsInv, Reply PROVE ReadsInv'
<1>1. /\ poll.at = "woken"
      /\ poll' = [at |-> "replied", through |-> poll.through, pages |-> Since(poll.through)]
      /\ UNCHANGED <<lockVars, updateVars, request, shown, after, version, pending, failing,
                     hidden, boundVars>>
  BY DEF Reply
<1>2. /\ poll.through \in TokenRow /\ Told(poll.through) /\ poll.through.epoch = epoch
      /\ NotLater(after, poll.through) /\ ~hidden
  BY <1>1, PollIs DEF ReadsInv, TokensStand
<1>3. Since(poll.through) \subseteq Page
  <2>1. CASE after = NoRevision
    <3>1. after.epoch # epoch /\ after # poll.through
      BY <1>2, <2>1, PollIs DEF NoRevision
    <3> QED BY <3>1 DEF Since
  <2>2. CASE after # NoRevision
    BY <1>2, <2>2, SinceNames
  <2> QED BY <2>1, <2>2
<1>4. poll' \in Polls /\ poll'.at = "replied" /\ poll'.through = poll.through /\ poll'.pages = Since(poll.through)
  BY <1>1, <1>2, <1>3 DEF Polls
<1>5. TokensStand'
  BY <1>1, <1>2, <1>4 DEF ReadsInv, TokensStand, Told, NotLater, Token, updateVars
<1>6. StaleIsOwed'
  <2> SUFFICES ASSUME NEW p \in Page, Stale(p)'
               PROVE  /\ version # NoRevision /\ Owed(p, version)
                      /\ pending.armed /\ p \notin pending.pages => Owed(p, pending.version)
                      /\ after # NoRevision /\ p \notin Since(poll.through) \union pending.pages
                         => Owed(p, poll.through)
    BY <1>1, <1>4 DEF StaleIsOwed, Owed, Dropped, updateVars
  <2>1. /\ version # NoRevision /\ Owed(p, version)
        /\ pending.armed /\ p \notin pending.pages => Owed(p, pending.version)
    BY <1>1, StaleWas DEF updateVars
  <2>2. ASSUME after # NoRevision, p \notin Since(poll.through) \union pending.pages
        PROVE  Owed(p, poll.through)
    <3>1. Owed(p, after)
      BY <1>2, <2>1, <2>2 DEF ReadsInv, TokensStand
    <3> QED BY <1>2, <2>2, <3>1, SinceNames
  <2> QED BY <2>1, <2>2
<1> QED BY <1>1, <1>4, <1>5, <1>6, PollKeepsInv DEF ReadsInv, ReadsType, boundVars, updateVars

\* What the dashboard reads again is asked for.
LEMMA RereadIs ==
    ASSUME ReadsInv, NEW token, NEW pages, Observe(token, pages)
    PROVE  /\ request' \in [Page -> Requests]
           /\ \A p \in Page : request'[p] = request[p] \/ request'[p].at = "sent"
           /\ version \notin {NoRevision, token} => \A p \in pages \cap Page : request'[p].at = "sent"
<1>1. request \in [Page -> Requests]
  BY DEF ReadsInv, ReadsType
<1>2. Reread(pages) \in [Page -> Requests]
  BY <1>1, RequestIs DEF Reread
<1>3. \A p \in Page : Reread(pages)[p] = request[p] \/ Reread(pages)[p].at = "sent"
  BY DEF Reread, Sent
<1>4. \A p \in pages \cap Page : Reread(pages)[p].at = "sent"
  BY DEF Reread, Sent
<1> QED BY <1>1, <1>2, <1>3, <1>4 DEF Observe

LEMMA ReceiveKeepsInv == ASSUME ReadsInv, Receive PROVE ReadsInv'
<1>1. /\ poll.at = "replied" /\ after' = poll.through /\ failing' = FALSE /\ poll' = NotPolling
      /\ UNCHANGED <<lockVars, updateVars, shown, hidden, boundVars>>
  BY DEF Receive
<1>2. /\ poll.through \in TokenRow /\ Told(poll.through) /\ NotLater(after, poll.through)
      /\ poll.pages \subseteq Page /\ ~hidden /\ poll.through # NoRevision
  <2>1. poll.through.epoch > 0
    BY <1>1 DEF ReadsInv, TokensStand, Told
  <2>2. poll.through # NoRevision
    BY <2>1 DEF NoRevision
  <2> QED BY <1>1, <2>2, PollIs DEF ReadsInv, TokensStand
<1>3. CASE after = NoRevision
  <2>1. Observe(poll.through, Page) /\ UNCHANGED pending
    BY <1>3 DEF Receive
  <2>2. version' = poll.through
    BY <2>1 DEF Observe
  <2>3. ~pending.armed
    BY <1>3 DEF ReadsInv, TokensStand
  <2>4. TokensStand'
    BY <1>1, <1>2, <2>1, <2>2, <2>3, PollIs DEF ReadsInv, TokensStand, Told, NotLater, Token, updateVars
  <2>5. StaleIsOwed'
    <3> SUFFICES ASSUME NEW p \in Page, Stale(p)' PROVE version' # NoRevision /\ Owed(p, version)'
      BY <1>1, <2>1, <2>3, PollIs DEF StaleIsOwed
    <3>1. Stale(p) /\ request'[p] = request[p] /\ version # NoRevision /\ Owed(p, version)
      BY <1>1, <2>1, RereadIs, StaleWas DEF updateVars
    <3>2. request[p].at # "sent"
      BY <3>1 DEF Stale
    <3>3. version = poll.through
      BY <2>1, <3>1, <3>2, RereadIs
    <3> QED BY <1>1, <2>2, <3>1, <3>3 DEF Owed, Dropped, updateVars
  <2>6. version' \in TokenRow /\ version' # NoRevision /\ request' \in [Page -> Requests]
        /\ \A p \in Page : request'[p] = request[p] \/ request'[p].at = "sent"
    BY <1>2, <2>1, <2>2, RereadIs
  <2> QED BY <1>1, <1>2, <2>1, <2>4, <2>5, <2>6, PollIs, PollKeepsInv
          DEF ReadsInv, ReadsType, boundVars, updateVars
<1>4. CASE after # NoRevision
  <2>1. /\ UNCHANGED <<version, request>>
        /\ pending' = IF poll.through = after THEN pending
                      ELSE [armed |-> TRUE, version |-> poll.through, pages |-> pending.pages \union poll.pages]
    BY <1>4 DEF Receive
  <2>2. request' \in [Page -> Requests] /\ \A p \in Page : request'[p] = request[p]
    BY <2>1 DEF ReadsInv, ReadsType
  <2>3. CASE poll.through = after
    <3>1. UNCHANGED <<after, pending>>
      BY <1>1, <2>1, <2>3
    <3>2. TokensStand'
      BY <1>1, <2>1, <3>1, PollIs DEF ReadsInv, TokensStand, Told, NotLater, Token, updateVars
    <3>3. StaleIsOwed'
      <4> SUFFICES ASSUME NEW p \in Page, Stale(p)'
                   PROVE  /\ version' # NoRevision /\ Owed(p, version)'
                          /\ pending.armed /\ p \notin pending.pages => Owed(p, pending.version)'
        BY <1>1, <3>1, PollIs DEF StaleIsOwed
      <4> QED BY <1>1, <2>1, <2>2, <3>1, StaleWas DEF Owed, Dropped, updateVars
    <3> QED BY <1>1, <1>2, <2>1, <2>2, <3>1, <3>2, <3>3, PollIs, PollKeepsInv
            DEF ReadsInv, ReadsType, boundVars, updateVars
  <2>4. CASE poll.through # after
    <3>1. /\ pending' = [armed |-> TRUE, version |-> poll.through, pages |-> pending.pages \union poll.pages]
          /\ pending' \in [armed : BOOLEAN, version : TokenRow, pages : SUBSET Page]
          /\ pending'.armed /\ pending'.version = poll.through /\ pending'.pages = pending.pages \union poll.pages
      BY <1>2, <2>1, <2>4, PollIs
    <3>2. version # poll.through /\ NotLater(version, poll.through)
      <4>1. CASE pending.armed
        <5>1. NotLater(version, after)
          BY <4>1 DEF ReadsInv, TokensStand
        <5> QED BY <1>2, <2>4, <5>1, PollIs, TokenOrder
      <4>2. CASE ~pending.armed
        <5>1. version = after
          BY <1>2, <1>4, <4>2 DEF ReadsInv, TokensStand
        <5> QED BY <1>2, <2>4, <5>1
      <4> QED BY <4>1, <4>2
    <3>3. TokensStand'
      <4> HIDE DEF NotLater
      <4>1. Told(pending.version)'
        BY <1>1, <1>2, <3>1 DEF Told, NotLater, Token, updateVars
      <4>2. version # NoRevision => Told(version)'
        BY <1>1, <2>1 DEF ReadsInv, TokensStand, Told, NotLater, Token, updateVars
      <4>3. NotLater(version, pending.version)'
        BY <1>1, <2>1, <3>1, <3>2 DEF NotLater
      <4> QED BY <1>1, <1>2, <2>1, <3>1, <3>2, <4>1, <4>2, <4>3, PollIs DEF ReadsInv, TokensStand, updateVars
    <3>4. StaleIsOwed'
      <4> SUFFICES ASSUME NEW p \in Page, Stale(p)'
                   PROVE  /\ version' # NoRevision /\ Owed(p, version)'
                          /\ p \notin pending'.pages => Owed(p, pending.version)'
        BY <1>1, <3>1, PollIs DEF StaleIsOwed
      <4>1. /\ version # NoRevision /\ Owed(p, version)
            /\ p \notin poll.pages \union pending.pages => Owed(p, poll.through)
        BY <1>1, <1>4, <2>2, StaleWas DEF updateVars
      <4> QED BY <1>1, <2>1, <3>1, <4>1 DEF Owed, Dropped, updateVars
    <3> QED BY <1>1, <1>2, <2>1, <2>2, <3>1, <3>3, <3>4, PollIs, PollKeepsInv
            DEF ReadsInv, ReadsType, boundVars, updateVars
  <2> QED BY <2>3, <2>4
<1> QED BY <1>3, <1>4

LEMMA RefreshPagesKeepsInv == ASSUME ReadsInv, RefreshPages PROVE ReadsInv'
<1>1. /\ pending.armed /\ Observe(pending.version, pending.pages) /\ pending' = Still
      /\ UNCHANGED <<lockVars, updateVars, shown, poll, after, failing, hidden, boundVars>>
  BY DEF RefreshPages
<1>2. version' = pending.version
  BY <1>1 DEF Observe
<1>3. after # NoRevision /\ pending.version = after /\ version # after
  BY <1>1 DEF ReadsInv, TokensStand
<1>4. /\ ~pending'.armed /\ pending'.pages = {}
      /\ pending' \in [armed : BOOLEAN, version : TokenRow, pages : SUBSET Page]
  BY <1>1, PollIs DEF Still
<1>5. TokensStand'
  <2>1. Told(after)'
    BY <1>1, <1>3 DEF ReadsInv, TokensStand, Told, NotLater, Token, updateVars
  <2>2. poll.at \in {"woken", "replied"} => Told(poll.through)' /\ NotLater(after, poll.through)'
    BY <1>1 DEF ReadsInv, TokensStand, Told, NotLater, Token, updateVars
  <2> QED BY <1>1, <1>2, <1>3, <1>4, <2>1, <2>2 DEF ReadsInv, TokensStand, updateVars
<1>6. StaleIsOwed'
  <2> SUFFICES ASSUME NEW p \in Page, Stale(p)'
               PROVE  /\ version' # NoRevision /\ Owed(p, pending.version)
                      /\ poll.at = "replied" /\ after # NoRevision /\ p \notin poll.pages
                         => Owed(p, poll.through)
    BY <1>1, <1>2, <1>4 DEF StaleIsOwed, Owed, Dropped, updateVars
  <2>1. /\ Stale(p) /\ request'[p] = request[p] /\ version # NoRevision
        /\ p \notin pending.pages => Owed(p, pending.version)
        /\ poll.at = "replied" /\ after # NoRevision /\ p \notin poll.pages \union pending.pages
           => Owed(p, poll.through)
    BY <1>1, RereadIs, StaleWas DEF updateVars
  <2>2. request[p].at # "sent"
    BY <2>1 DEF Stale
  <2>3. p \notin pending.pages
    BY <1>1, <1>3, <2>1, <2>2, RereadIs
  <2> QED BY <1>2, <1>3, <2>1, <2>3
<1>7. version' \in TokenRow /\ version' # NoRevision /\ request' \in [Page -> Requests]
      /\ \A p \in Page : request'[p] = request[p] \/ request'[p].at = "sent"
  BY <1>1, <1>2, <1>3, PollIs, RereadIs
<1> QED BY <1>1, <1>4, <1>5, <1>6, <1>7, PollKeepsInv DEF ReadsInv, ReadsType, boundVars, updateVars

LEMMA PollFailsKeepsInv == ASSUME ReadsInv, PollFails PROVE ReadsInv'
<1>1. /\ poll' = NotPolling /\ failing' = TRUE
      /\ request' = IF failing THEN request ELSE Reread(Page)
      /\ UNCHANGED <<lockVars, updateVars, shown, after, version, pending, hidden, writes>>
  BY DEF PollFails
<1>2. request' \in [Page -> Requests] /\ \A p \in Page : request'[p] = request[p] \/ request'[p].at = "sent"
  <2>1. request \in [Page -> Requests]
    BY DEF ReadsInv, ReadsType
  <2>2. Reread(Page) \in [Page -> Requests] /\ \A p \in Page : Reread(Page)[p].at = "sent"
    BY <2>1, RequestIs DEF Reread
  <2> QED BY <1>1, <2>1, <2>2
<1>3. TokensStand'
  BY <1>1, PollIs DEF ReadsInv, TokensStand, Told, NotLater, Token, updateVars
<1>4. StaleIsOwed'
  <2> SUFFICES ASSUME NEW p \in Page, Stale(p)'
               PROVE  /\ version' # NoRevision /\ Owed(p, version)'
                      /\ pending.armed /\ p \notin pending.pages => Owed(p, pending.version)'
    BY <1>1, PollIs DEF StaleIsOwed
  <2> QED BY <1>1, <1>2, StaleWas DEF Owed, Dropped, updateVars
<1> QED BY <1>1, <1>2, <1>3, <1>4, PollIs, PollKeepsInv DEF ReadsInv, ReadsType, updateVars

LEMMA HideKeepsInv == ASSUME ReadsInv, Hide PROVE ReadsInv'
<1>1. /\ hidden' = TRUE /\ poll' = NotPolling /\ pending' = Still
      /\ UNCHANGED <<lockVars, updateVars, request, shown, after, version, failing, writes>>
  BY DEF Hide
<1>2. /\ ~pending'.armed /\ pending'.pages = {}
      /\ pending' \in [armed : BOOLEAN, version : TokenRow, pages : SUBSET Page]
  BY <1>1, PollIs DEF Still
<1>3. TokensStand'
  BY <1>1, <1>2, PollIs DEF ReadsInv, TokensStand, Told, NotLater, Token, updateVars
<1>4. StaleIsOwed'
  <2> SUFFICES ASSUME NEW p \in Page, Stale(p)' PROVE version' # NoRevision /\ Owed(p, version)'
    BY <1>1, <1>2, PollIs DEF StaleIsOwed
  <2> QED BY <1>1, StaleWas DEF Owed, Dropped, updateVars
<1> QED BY <1>1, <1>2, <1>3, <1>4, PollIs, PollKeepsInv DEF ReadsInv, ReadsType, updateVars

LEMMA ShowKeepsInv == ASSUME ReadsInv, Show PROVE ReadsInv'
<1>1. /\ hidden /\ hidden' = FALSE /\ after' = NoRevision
      /\ UNCHANGED <<lockVars, updateVars, request, shown, poll, version, pending, failing, boundVars>>
  BY DEF Show
<1>2. poll.at = "idle" /\ ~pending.armed
  BY <1>1 DEF ReadsInv, TokensStand
<1>3. TokensStand'
  BY <1>1, <1>2, PollIs DEF ReadsInv, TokensStand, Told, NotLater, Token, updateVars
<1>4. StaleIsOwed'
  <2> SUFFICES ASSUME NEW p \in Page, Stale(p)' PROVE version' # NoRevision /\ Owed(p, version)'
    BY <1>1, <1>2 DEF StaleIsOwed
  <2> QED BY <1>1, StaleWas DEF Owed, Dropped, updateVars
<1> QED BY <1>1, <1>3, <1>4, PollIs, PollKeepsInv DEF ReadsInv, ReadsType, boundVars, updateVars

\* Every revision the dashboard has is of an earlier process: everything is owed.
LEMMA RestartKeepsInv == ASSUME ReadsInv, RestartProcess PROVE ReadsInv'
<1>1. /\ epoch' = epoch + 1 /\ known' = FALSE /\ sent' = 0 /\ changes' = <<>> /\ unannounced' = {}
      /\ announced' = data /\ revision' = 0 /\ writer' = {} /\ loads' = {} /\ entries' = <<>>
      /\ request' = [p \in Page |-> IF request[p].at = "loading" THEN NotPolling ELSE request[p]]
      /\ poll' = IF poll.at \in {"waiting", "woken"} THEN [at |-> "lost"] ELSE poll
      /\ UNCHANGED <<data, shown, after, version, pending, failing, hidden, writes>>
  BY DEF RestartProcess
<1>2. epoch \in Nat /\ epoch > 0 /\ epoch' \in Nat /\ epoch' > epoch
  BY <1>1, PollIs
<1>3. poll' \in Polls
  BY <1>1, PollIs DEF ReadsInv, ReadsType
<1>4. request' \in [Page -> Requests]
  <2>1. request \in [Page -> Requests]
    BY DEF ReadsInv, ReadsType
  <2> QED BY <1>1, <2>1, RequestIs
<1>5. ReadsType'
  <2>1. /\ changes' \in Seq(SUBSET Page) /\ entries' \in Seq(EntryRow) /\ known' \in BOOLEAN
        /\ sent' \in Nat /\ revision' \in Nat /\ writer' \subseteq Page
        /\ unannounced' \subseteq [pages : SUBSET Page, write : Nat] /\ announced' \in [Page -> Nat]
        /\ loads' \subseteq [page : Page, revision : Nat]
    <3>1. <<>> \in Seq(SUBSET Page) /\ <<>> \in Seq(EntryRow)
      OBVIOUS
    <3>2. data \in [Page -> Nat]
      BY DEF ReadsInv, ReadsType
    <3> QED BY <1>1, <3>1, <3>2
  <2>2. UNCHANGED <<data, shown, after, version, pending, failing, hidden, writes>>
    BY <1>1
  <2> QED BY <1>2, <1>3, <1>4, <2>1, <2>2 DEF ReadsInv, ReadsType
<1>6. CacheIsCurrent' /\ AnnouncedIsCommitted'
  BY <1>1 DEF CacheIsCurrent, AnnouncedIsCommitted, ReadsInv, ReadsType
<1>7. \A token \in TokenRow : Told(token) => Told(token)' /\ \A p \in Page : Owed(p, token)'
  <2> SUFFICES ASSUME NEW token \in TokenRow, Told(token)
               PROVE  Told(token)' /\ \A p \in Page : Owed(p, token)'
    OBVIOUS
  <2>1. token.epoch \in Nat /\ token.epoch <= epoch
    BY <1>2 DEF TokenRow, Told, NotLater, Token
  <2>2. token.epoch # epoch' /\ token.epoch < epoch'
    BY <1>2, <2>1
  <2>3. Told(token)'
    BY <2>1, <2>2 DEF Told, NotLater, Token
  <2> QED BY <2>2, <2>3 DEF Owed
<1>8. /\ version # NoRevision => Told(version)
      /\ after # NoRevision => Told(after)
      /\ poll.at = "replied" => Told(poll.through)
      /\ pending.armed => Told(pending.version)
  BY DEF ReadsInv, TokensStand
<1>9. UNCHANGED <<version, after, pending>> /\ (poll'.at = "replied" => poll' = poll /\ poll.at = "replied")
      /\ poll'.at \notin {"waiting", "woken"} /\ (poll'.at # "idle" => poll.at # "idle") /\ UNCHANGED hidden
  BY <1>1, PollIs
<1>10. TokensStand'
  <2>1. /\ version # NoRevision => Told(version)'
        /\ after # NoRevision => Told(after)'
    BY <1>7, <1>8, <1>9, PollIs
  <2>2. poll'.at = "replied" => Told(poll.through)' /\ NotLater(after, poll.through)'
    <3> SUFFICES ASSUME poll'.at = "replied" PROVE Told(poll.through)' /\ NotLater(after, poll.through)'
      OBVIOUS
    <3>1. poll' = poll /\ poll.at = "replied" /\ UNCHANGED after
      BY <1>9
    <3>2. Told(poll.through) /\ NotLater(after, poll.through) /\ poll.through \in TokenRow
      BY <3>1, PollIs DEF ReadsInv, TokensStand
    <3> QED BY <1>7, <3>1, <3>2 DEF NotLater
  <2>3. epoch' > 0 /\ Len(changes') <= sent' /\ sent' = 0
    BY <1>1, <1>2
  <2> HIDE DEF NotLater
  <2> QED BY <1>9, <2>1, <2>2, <2>3 DEF ReadsInv, TokensStand, NotLater
<1>11. StaleIsOwed'
  <2> SUFFICES ASSUME NEW p \in Page, Stale(p)'
               PROVE  /\ version' # NoRevision /\ Owed(p, version)'
                      /\ pending'.armed => Owed(p, pending.version)'
                      /\ poll'.at = "replied" => Owed(p, poll.through)'
    BY DEF StaleIsOwed
  <2>1. version # NoRevision
    <3>1. \/ shown[p].observed
          \/ request'[p].at = "answered" /\ request'[p].observed
      BY <1>1 DEF Stale
    <3>2. CASE request[p].at = "loading"
      BY <1>1, <3>1, <3>2 DEF NotPolling, ReadsInv, ObservedIsTold
    <3>3. CASE request[p].at # "loading"
      BY <1>1, <3>1, <3>3 DEF ReadsInv, ObservedIsTold
    <3> QED BY <3>2, <3>3
  <2>2. Owed(p, version)' /\ version' # NoRevision
    BY <1>7, <1>8, <1>9, <2>1, PollIs
  <2>3. pending'.armed => Owed(p, pending.version)'
    BY <1>7, <1>8, <1>9, PollIs
  <2>4. poll'.at = "replied" => Owed(p, poll.through)'
    BY <1>7, <1>8, <1>9, PollIs
  <2> QED BY <2>2, <2>3, <2>4
<1>12. ObservedIsTold'
  BY <1>1 DEF ReadsInv, ObservedIsTold, NotPolling
<1> QED BY <1>5, <1>6, <1>10, <1>11, <1>12 DEF ReadsInv

-----------------------------------------------------------------------------
LEMMA InitHolds == ASSUME ReadsInit PROVE ReadsInv
<1>1. NotPolling \in Polls /\ NoRevision \in TokenRow /\ Sent \in Requests /\ NotPolling.at = "idle"
      /\ Sent.at = "sent"
  BY DEF Polls, NotPolling, NoRevision, TokenRow, Sent, Requests
<1>2. Still \in [armed : BOOLEAN, version : TokenRow, pages : SUBSET Page] /\ ~Still.armed /\ Still.pages = {}
  BY <1>1 DEF Still
<1>3. ReadsType
  <2>1. <<>> \in Seq(SUBSET Page) /\ <<>> \in Seq(EntryRow) /\ 0 \in Nat /\ 1 \in Nat
    OBVIOUS
  <2>2. [p \in Page |-> Sent] \in [Page -> Requests] /\ [p \in Page |-> 0] \in [Page -> Nat]
        /\ [p \in Page |-> [value |-> 0, observed |-> FALSE]] \in [Page -> [value : Nat, observed : BOOLEAN]]
    BY <1>1
  <2> QED BY <1>1, <1>2, <2>1, <2>2 DEF ReadsInit, ReadsType
<1>4. CacheIsCurrent /\ AnnouncedIsCommitted
  BY DEF ReadsInit, CacheIsCurrent, AnnouncedIsCommitted
<1>5. TokensStand
  BY <1>1, <1>2 DEF ReadsInit, TokensStand
<1>6. \A p \in Page : request[p].at = "sent" /\ ~shown[p].observed
  BY <1>1 DEF ReadsInit
<1>7. StaleIsOwed /\ ObservedIsTold
  BY <1>6 DEF StaleIsOwed, Stale, ObservedIsTold
<1> QED BY <1>3, <1>4, <1>5, <1>7 DEF ReadsInv

LEMMA StutterKeepsInv == ASSUME ReadsInv, UNCHANGED readsVars PROVE ReadsInv'
<1> USE DEF readsVars, lockVars, updateVars, pollVars, boundVars
<1>1. ReadsType'
  BY DEF ReadsInv, ReadsType
<1>2. CacheIsCurrent' /\ AnnouncedIsCommitted' /\ ObservedIsTold'
  BY DEF ReadsInv, CacheIsCurrent, AnnouncedIsCommitted, ObservedIsTold
<1>3. TokensStand'
  BY DEF ReadsInv, TokensStand, Told, NotLater, Token
<1>4. StaleIsOwed'
  BY DEF ReadsInv, StaleIsOwed, Stale, Owed, Dropped
<1> QED BY <1>1, <1>2, <1>3, <1>4 DEF ReadsInv

LEMMA NextKeepsInv == ASSUME ReadsInv, [ReadsNext]_readsVars PROVE ReadsInv'
<1>1. ASSUME NEW p \in Page, ReadFromCache(p) \/ StartLoad(p) \/ SaveEntry(p) PROVE ReadsInv'
  BY <1>1, ReadFromCacheKeepsInv, StartLoadKeepsInv, SaveEntryKeepsInv
<1>2. CASE UNCHANGED readsVars
  BY <1>2, StutterKeepsInv
<1> QED BY <1>1, <1>2, StartWriteKeepsInv, CommitWriteKeepsInv, FailWriteKeepsInv, AnnounceKeepsInv,
        FinishLoadKeepsInv, ListenKeepsInv, WakeKeepsInv, ReplyKeepsInv, ReceiveKeepsInv,
        RefreshPagesKeepsInv, PollFailsKeepsInv, HideKeepsInv, ShowKeepsInv, RestartKeepsInv DEF ReadsNext

\* The cache, the revisions and what the dashboard is still to be told of stand in every state
\* that is reached.
THEOREM ReadsInvHolds == ReadsSpec => []ReadsInv
<1>1. ReadsInit => ReadsInv
  BY InitHolds
<1>2. ReadsInv /\ [ReadsNext]_readsVars => ReadsInv'
  BY NextKeepsInv
<1> QED BY <1>1, <1>2, PTL DEF ReadsSpec

\* A dashboard with nothing left to read shows each page at least as it was announced last
\* (QuietPagesAreAnnounced).
THEOREM QuietPagesHold == ReadsSpec => []QuietPagesAreAnnounced
<1>1. ASSUME ReadsInv PROVE QuietPagesAreAnnounced
  <2> SUFFICES ASSUME Quiet, NEW p \in Page, shown[p].observed, shown[p].value < announced[p] PROVE FALSE
    <3>1. \A p \in Page : shown[p].value \in Nat /\ announced[p] \in Nat
      BY <1>1 DEF ReadsInv, ReadsType
    <3> QED BY <3>1 DEF QuietPagesAreAnnounced
  <2>1. /\ request[p] = NotPolling /\ poll.at = "waiting" /\ after = Token
        /\ ~pending.armed
    BY DEF Quiet
  <2>2. Stale(p)
    BY <2>1 DEF Stale, NotPolling
  <2>3. version = Token
    BY <1>1, <2>1, PollIs DEF ReadsInv, TokensStand
  <2>4. Owed(p, Token)
    BY <1>1, <2>2, <2>3 DEF ReadsInv, StaleIsOwed
  <2>5. Dropped + Len(changes) = sent /\ Len(changes) \in Nat /\ sent \in Nat /\ Dropped <= sent
    <3>1. sent \in Nat /\ changes \in Seq(SUBSET Page)
      BY <1>1 DEF ReadsInv, ReadsType
    <3> QED BY <3>1 DEF Dropped
  <2>6. Token.epoch = epoch /\ Token.revision = sent
    BY DEF Token
  <2>7. \A n \in 1..Len(changes) : ~(n + Dropped > sent)
    BY <2>5 DEF Dropped
  <2>8. ~(sent < Dropped)
    BY <2>5 DEF Dropped
  <2> QED BY <2>1, <2>4, <2>6, <2>7, <2>8 DEF Owed
<1> QED BY <1>1, ReadsInvHolds, PTL

\* Whatever answers a request, the cache or the database, answers with what the database holds
\* (AnswersAreCurrent).
THEOREM AnswersHold == ReadsSpec => AnswersAreCurrent
<1> DEFINE Current1 == \A p \in Page : request'[p].at = "answered" /\ request[p].at # "answered"
                                       => request'[p].value = data[p]
<1>1. ASSUME ReadsInv, [ReadsNext]_readsVars PROVE [Current1]_readsVars
  <2>0. SUFFICES ASSUME NEW p \in Page, request'[p].at = "answered", request[p].at # "answered"
                 PROVE  request'[p].value = data[p]
    OBVIOUS
  <2>1. request \in [Page -> Requests]
    BY <1>1 DEF ReadsInv, ReadsType
  <2>2. ASSUME NEW q \in Page, ReadFromCache(q) PROVE request'[p].value = data[p]
    <3>1. request' = [request EXCEPT ![q] =
              [at |-> "answered", value |-> Of(q, Current)[1].value, observed |-> version # NoRevision]]
          /\ writer = {} /\ Of(q, Current) # <<>>
      BY <2>2 DEF ReadFromCache, Answered
    <3>2. Of(q, Current)[1].value = data[q]
      BY <1>1, <3>1, AnswerIsCurrent
    <3> QED BY <2>0, <2>1, <3>1, <3>2
  <2>3. ASSUME NEW q \in Page, StartLoad(q) PROVE FALSE
    BY <2>0, <2>1, <2>3 DEF StartLoad
  <2>4. ASSUME NEW q \in Page, SaveEntry(q) PROVE FALSE
    BY <2>0, <2>1, <2>4 DEF SaveEntry, NotPolling
  <2>5. CASE FinishLoad
    <3>1. PICK load \in loads :
              IF request[load.page].at = "loading"
              THEN request' = [request EXCEPT ![load.page] =
                       [at |-> "answered", value |-> data[load.page], observed |-> version # NoRevision]]
              ELSE UNCHANGED request
      BY <2>5 DEF FinishLoad, Answered
    <3>2. load.page \in Page
      BY <1>1 DEF ReadsInv, ReadsType
    <3> QED BY <2>0, <2>1, <3>1, <3>2
  <2>6. \A token, pages : Observe(token, pages) => request'[p] = request[p] \/ request'[p].at = "sent"
    BY <1>1, RereadIs
  <2>7. ASSUME Receive \/ RefreshPages PROVE FALSE
    BY <2>0, <2>6, <2>7 DEF Receive, RefreshPages
  <2>8. ASSUME PollFails \/ RestartProcess PROVE FALSE
    BY <2>0, <2>1, <2>8 DEF PollFails, RestartProcess, Reread, Sent, NotPolling
  <2>9. ASSUME UNCHANGED request PROVE FALSE
    BY <2>0, <2>9
  <2>10. ASSUME \/ StartWrite \/ CommitWrite \/ FailWrite \/ Announce \/ Listen \/ Wake \/ Reply
                \/ Hide \/ Show \/ UNCHANGED readsVars
         PROVE  FALSE
    BY <2>9, <2>10 DEF StartWrite, CommitWrite, FailWrite, EndWrite, Announce, Listen, Wake, Reply, Hide, Show, readsVars
  <2> QED BY <1>1, <2>2, <2>3, <2>4, <2>5, <2>7, <2>8, <2>10 DEF ReadsNext
<1> QED BY <1>1, ReadsInvHolds, PTL DEF ReadsSpec, AnswersAreCurrent
=============================================================================
