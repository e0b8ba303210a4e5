------------------------------- MODULE Storage -------------------------------
(***************************************************************************)
(* One DSP's databases: provisioned when the DSP is created, opened and    *)
(* migrated when the platform starts, added to when a release brings a new *)
(* provider or a new storage, and put back from a backup (collectors/mod.rs*)
(* db/migrations.rs, db/connection.rs, db/store.rs, tenants.rs provision,  *)
(* operations.rs backup and restore).                                      *)
(*                                                                         *)
(* A database is told apart by whether it exists, by how many of its       *)
(* kind's migrations it has, and by whether it holds the DSP's data.       *)
(***************************************************************************)
EXTENDS Integers, Sequences, FiniteSets

CONSTANTS
  Lists,       \* Lists[r][k]: migrations of kind k in release r, 0: r has no such kind
  MaxFaults    \* bound: crashes, failures and lost files

Kind  == {"core", "paycom", "cortex", "scorecard"}
Added == {"cortex", "scorecard"}    \* installed later, behind a marker in the core database
Release == 1 .. Len(Lists)

ASSUME StorageAssumption ==
  /\ Lists \in Seq([Kind -> Nat]) /\ Len(Lists) > 0 /\ MaxFaults \in Nat
  /\ \A r \in Release : r + 1 \in Release => \A k \in Kind : Lists[r][k] <= Lists[r + 1][k]

VARIABLES
  db,         \* what is on disk for each kind
  marks,      \* the layout and the added storages the core database says exist
  dspStatus,  \* the DSP's status in the platform database
  onDisk,    \* the release installed
  process,    \* "down", "starting", "up", or "refused" to start
  todo,       \* what startup or provisioning has left to do
  copy,       \* the backup, if one was made
  had,        \* the kinds that hold data of the DSP
  lost,       \* the kinds whose file was lost since it was made
  faults      \* crashes, failures and losses so far

storageVars == <<db, marks, dspStatus, onDisk, process, todo, copy, had, lost, faults>>

Absent == [made |-> FALSE, list |-> 0, data |-> FALSE]
NoCopy == [taken |-> FALSE]
Knows(k) == Lists[onDisk][k] > 0
\* A migration another release made is kept; what this one lacks is not undone.
Migrated(d, k) == [d EXCEPT !.list = IF @ < Lists[onDisk][k] THEN Lists[onDisk][k] ELSE @]
\* Created when missing: the schema, its migrations and its seed in one transaction.
Created(k) == [Migrated(IF db[k].made THEN db[k] ELSE Absent, k) EXCEPT !.made = TRUE]

\* In the order the code works through them.
Opening      == <<"core", "layout", "paycom", "cortex", "mark cortex", "scorecard", "mark scorecard", "rest">>
ProvisioningLayoutLast ==
  <<"core", "paycom", "cortex", "mark cortex", "scorecard", "mark scorecard", "rest", "layout">>
Provisioning == <<"core", "paycom", "layout", "cortex", "mark cortex", "scorecard", "mark scorecard", "rest">>
At(what) == todo # <<>> /\ Head(todo) = what
Next1 == todo' = Tail(todo)
Starting == process = "starting"
MarkOf == [c \in {"mark cortex", "mark scorecard"} |-> IF c = "mark cortex" THEN "cortex" ELSE "scorecard"]

\* Startup stops and the service does not serve.
Refuse == process' = "refused" /\ todo' = <<>>
\* Provisioning ends, to be asked for again.
GaveUp == dspStatus' = "failed" /\ todo' = <<>>
Broken == IF Starting THEN Refuse /\ UNCHANGED dspStatus ELSE GaveUp /\ UNCHANGED process

-----------------------------------------------------------------------------
\* The platform starts: a DSP that was never provisioned is left alone.
StartProcess ==
  /\ process = "down"
  /\ IF dspStatus = "active" THEN process' = "starting" /\ todo' = Opening
     ELSE process' = "up" /\ todo' = <<>>
  /\ UNCHANGED <<db, marks, dspStatus, onDisk, copy, had, lost, faults>>

Provision ==
  /\ process = "up" /\ todo = <<>> /\ dspStatus \in {"provisioning", "failed"}
  /\ todo' = Provisioning
  /\ UNCHANGED <<db, marks, dspStatus, onDisk, process, copy, had, lost, faults>>

\* The databases every DSP was made with: startup opens and migrates them, and
\* only provisioning creates them.
OpenFirst(k) ==
  /\ At(k) /\ k \notin Added
  /\ IF Starting /\ ~db[k].made THEN Broken /\ UNCHANGED db
     ELSE /\ db' = [db EXCEPT ![k] = Created(k)]
          /\ Next1 /\ UNCHANGED <<process, dspStatus>>
  /\ UNCHANGED <<marks, onDisk, copy, had, lost, faults>>

Layout ==
  /\ At("layout")
  /\ IF Starting
     THEN /\ IF "layout" \in marks THEN Next1 /\ UNCHANGED process ELSE Refuse
          /\ UNCHANGED marks
     ELSE marks' = marks \union {"layout"} /\ Next1 /\ UNCHANGED process
  /\ UNCHANGED <<db, dspStatus, onDisk, copy, had, lost, faults>>

\* An added storage: one its marker names must be there and is migrated; one
\* without a marker is created.
OpenAddedAnew(k) ==
  /\ At(k) /\ k \in Added /\ db' = [db EXCEPT ![k] = Created(k)] /\ Next1
  /\ UNCHANGED <<process, dspStatus, marks, onDisk, copy, had, lost, faults>>
OpenAdded(k) ==
  /\ At(k) /\ k \in Added
  /\ \/ ~Knows(k) /\ todo' = Tail(Tail(todo)) /\ UNCHANGED <<db, process, dspStatus>>
     \/ /\ Knows(k) /\ k \in marks
        /\ IF db[k].made THEN /\ db' = [db EXCEPT ![k] = Migrated(@, k)]
                              /\ todo' = Tail(Tail(todo)) /\ UNCHANGED <<process, dspStatus>>
           ELSE Broken /\ UNCHANGED db
     \/ /\ Knows(k) /\ k \notin marks
        /\ db' = [db EXCEPT ![k] = Created(k)]
        /\ Next1 /\ UNCHANGED <<process, dspStatus>>
  /\ UNCHANGED <<marks, onDisk, copy, had, lost, faults>>

\* The marker is written only after the database is there.
Mark ==
  /\ todo # <<>> /\ Head(todo) \in DOMAIN MarkOf
  /\ marks' = marks \union {MarkOf[Head(todo)]} /\ Next1
  /\ UNCHANGED <<db, dspStatus, onDisk, process, copy, had, lost, faults>>

\* Live rows are reset and the schedules made; then the DSP is served.
Rest ==
  /\ At("rest")
  /\ Next1 /\ process' = "up" /\ dspStatus' = "active"
  /\ UNCHANGED <<db, marks, onDisk, copy, had, lost, faults>>

\* A step fails (a full disk, a migration that does not apply): its transaction
\* is undone.
FailStep ==
  /\ todo # <<>> /\ faults < MaxFaults
  /\ faults' = faults + 1
  /\ todo' = <<>>
  /\ IF Starting THEN process' = "down" /\ UNCHANGED dspStatus
     ELSE dspStatus' = "failed" /\ UNCHANGED process
  /\ UNCHANGED <<db, marks, onDisk, copy, had, lost>>

-----------------------------------------------------------------------------
Serving == process = "up" /\ dspStatus = "active"

Use(k) ==
  /\ Serving /\ Knows(k) /\ ~db[k].data
  /\ db' = [db EXCEPT ![k].data = TRUE] /\ had' = had \union {k}
  /\ UNCHANGED <<marks, dspStatus, onDisk, process, todo, copy, lost, faults>>

Stop ==
  /\ process = "up" /\ todo = <<>>
  /\ process' = "down"
  /\ UNCHANGED <<db, marks, dspStatus, onDisk, todo, copy, had, lost, faults>>

CrashProcess ==
  /\ process \in {"starting", "up"} /\ faults < MaxFaults
  /\ process' = "down" /\ todo' = <<>> /\ faults' = faults + 1
  /\ UNCHANGED <<db, marks, dspStatus, onDisk, copy, had, lost>>

\* The next release, or the one before it again.
ChangeRelease ==
  /\ process \in {"down", "refused"}
  /\ \E r \in Release : r - onDisk \in {-1, 1} /\ onDisk' = r
  /\ process' = "down"
  /\ UNCHANGED <<db, marks, dspStatus, todo, copy, had, lost, faults>>

\* A file is lost; the core database takes the markers with it.
Lose(k) ==
  /\ process = "down" /\ db[k].made /\ faults < MaxFaults
  /\ db' = [db EXCEPT ![k] = Absent] /\ lost' = lost \union {k} /\ faults' = faults + 1
  /\ marks' = IF k = "core" THEN {} ELSE marks
  /\ UNCHANGED <<dspStatus, onDisk, process, todo, copy, had>>

Backup ==
  /\ todo = <<>> /\ dspStatus = "active" /\ lost = {} /\ ~copy.taken
  /\ copy' = [taken |-> TRUE, db |-> db, marks |-> marks, had |-> had]
  /\ UNCHANGED <<db, marks, dspStatus, onDisk, process, todo, had, lost, faults>>

\* The state is put back whole, into an empty place; what was written since the
\* backup is given up.
Restore ==
  /\ process \in {"down", "refused"} /\ copy.taken
  /\ db' = copy.db /\ marks' = copy.marks /\ had' = copy.had
  /\ lost' = {} /\ process' = "down" /\ dspStatus' = "active" /\ todo' = <<>>
  /\ UNCHANGED <<onDisk, copy, faults>>

-----------------------------------------------------------------------------
StorageInit ==
  /\ db = [k \in Kind |-> Absent] /\ marks = {} /\ dspStatus = "provisioning"
  /\ onDisk = 1 /\ process = "down" /\ todo = <<>> /\ copy = NoCopy
  /\ had = {} /\ lost = {} /\ faults = 0

StorageNext ==
  \/ StartProcess \/ Provision \/ Layout \/ Mark \/ Rest \/ FailStep
  \/ \E k \in Kind : OpenFirst(k) \/ OpenAdded(k) \/ Use(k) \/ Lose(k)
  \/ Stop \/ CrashProcess \/ ChangeRelease \/ Backup \/ Restore

StorageSpec == StorageInit /\ [][StorageNext]_storageVars

-----------------------------------------------------------------------------
\* A DSP that is served has every database of the release, migrated as far as
\* the release knows, and every database that ever held its data still does: one
\* that was lost is never made again empty in its place.
ServesItsData ==
  Serving => /\ \A k \in Kind : Knows(k) => db[k].made /\ db[k].list >= Lists[onDisk][k]
             /\ \A k \in had : Knows(k) => db[k].data

\* Startup refuses a DSP only because a file of it is gone: no crash, failed
\* step, retry, update, rollback or restore leaves storage that the next or the
\* previous release will not open.
RefusesOnlyLoss == process = "refused" => lost # {}
=============================================================================
