---- MODULE HostUpdater ----
(***************************************************************************)
(* The updater of one host environment (host/src/updater.rs): a timer runs *)
(* it under a lock, it first recovers what an earlier run left, then looks *)
(* for a newer commit (Dev) or release (Production), downloads it and      *)
(* activates it.  Activation is a sequence of renames, git commands and    *)
(* service commands, with a receipt written before the first of them.      *)
(* The process may fail or be killed between any two; what is on disk and  *)
(* what the service runs stay.                                             *)
(*                                                                         *)
(* A runtime is named by a number: the commit it was built from in Dev,    *)
(* the release it was stamped for in Production.                           *)
(***************************************************************************)
EXTENDS Integers

CONSTANTS
    Last,       \* the newest commit or release there will be
    MaxMoves,   \* bounds how often the owner moves the checkout
    MaxKills  \* bounds how often a run is killed

ASSUME HostAssumption == Last \in Nat \ {0} /\ MaxMoves \in Nat /\ MaxKills \in Nat

Environments == {"dev", "production"}
Runtimes == 1..Last
NoRuntime == 0      \* no directory
Torn == -1       \* a directory whose removal was cut off
NoRun == 0
NoReceipt == [old |-> 0, new |-> 0]
Receipts == [old : Runtimes, new : Runtimes]

VARIABLES
    env,        \* which environment this host is
    tip,        \* GitHub: the head of the tracked branch, or the latest release
    good,       \* GitHub: the commits whose checks passed, the releases with true provenance
    active,     \* the runtime in the directory the service runs from
    previous,   \* the runtime kept for the way back
    head,       \* Dev: the commit the checkout is on
    clean,      \* Dev: the checkout has no unfinished changes
    receipt,    \* the activation receipt
    status,     \* the status file: what it says, of which runtime, and the failed release
    service,    \* the runtime the service runs, 0 when it is stopped
    manager,    \* the runtime the installed host manager is a copy of
    hostAt,         \* where the run stands
    target,     \* the runtime being installed
    resume,      \* where a finished recovery returns to
    moves, kills

hostDisk == <<active, previous, head, clean, receipt, status, service, manager>>
hostVars == <<env, tip, good, hostDisk, hostAt, target, resume, moves, kills>>

Dev == env = "dev"

\* artifact::verify: a whole directory says which runtime it is.
Whole(runtime) == runtime \in Runtimes

\* clean_checkout
CheckoutClean == Dev => clean

\* validated_build: the queue run of the commit passed and its build is there.
Validated(commit) == commit \in good

\* The release's commit is on main, and its assets are what GitHub and their attestation say.
Obtainable(version) == version \in good

\* The service is told to run what is in place, or to stop; health says what it runs.
Serve(runtime) == service' = runtime
Serves(runtime) == service = runtime

\* copy_verified: the manager becomes a copy of the active runtime's executable.
CopyManager == manager' = active

----------------------------------------------------------------------------
\* Steps of a run

\* The run goes on at `where`; of the disk it changes only what the action names.
HostGoes(where) == hostAt' = where /\ UNCHANGED <<env, tip, good, target, resume, moves, kills>>

\* The run ends; the lock is released with the process.
EndRun == hostAt' = "idle" /\ target' = NoRun /\ resume' = "update"
          /\ UNCHANGED <<env, tip, good, moves, kills>>

\* An error before or outside an activation ends the run; a command may always fail.
FailRun == EndRun /\ UNCHANGED hostDisk

\* run_locked: one run at a time holds the lock, and begins with recover.
Tick == hostAt = "idle" /\ HostGoes("recover") /\ UNCHANGED hostDisk

\* recover, up to the stop of the service.  In Dev the checkout must be clean and
\* on one of the two commits of the receipt.
Recover ==
    /\ hostAt = "recover"
    /\ \/ receipt = NoReceipt /\ HostGoes(resume) /\ UNCHANGED hostDisk
       \/ /\ receipt # NoReceipt
          /\ CheckoutClean /\ (Dev => head \in {receipt.old, receipt.new})
          /\ Serve(NoRuntime)
          /\ HostGoes("inspect")
          /\ UNCHANGED <<active, previous, head, clean, receipt, status, manager>>
       \/ receipt # NoReceipt /\ FailRun

\* (Weakened: whatever is kept is put back, and the place is cleared before it is known;
\* only the active runtime is looked at.)
InspectAfterClearing ==
    /\ hostAt = "inspect"
    /\ active' = Torn
    /\ HostGoes(IF previous = NoRuntime THEN "reset" ELSE "makeRoom")
    /\ UNCHANGED <<previous, head, clean, receipt, status, service, manager>>
InspectActive ==
    /\ hostAt = "inspect"
    /\ IF active = receipt.old THEN HostGoes("reset") /\ UNCHANGED hostDisk ELSE FailRun

\* recover: the old runtime is the kept one, or the active one when none is kept.  It
\* must be the one of the receipt; only then is the active one removed to make room.
Inspect ==
    /\ hostAt = "inspect"
    /\ LET source == IF previous # NoRuntime THEN previous ELSE active IN
       IF source # receipt.old
       THEN FailRun
       ELSE /\ active' = IF previous # NoRuntime /\ active # NoRuntime THEN Torn ELSE active
            /\ HostGoes(IF previous = NoRuntime THEN "reset" ELSE "makeRoom")
            /\ UNCHANGED <<previous, head, clean, receipt, status, service, manager>>

MakeRoom ==
    /\ hostAt = "makeRoom"
    /\ active' = NoRuntime
    /\ HostGoes("putBack")
    /\ UNCHANGED <<previous, head, clean, receipt, status, service, manager>>

PutBack ==
    /\ hostAt = "putBack"
    /\ active' = previous
    /\ previous' = NoRuntime
    /\ HostGoes("reset")
    /\ UNCHANGED <<head, clean, receipt, status, service, manager>>

\* (Weakened: recovery is over before the service runs.)
ResetAndForget ==
    /\ hostAt = "reset"
    /\ IF Dev THEN head' = receipt.old /\ clean' = TRUE ELSE UNCHANGED <<head, clean>>
    /\ receipt' = NoReceipt
    /\ HostGoes("startOld")
    /\ UNCHANGED <<active, previous, status, service, manager>>

\* recover: the checkout goes back, unfinished changes with it, and the service starts.
ResetCheckout ==
    /\ hostAt = "reset"
    /\ IF Dev THEN head' = receipt.old /\ clean' = TRUE ELSE UNCHANGED <<head, clean>>
    /\ HostGoes("startOld")
    /\ UNCHANGED <<active, previous, receipt, status, service, manager>>

StartOld ==
    /\ hostAt = "startOld"
    /\ \/ Serve(active) /\ HostGoes("reportOld")
       \/ UNCHANGED service /\ EndRun
    /\ UNCHANGED <<active, previous, head, clean, receipt, status, manager>>

\* recover: an old runtime that is not healthy leaves the receipt for the next run.
ReportOld ==
    /\ hostAt = "reportOld"
    /\ \/ Serves(receipt.old)
          /\ status' = [says |-> "rolled_back", digest |-> receipt.old, failed |-> 0]
          /\ HostGoes("recovered")
       \/ UNCHANGED status /\ EndRun
    /\ UNCHANGED <<active, previous, head, clean, receipt, service, manager>>

RecoveryDone ==
    /\ hostAt = "recovered"
    /\ receipt' = NoReceipt
    /\ HostGoes(resume)
    /\ UNCHANGED <<active, previous, head, clean, status, service, manager>>

\* install_latest: Production remembers the release an activation failed for, whatever the
\* reason, unless the way back failed too; the error then ends the run.
ReportFailure ==
    /\ hostAt = "failed"
    /\ status' = IF ~Dev /\ receipt = NoReceipt /\ Whole(active)
                 THEN [says |-> "rolled_back", digest |-> active, failed |-> target]
                 ELSE status
    /\ EndRun
    /\ UNCHANGED <<active, previous, head, clean, receipt, service, manager>>

----------------------------------------------------------------------------
\* What to install

\* A run that ends with only the status file rewritten.
EndSaying(says) ==
    /\ EndRun
    /\ status' = says
    /\ UNCHANGED <<active, previous, head, clean, receipt, service, manager>>

\* The run goes on with a downloaded and verified candidate.
Download(runtime) ==
    /\ hostAt' = "downloaded" /\ target' = runtime
    /\ UNCHANGED <<env, tip, good, resume, moves, kills, hostDisk>>

\* update_dev up to the download: the branch's head, once its queue run has passed.
SelectCommit ==
    /\ hostAt = "update" /\ Dev
    /\ \/ FailRun
       \/ /\ clean /\ tip # head /\ active = head
          /\ \/ Validated(tip) /\ Download(tip)
             \/ /\ ~Validated(tip)
                /\ \E says \in {"checks_failed", "waiting_for_checks"} :
                      EndSaying([says |-> says, digest |-> active, failed |-> 0])

\* update_dev after the download: the head and its validation are read again.
ConfirmCommit ==
    /\ hostAt = "downloaded" /\ Dev
    /\ \/ FailRun
       \/ tip = target /\ Validated(target) /\ HostGoes("activate") /\ UNCHANGED hostDisk
       \/ /\ tip # target \/ ~Validated(target)
          /\ EndSaying([says |-> "waiting_for_checks", digest |-> active, failed |-> 0])

\* update_production and install_latest up to the download.  An older release, one that
\* failed before, the recent check settle remembers and the retry delay end the run with
\* nothing done, as an error does.
SelectRelease ==
    /\ hostAt = "update" /\ ~Dev
    /\ \/ FailRun
       \/ /\ tip = active /\ Serves(active)
          /\ <<status.says, status.digest>> # <<"ready", active>>
          /\ EndSaying([says |-> "ready", digest |-> active, failed |-> 0])
       \/ /\ Whole(active)
          /\ tip > active /\ tip # status.failed /\ Obtainable(tip)
          /\ Download(tip)

\* install_latest after the download: a release replaced meanwhile is left alone.
ConfirmRelease ==
    /\ hostAt = "downloaded" /\ ~Dev
    /\ \/ FailRun
       \/ tip = target /\ HostGoes("activate") /\ UNCHANGED hostDisk

----------------------------------------------------------------------------
\* activate

\* Everything that is checked before the first change; then the runtime kept from an
\* earlier activation is removed.
Admit ==
    /\ hostAt = "activate"
    /\ \/ HostGoes("failed") /\ UNCHANGED hostDisk
       \/ /\ Whole(active)
          /\ CheckoutClean
          /\ IF Dev THEN active = head /\ head <= target /\ target <= tip
             ELSE target > active
          /\ previous' = IF previous = NoRuntime THEN NoRuntime ELSE Torn
          /\ HostGoes("clear")
          /\ UNCHANGED <<active, head, clean, receipt, status, service, manager>>

Clear ==
    /\ hostAt = "clear"
    /\ previous' = NoRuntime
    /\ HostGoes("record")
    /\ UNCHANGED <<active, head, clean, receipt, status, service, manager>>

WriteReceipt ==
    /\ hostAt = "record"
    /\ receipt' = [old |-> active, new |-> target]
    /\ HostGoes("stop")
    /\ UNCHANGED <<active, previous, head, clean, status, service, manager>>

\* From here to the end any error leads to recover, and from there to `failed`.
GiveUp == hostAt' = "recover" /\ resume' = "failed" /\ UNCHANGED hostDisk
          /\ UNCHANGED <<env, tip, good, target, moves, kills>>

StopService ==
    /\ hostAt = "stop"
    /\ \/ GiveUp
       \/ /\ Serve(NoRuntime)
          /\ HostGoes("retain")
          /\ UNCHANGED <<active, previous, head, clean, receipt, status, manager>>

\* The checkout must still be clean and where it was; the old runtime moves aside.
Retain ==
    /\ hostAt = "retain"
    /\ \/ GiveUp
       \/ /\ CheckoutClean /\ (Dev => head = receipt.old)
          /\ previous' = active /\ active' = NoRuntime
          /\ HostGoes("place")
          /\ UNCHANGED <<head, clean, receipt, status, service, manager>>

Place ==
    /\ hostAt = "place"
    /\ \/ GiveUp
       \/ /\ active' = target
          /\ HostGoes("merge")
          /\ UNCHANGED <<previous, head, clean, receipt, status, service, manager>>

\* git merge --ff-only: refused when the checkout is not behind the commit.
Merge ==
    /\ hostAt = "merge"
    /\ \/ GiveUp
       \/ /\ IF Dev THEN head <= target /\ head' = target ELSE UNCHANGED head
          /\ HostGoes("startNew")
          /\ UNCHANGED <<active, previous, clean, receipt, status, service, manager>>

StartNew ==
    /\ hostAt = "startNew"
    /\ \/ GiveUp
       \/ /\ Serve(active)
          /\ HostGoes("prove")
          /\ UNCHANGED <<active, previous, head, clean, receipt, status, manager>>

\* The new runtime answers with its own digest, or it does not within 40 seconds.
Prove ==
    /\ hostAt = "prove"
    /\ \/ GiveUp
       \/ /\ Serves(target)
          /\ status' = [says |-> "ready", digest |-> target, failed |-> 0]
          /\ HostGoes("commit")
          /\ UNCHANGED <<active, previous, head, clean, receipt, service, manager>>

Commit ==
    /\ hostAt = "commit"
    /\ \/ GiveUp
       \/ /\ receipt' = NoReceipt
          /\ HostGoes("refresh") \/ HostGoes("failed")    \* the directory could not be synced
          /\ UNCHANGED <<active, previous, head, clean, status, service, manager>>

\* management::refresh: the manager becomes a copy of what was just proved; one that fails
\* its self-check is not installed.
Refresh ==
    /\ hostAt = "refresh"
    /\ CopyManager \/ UNCHANGED manager
    /\ EndRun
    /\ UNCHANGED <<active, previous, head, clean, receipt, status, service>>

----------------------------------------------------------------------------
\* What happens around the updater

\* install_bundle: the operator installs the manager of the active runtime, under the lock.
InstallManagement ==
    /\ hostAt = "idle" /\ Whole(active) /\ CheckoutClean /\ (Dev => active = head)
    /\ CopyManager
    /\ UNCHANGED <<env, tip, good, active, previous, head, clean, receipt, status, service,
                   hostAt, target, resume, moves, kills>>

\* GitHub: a commit is pushed or a release published, a release is withdrawn, a run
\* passes, a rerun fails.
Push ==
    /\ tip < Last /\ tip' = tip + 1
    /\ UNCHANGED <<env, good, hostDisk, hostAt, target, resume, moves, kills>>
Withdraw ==
    /\ ~Dev /\ tip > 1 /\ moves < MaxMoves /\ tip' = tip - 1 /\ moves' = moves + 1
    /\ UNCHANGED <<env, good, hostDisk, hostAt, target, resume, kills>>
Validate ==
    /\ \/ good' = good \union {tip}
       \/ Dev /\ good' = good \ {tip}
    /\ UNCHANGED <<env, tip, hostDisk, hostAt, target, resume, moves, kills>>

\* Dev: its owner edits, cleans up, or moves the checkout.
Edit ==
    /\ Dev /\ moves < MaxMoves
    /\ clean' = ~clean /\ moves' = moves + 1
    /\ UNCHANGED <<env, tip, good, active, previous, head, receipt, status, service, manager,
                   hostAt, target, resume, kills>>
Move ==
    /\ Dev /\ moves < MaxMoves
    /\ head' \in 1..tip /\ moves' = moves + 1
    /\ UNCHANGED <<env, tip, good, active, previous, clean, receipt, status, service, manager,
                   hostAt, target, resume, kills>>

\* The run is killed: its lock and what it knew are gone, the disk and the service stay.
Crash ==
    /\ hostAt # "idle" /\ kills < MaxKills
    /\ kills' = kills + 1
    /\ hostAt' = "idle" /\ target' = NoRun /\ resume' = "update"
    /\ UNCHANGED <<env, tip, good, hostDisk, moves>>

RecoverStep == Recover \/ Inspect \/ MakeRoom \/ PutBack \/ ResetCheckout \/ StartOld \/ ReportOld
               \/ RecoveryDone \/ ReportFailure
SelectStep == SelectCommit \/ ConfirmCommit \/ SelectRelease \/ ConfirmRelease
ActivateStep == Admit \/ Clear \/ WriteReceipt \/ StopService \/ Retain \/ Place \/ Merge \/ StartNew
                \/ Prove \/ Commit \/ Refresh
World == InstallManagement \/ Push \/ Withdraw \/ Validate \/ Edit \/ Move \/ Crash

HostInit ==
    /\ env \in Environments
    /\ tip = 1 /\ good = {1}
    /\ active = 1 /\ previous = NoRuntime
    /\ head = 1 /\ clean = TRUE
    /\ receipt = NoReceipt
    /\ status = [says |-> "ready", digest |-> 1, failed |-> 0]
    /\ service = 1 /\ manager = 1
    /\ hostAt = "idle" /\ target = NoRun /\ resume = "update"
    /\ moves = 0 /\ kills = 0

HostNext == Tick \/ RecoverStep \/ SelectStep \/ ActivateStep \/ World
HostSpec == HostInit /\ [][HostNext]_hostVars

----------------------------------------------------------------------------
\* Properties

HostTypeOK ==
    /\ env \in Environments
    /\ tip \in Runtimes /\ good \subseteq Runtimes
    /\ active \in Runtimes \union {NoRuntime, Torn}
    /\ previous \in Runtimes \union {NoRuntime, Torn}
    /\ head \in Runtimes /\ clean \in BOOLEAN
    /\ receipt \in Receipts \union {NoReceipt}
    /\ status.digest \in Runtimes /\ status.failed \in Runtimes \union {0}
    /\ service \in Runtimes \union {NoRuntime} /\ manager \in Runtimes
    /\ target \in Runtimes \union {NoRun}
    /\ resume \in {"update", "failed"}
    /\ moves \in 0..MaxMoves /\ kills \in 0..MaxKills

\* A way back: from the receipt to its removal the runtime the service ran before is whole,
\* either kept aside or still in place, whatever step a kill or an error follows.
OldSurvives ==
    receipt # NoReceipt =>
        \/ previous = receipt.old
        \/ previous = NoRuntime /\ active = receipt.old

\* An environment between runs that owes no recovery is one runtime as a whole: it is in
\* place, the service runs it, and what the updater last reported is about it.  In Dev it is
\* also the checkout's commit, unless the owner moved the checkout.
SettledIsWhole ==
    hostAt = "idle" /\ receipt = NoReceipt =>
        /\ Whole(active) /\ service = active /\ status.digest = active
        /\ Dev /\ moves = 0 => head = active

\* An interrupted activation is undone: once the owner leaves the checkout clean and on one of
\* the two commits, runs keep coming and the old runtime starts, the receipt goes away.
Recoverable == receipt # NoReceipt /\ Dev => clean /\ head \in {receipt.old, receipt.new}
Recovers == <>[]Recoverable => (receipt # NoReceipt ~> receipt = NoReceipt)

\* The timer runs the updater again and a run goes on; a service command or a health check
\* that keeps being tried on the old runtime succeeds at last, and nobody forbids the writes.
RunGoesOn ==
    /\ WF_hostVars(Tick)
    /\ WF_hostVars(RecoverStep)
    /\ WF_hostVars(SelectStep)
    /\ WF_hostVars(ActivateStep)
    /\ SF_hostVars(Recover /\ hostAt' = "inspect")
    /\ SF_hostVars(StartOld /\ hostAt' = "reportOld")
    /\ SF_hostVars(ReportOld /\ hostAt' = "recovered")
HostFairSpec == HostSpec /\ RunGoesOn
====
