----------------------------- MODULE HostProofs -----------------------------
(***************************************************************************)
(* Theorems about what stands on a host and how it gets there: updates,    *)
(* setup, releases, merges and the DSP's databases.                        *)
(***************************************************************************)
EXTENDS HostUpdater, HostSetup, Releasing, Shipping, Storage, SequenceTheorems,
        WellFoundedInduction, TLAPS

-----------------------------------------------------------------------------
(***************************************************************************)
(* The updater's two promises, for any number of runtimes, kills and moves *)
(* of the checkout: from the receipt to its removal the old runtime is     *)
(* whole, and an environment that owes no recovery is one runtime as a     *)
(* whole.                                                                  *)
(*                                                                         *)
(* Neither is inductive: what a step may rely on is what the run has done  *)
(* since the receipt was written, which is where the run stands            *)
(* (Activating, Recovering).  A kill forgets where it stood, and leaves of *)
(* all that only OldSurvives and Settled, which every recovery starts from.*)
(***************************************************************************)

Ranges ==
    /\ tip \in Runtimes /\ moves \in Nat
    /\ resume \in {"update", "failed"}

\* SettledIsWhole, of every moment at which there is no receipt.
Settled ==
    receipt = NoReceipt =>
        /\ Whole(active) /\ service = active /\ status.digest = active
        /\ Dev /\ moves = 0 => head = active

\* Where an activation stands.
Activating ==
    /\ hostAt \in {"update", "downloaded", "activate", "clear", "record"} => receipt = NoReceipt
    /\ hostAt \in {"downloaded", "activate", "clear", "record", "stop", "retain", "place",
                   "merge", "startNew", "prove", "commit"} => target \in Runtimes
    /\ hostAt = "record" => previous = NoRuntime
    /\ hostAt \in {"stop", "retain"} =>
           receipt # NoReceipt /\ active = receipt.old /\ previous = NoRuntime
    /\ hostAt \in {"place", "merge", "startNew", "prove", "commit"} =>
           receipt # NoReceipt /\ previous = receipt.old
    /\ hostAt \in {"merge", "startNew", "prove", "commit"} => active = target
    /\ hostAt \in {"startNew", "prove", "commit"} => (Dev /\ moves = 0 => head = target)
    /\ hostAt \in {"prove", "commit"} => service = active
    /\ hostAt = "commit" => status.digest = target

\* Where a recovery stands.
Recovering ==
    /\ hostAt \in {"inspect", "makeRoom", "putBack", "reset", "startOld", "reportOld",
                   "recovered"} => receipt # NoReceipt
    /\ hostAt \in {"makeRoom", "putBack"} => previous = receipt.old
    /\ hostAt \in {"reset", "startOld", "reportOld", "recovered"} =>
           previous = NoRuntime /\ active = receipt.old
    /\ hostAt \in {"startOld", "reportOld", "recovered"} =>
           (Dev /\ moves = 0 => head = receipt.old)
    /\ hostAt \in {"reportOld", "recovered"} => service = active
    /\ hostAt = "recovered" => status.digest = receipt.old

\* A receipt names two runtimes.
Named == receipt = NoReceipt \/ Whole(receipt.old)

HostInv == Ranges /\ Named /\ OldSurvives /\ Settled /\ Activating /\ Recovering

LEMMA InitHolds == HostInit => HostInv
  BY HostAssumption, SMT
  DEF HostInit, HostInv, Ranges, Named, OldSurvives, Settled, Activating, Recovering,
      Runtimes, NoRuntime, NoRun, NoReceipt, Whole, Dev

\* What each step of a recovery preserves.
LEMMA RecoveryPreserves == HostInv /\ (Tick \/ RecoverStep) => HostInv'
  <1> USE HostAssumption
      DEF HostInv, Ranges, Named, OldSurvives, Settled, Activating, Recovering, Whole, Dev,
          HostGoes, EndRun, FailRun, hostDisk, Serve, Serves, Runtimes, NoRuntime, Torn,
          NoReceipt
  <1> SUFFICES ASSUME HostInv, Tick \/ RecoverStep PROVE HostInv'
      OBVIOUS
  <1>1. CASE Tick           BY <1>1 DEF Tick
  <1>2. CASE Recover        BY <1>2 DEF Recover
  <1>3. CASE Inspect        BY <1>3 DEF Inspect
  <1>4. CASE MakeRoom       BY <1>4 DEF MakeRoom
  <1>5. CASE PutBack        BY <1>5 DEF PutBack
  <1>6. CASE ResetCheckout  BY <1>6 DEF ResetCheckout
  <1>7. CASE StartOld       BY <1>7 DEF StartOld
  <1>8. CASE ReportOld      BY <1>8 DEF ReportOld
  <1>9. CASE RecoveryDone   BY <1>9 DEF RecoveryDone
  <1>10. CASE ReportFailure BY <1>10 DEF ReportFailure
  <1> QED BY <1>1, <1>2, <1>3, <1>4, <1>5, <1>6, <1>7, <1>8, <1>9, <1>10 DEF RecoverStep

\* What is selected and downloaded is a runtime there is.
LEMMA SelectionPreserves == HostInv /\ SelectStep => HostInv'
  <1> USE HostAssumption
      DEF HostInv, Ranges, Named, OldSurvives, Settled, Activating, Recovering, Whole, Dev,
          HostGoes, EndRun, FailRun, hostDisk, EndSaying, Download, Serves, Runtimes,
          NoRuntime, Torn, NoReceipt
  <1> SUFFICES ASSUME HostInv, SelectStep PROVE HostInv'
      OBVIOUS
  <1>1. CASE SelectCommit   BY <1>1 DEF SelectCommit
  <1>2. CASE ConfirmCommit  BY <1>2 DEF ConfirmCommit
  <1>3. CASE SelectRelease  BY <1>3 DEF SelectRelease
  <1>4. CASE ConfirmRelease BY <1>4 DEF ConfirmRelease
  <1> QED BY <1>1, <1>2, <1>3, <1>4 DEF SelectStep

\* What each step of an activation preserves.
LEMMA ActivationPreserves == HostInv /\ ActivateStep => HostInv'
  <1> USE HostAssumption
      DEF HostInv, Ranges, Named, OldSurvives, Settled, Activating, Recovering, Whole, Dev,
          HostGoes, EndRun, hostDisk, GiveUp, Serve, Serves, Runtimes, NoRuntime, Torn,
          NoReceipt, CheckoutClean
  <1> SUFFICES ASSUME HostInv, ActivateStep PROVE HostInv'
      OBVIOUS
  <1>1. CASE Admit         BY <1>1 DEF Admit
  <1>2. CASE Clear         BY <1>2 DEF Clear
  <1>3. CASE WriteReceipt  BY <1>3 DEF WriteReceipt
  <1>4. CASE StopService   BY <1>4 DEF StopService
  <1>5. CASE Retain        BY <1>5 DEF Retain
  <1>6. CASE Place         BY <1>6 DEF Place
  <1>7. CASE Merge         BY <1>7 DEF Merge
  <1>8. CASE StartNew      BY <1>8 DEF StartNew
  <1>9. CASE Prove         BY <1>9 DEF Prove
  <1>10. CASE Commit       BY <1>10 DEF Commit
  <1>11. CASE Refresh      BY <1>11 DEF Refresh, CopyManager
  <1> QED BY <1>1, <1>2, <1>3, <1>4, <1>5, <1>6, <1>7, <1>8, <1>9, <1>10, <1>11
          DEF ActivateStep

\* Nothing around the updater takes a runtime away; a kill takes only what the run knew.
LEMMA WorldPreserves == HostInv /\ World => HostInv'
  <1> USE HostAssumption
      DEF HostInv, Ranges, Named, OldSurvives, Settled, Activating, Recovering, Whole, Dev,
          hostDisk, Runtimes, NoRuntime, Torn, NoReceipt
  <1> SUFFICES ASSUME HostInv, World PROVE HostInv'
      OBVIOUS
  <1>1. CASE InstallManagement BY <1>1 DEF InstallManagement
  <1>2. CASE Push              BY <1>2 DEF Push
  <1>3. CASE Withdraw          BY <1>3 DEF Withdraw
  <1>4. CASE Validate          BY <1>4 DEF Validate
  <1>5. CASE Edit              BY <1>5 DEF Edit
  <1>6. CASE Move              BY <1>6 DEF Move
  <1>7. CASE Crash             BY <1>7 DEF Crash
  <1> QED BY <1>1, <1>2, <1>3, <1>4, <1>5, <1>6, <1>7 DEF World

LEMMA StutterPreserves == HostInv /\ UNCHANGED hostVars => HostInv'
  BY DEF HostInv, Ranges, Named, OldSurvives, Settled, Activating, Recovering, Whole, Dev,
         hostVars, hostDisk

(***************************************************************************)
(* The invariant the two results rest on: wherever a run of the updater    *)
(* (updater.rs:263-400) stands, the disk and the service are as the steps  *)
(* it has taken since the receipt left them.                               *)
(***************************************************************************)
THEOREM RunStandsWhereItSays == HostSpec => []HostInv
  <1>1. HostInit => HostInv
      BY InitHolds
  <1>2. HostInv /\ [HostNext]_hostVars => HostInv'
      BY RecoveryPreserves, SelectionPreserves, ActivationPreserves, WorldPreserves,
         StutterPreserves DEF HostNext
  <1> QED
      BY <1>1, <1>2, PTL DEF HostSpec

(***************************************************************************)
(* From the receipt to its removal the runtime the service ran before is   *)
(* whole, kept aside or still in place, whatever step a kill or an error   *)
(* follows: recover (updater.rs:263) always finds what it needs.           *)
(***************************************************************************)
THEOREM OldRuntimeSurvives == HostSpec => []OldSurvives
  <1>1. HostInv => OldSurvives
      BY DEF HostInv
  <1> QED
      BY <1>1, RunStandsWhereItSays, PTL

(***************************************************************************)
(* Between runs, without a receipt, the active runtime is whole, the       *)
(* service runs it and the status file speaks of it; in Dev the checkout   *)
(* is on its commit unless the owner moved it (updater.rs:334-400).        *)
(***************************************************************************)
THEOREM SettledRuntimeIsWhole == HostSpec => []SettledIsWhole
  <1>1. HostInv => SettledIsWhole
      BY DEF HostInv, Settled, SettledIsWhole
  <1> QED
      BY <1>1, RunStandsWhereItSays, PTL

-----------------------------------------------------------------------------
(***************************************************************************)
(* For any list of placements and any number of kills: the application     *)
(* never starts on half an environment. What is prepared is staged or      *)
(* placed, whichever rename the kill came after, and the configuration is  *)
(* placed last (SetupDisk); where a run stands it has its journal          *)
(* (SetupStands).                                                          *)
(***************************************************************************)

\* What the disk holds: the renames of a prepared run go on where the one before stopped, and
\* configuration goes last, so that with it in place everything is.
SetupDisk ==
    /\ journal \in {"none", "unprepared", "prepared"}
    /\ stageDir \in BOOLEAN /\ staged \subseteq Names
    /\ private \in [Names -> {"absent", "ours", "foreign"}]
    /\ journal = "prepared" => stageDir /\ \A name \in Names : name \in staged \/ private[name] = "ours"
    /\ private[Config] = "ours" => \A name \in Names : private[name] = "ours"
    /\ used => private[Config] = "ours"

\* Which journal the run stands with.
SetupStands ==
    /\ setupAt \in {"idle", "stage", "begin", "clean", "discard", "forget", "prepare", "seal",
                    "publish", "check", "close"}
    /\ setupAt \in {"stage", "begin", "clean"} => journal = "none"
    /\ setupAt \in {"discard", "forget", "prepare", "seal"} => journal = "unprepared"
    /\ setupAt \in {"publish", "check", "close"} => journal = "prepared"
    /\ setupAt \in {"begin", "prepare", "seal"} => stageDir
    /\ setupAt = "seal" => staged = Names

SetupInv == SetupDisk /\ SetupStands

LEMMA ConfigIsLast ==
    /\ Config \in Names
    /\ \A i \in DOMAIN Placements : Placements[i] = Config => i = Len(Placements)
    /\ \A name \in Names : name # Config => \E k \in 1..(Len(Placements) - 1) : Placements[k] = name
  BY SetupAssumption DEF Names, Config

LEMMA PublishKeepsInv ==
    ASSUME SetupInv, Publish
    PROVE  SetupInv'
<1> USE DEF SetupInv
<1>1. CASE Finished
  BY <1>1 DEF Publish, SetupGoes, setupDisk, SetupDisk, SetupStands
<1>2. CASE ~Finished
  <2>1. PICK name \in Names :
            /\ NextPlacement(name)
            /\ \/ /\ private[name] = "absent"
                  /\ private' = [private EXCEPT ![name] = "ours"]
                  /\ staged' = staged \ {name}
                  /\ SetupGoes(IF name = Config THEN "check" ELSE "publish")
                  /\ UNCHANGED <<journal, stageDir, used, runtimeIs>>
               \/ private[name] # "absent" /\ SetupFails
    BY <1>2 DEF Publish
  <2>2. CASE SetupFails
    BY <2>2 DEF SetupFails, SetupGoes, setupDisk, SetupDisk, SetupStands
  <2>3. CASE /\ private' = [private EXCEPT ![name] = "ours"]
             /\ staged' = staged \ {name}
             /\ SetupGoes(IF name = Config THEN "check" ELSE "publish")
             /\ UNCHANGED <<journal, stageDir, used, runtimeIs>>
    <3>1. journal = "prepared" /\ setupAt = "publish"
      BY DEF Publish, SetupStands
    <3>2. name = Config => \A other \in Names : other # Config => other \notin staged
      BY <2>1, ConfigIsLast DEF NextPlacement
    <3>3. SetupDisk'
      BY <2>3, <3>1, <3>2, ConfigIsLast DEF SetupDisk
    <3>4. SetupStands'
      BY <2>3, <3>1 DEF SetupStands, SetupGoes
    <3> QED BY <3>3, <3>4
  <2> QED BY <2>1, <2>2, <2>3
<1> QED BY <1>1, <1>2

LEMMA SetupInvInit == SetupInit => SetupInv
  BY ConfigIsLast DEF SetupInit, SetupInv, SetupDisk, SetupStands

LEMMA SetupInvNext == SetupInv /\ [SetupNext]_setupVars => SetupInv'
<1> SUFFICES ASSUME SetupInv, [SetupNext]_setupVars PROVE SetupInv'
  OBVIOUS
<1> USE DEF SetupInv, SetupDisk, SetupStands, setupDisk, SetupGoes, SetupFails
<1>1. CASE Initialize BY <1>1 DEF Initialize
<1>2. CASE Discard BY <1>2 DEF Discard
<1>3. CASE Forget BY <1>3 DEF Forget
<1>4. CASE Stage
  <2>1. CASE SetupFails BY <1>4, <2>1 DEF Stage
  <2>2. CASE SetupGoes("begin") /\ stageDir' = TRUE /\ staged' = {} /\ UNCHANGED <<journal, private, used, runtimeIs>>
    BY <1>4, <2>2 DEF Stage
  <2> QED BY <1>4, <2>1, <2>2 DEF Stage
<1>5. CASE Begin BY <1>5 DEF Begin
<1>6. CASE Prepare BY <1>6 DEF Prepare
<1>7. CASE Seal BY <1>7 DEF Seal
<1>8. CASE Publish BY <1>8, PublishKeepsInv
<1>9. CASE CheckRuntime BY <1>9 DEF CheckRuntime
<1>10. CASE Close BY <1>10 DEF Close
<1>11. CASE CleanUp BY <1>11 DEF CleanUp
<1>12. CASE UseApplication BY <1>12 DEF UseApplication
<1>13. CASE UpdateRuntime BY <1>13 DEF UpdateRuntime
<1>14. CASE Intrude BY <1>14, ConfigIsLast DEF Intrude
<1>15. CASE KillSetup BY <1>15 DEF KillSetup
<1>16. CASE UNCHANGED setupVars BY <1>16 DEF setupVars
<1> QED
  BY <1>1, <1>2, <1>3, <1>4, <1>5, <1>6, <1>7, <1>8, <1>9, <1>10, <1>11, <1>12, <1>13, <1>14,
     <1>15, <1>16
  DEF SetupNext, SetupRun

\* What a run killed anywhere leaves on disk is what the next one may go on from.
THEOREM SetupInvHolds == SetupSpec => []SetupInv
  BY SetupInvInit, SetupInvNext, PTL DEF SetupSpec

\* The application never starts on half an environment, for any list of placements and any kills
\* (setup/mod.rs publish, transaction.rs).
THEOREM StartsWhole == SetupSpec => []StartsComplete
<1>1. SetupInv => StartsComplete
  BY DEF SetupInv, SetupDisk, StartsComplete
<1> QED BY <1>1, SetupInvHolds, PTL

-----------------------------------------------------------------------------
(***************************************************************************)
(* For any commits and any number of commands, failures and hands that     *)
(* meddle with drafts: a release that is marked complete is what was       *)
(* verified, and is served or was followed by a later one.                 *)
(*                                                                         *)
(* Checks and environments move on, so what is kept is what was ever true: *)
(* the pinned commit passed, was served and its assets were prepared from  *)
(* it (BytesAreProved); the command looks again at what it published       *)
(* before it marks it (RelStands).                                         *)
(***************************************************************************)

Stages == {"idle", "pin", "suite", "build", "prepared", "draft", "upload", "consume", "publish",
           "recheck", "patch", "published", "production", "clean"}
Copies == {"missing", "ours", "other"}

RelType ==
    /\ pinned \in [Versions -> Nat] /\ complete \in [Versions -> BOOLEAN]
    /\ prepared \in [Versions -> Nat] /\ smoked \in [Versions -> BOOLEAN]
    /\ release \in [Versions -> {"none", "draft", "published"}]
    /\ aims \in [Versions -> Nat] /\ tag \in [Versions -> Nat]
    /\ assets \in [Versions -> [Assets -> Copies]]
    /\ checks \in [Commits -> {"none", "running", "passed", "failed"}]
    /\ main \in Commits /\ dev \in Nat /\ live \in Nat
    /\ relAt \in Stages /\ now \in Nat
    /\ relAt # "idle" => now \in Versions

\* What the world remembers of what it was.
Remembered ==
    /\ dev # None => dev \in servedOnce
    /\ \A c \in Commits : checks[c] = "passed" => c \in passedOnce

\* A version's commit passed and was served before its bytes were there; a published version
\* was smoked.
BytesAreProved ==
    /\ \A v \in Versions : prepared[v] # None => prepared[v] \in passedOnce \intersect servedOnce
    /\ \A v \in Versions : release[v] = "published" => smoked[v]

\* Where the command stands with its version.
RelStands ==
    /\ relAt \in {"pin", "suite", "build", "prepared", "draft", "upload", "recheck", "patch"} =>
           release[now] # "published"
    /\ relAt \in {"suite", "build"} => pinned[now] \in Commits
    /\ relAt = "prepared" => prepared[now] # None
    /\ relAt \in {"draft", "upload", "publish", "recheck", "patch", "published", "production", "clean"} =>
           prepared[now] # None /\ pinned[now] = prepared[now]
    /\ relAt \in {"draft", "upload", "recheck", "patch"} => smoked[now]
    /\ relAt \in {"production", "clean"} =>
           release[now] = "published" /\ Identity /\ Uploaded
    /\ relAt = "clean" => live >= now

RelInv == RelType /\ Remembered /\ BytesAreProved /\ RelStands /\ CompleteIsTrue

\* A set of naturals with a bound has a greatest member.
LEMMA MaxIsThere ==
    ASSUME NEW bound \in Nat, NEW S, S \subseteq 0..bound, S # {}
    PROVE  Max(S) \in S /\ \A y \in S : Max(S) >= y
<1> DEFINE below == {bound - x : x \in S}
           less == OpToRel(<, Nat)
<1>0. \A x \in S : x \in Nat /\ bound - x \in Nat
  OBVIOUS
<1>1. below \subseteq Nat /\ below # {}
  BY <1>0
<1>2. \E t \in below : \A u \in below : ~ (<<u, t>> \in less)
  <2> HIDE DEF below
  <2>1. IsWellFoundedOn(less, Nat) BY NatLessThanWellFounded
  <2> HIDE DEF less
  <2> QED BY <1>1, <2>1, WFMin, Zenon
<1>3. PICK t \in below : \A u \in below : ~ (<<u, t>> \in less)
  BY <1>2
<1>4. \A u \in below : ~(u < t)
  BY <1>1, <1>3 DEF OpToRel
<1>5. PICK x \in S : t = bound - x
  BY <1>3
<1>6. \A y \in S : x >= y
  <2>1. TAKE y \in S
  <2>2. bound - y \in below
    OBVIOUS
  <2>3. ~(bound - y < bound - x)
    BY <1>4, <1>5, <2>2
  <2>4. x \in Nat /\ y \in Nat
    BY <1>0
  <2> QED BY <2>3, <2>4
<1> QED BY <1>6 DEF Max

LEMMA LatestIsNat == Latest \in Nat
<1>1. Published \union {None} \subseteq 0..LastVersion /\ LastVersion \in Nat
  BY ReleasingAssumption DEF Published, Versions, None
<1> QED BY <1>1, MaxIsThere DEF Latest

LEMMA ChosenIsVersion ==
    ASSUME NEW named, NEW stage, NEW v \in Chosen(named, stage)
    PROVE  v \in Versions
  BY DEF Chosen, Unfinished

\* What a step of the command leaves as it was.
LEMMA RestingKeepsTruth ==
    ASSUME UNCHANGED <<local, release, tag, assets, passedOnce, servedOnce, live>>, CompleteIsTrue
    PROVE  CompleteIsTrue'
  BY DEF CompleteIsTrue, local

LEMMA RelInvInit == RelInit => RelInv
<1> SUFFICES ASSUME RelInit PROVE RelInv
  OBVIOUS
<1> USE ReleasingAssumption DEF RelInit, Versions, Commits, None
<1>1. RelType BY DEF RelType, Stages, Copies
<1>2. Remembered BY DEF Remembered
<1>3. BytesAreProved BY DEF BytesAreProved
<1>4. RelStands BY DEF RelStands
<1>5. CompleteIsTrue BY DEF CompleteIsTrue
<1> QED BY <1>1, <1>2, <1>3, <1>4, <1>5 DEF RelInv

LEMMA RelInvNext == RelInv /\ [RelNext]_relVars => RelInv'
<1> SUFFICES ASSUME RelInv, [RelNext]_relVars PROVE RelInv'
  OBVIOUS
<1> USE DEF RelInv, Goes, RelEnds, local, remote, world, command, None, Stages
<1>1. CASE Start
  <2>1. PICK named \in BOOLEAN, stage \in {"run", "prepare", "publish"} : \E v \in Chosen(named, stage) :
          /\ now' = v
          /\ relAt' = IF release[v] = "published" \/ stage = "publish" THEN "consume" ELSE "pin"
    BY <1>1 DEF Start
  <2>2. /\ now' \in Versions
        /\ relAt' \in {"consume", "pin"} /\ (relAt' = "pin" => release[now'] # "published")
        /\ UNCHANGED <<local, remote, world>>
    BY <1>1, <2>1, ChosenIsVersion DEF Start
  <2>3. RelType' BY <2>2, ReleasingAssumption DEF RelType, Versions
  <2>4. (Remembered /\ BytesAreProved)' BY <2>2 DEF Remembered, BytesAreProved
  <2>5. RelStands' BY <2>2 DEF RelStands
  <2>6. CompleteIsTrue' BY <2>2, RestingKeepsTruth
  <2> QED BY <2>3, <2>4, <2>5, <2>6
<1>2. CASE Pin
  <2>1. now \in Versions /\ release[now] # "published"
    BY <1>2 DEF Pin, RelType, RelStands
  <2>2. PICK c \in 1..main : pinned' = [pinned EXCEPT ![now] = c]
    BY <1>2 DEF Pin
  <2>3. c \in Commits
    BY ReleasingAssumption DEF RelType, Commits
  <2>4. RelType' BY <1>2, <2>2, <2>3 DEF Pin, RelType, Commits
  <2>5. (Remembered /\ BytesAreProved)' BY <1>2 DEF Pin, Remembered, BytesAreProved
  <2>6. RelStands' BY <1>2, <2>1, <2>2, <2>3 DEF Pin, RelStands, RelType
  <2>7. CompleteIsTrue' BY <1>2, <2>1, <2>2 DEF Pin, CompleteIsTrue, RelType
  <2> QED BY <2>4, <2>5, <2>6, <2>7
<1>3. CASE Suite
  <2>1. RelType' BY <1>3 DEF Suite, RelType, RelStands
  <2>2. Remembered' BY <1>3 DEF Suite, Remembered, RelType, RelStands
  <2>3. BytesAreProved' BY <1>3 DEF Suite, BytesAreProved
  <2>4. RelStands' BY <1>3 DEF Suite, RelStands
  <2>5. CompleteIsTrue' BY <1>3, RestingKeepsTruth DEF Suite
  <2> QED BY <2>1, <2>2, <2>3, <2>4, <2>5
<1>4. CASE PrepareAssets
  <2>1. now \in Versions /\ release[now] # "published" /\ pinned[now] \in Commits
    BY <1>4 DEF PrepareAssets, RelType, RelStands
  <2>2. pinned[now] \in passedOnce \intersect servedOnce /\ pinned[now] # 0
    BY <1>4, <2>1 DEF PrepareAssets, Built, FullyValidated, Remembered, Commits
  <2>3. prepared' = [prepared EXCEPT ![now] = pinned[now]]
    BY <1>4 DEF PrepareAssets
  <2>4. RelType' BY <1>4, <2>1, <2>3 DEF PrepareAssets, RelType
  <2>5. Remembered' BY <1>4 DEF PrepareAssets, Remembered
  <2>6. BytesAreProved' BY <1>4, <2>1, <2>2, <2>3 DEF PrepareAssets, BytesAreProved, RelType
  <2>7. RelStands' BY <1>4, <2>1, <2>2, <2>3 DEF PrepareAssets, RelStands, RelType
  <2>8. CompleteIsTrue' BY <1>4, <2>1, <2>3 DEF PrepareAssets, CompleteIsTrue, RelType
  <2> QED BY <2>4, <2>5, <2>6, <2>7, <2>8
<1>5. CASE Smoke
  <2>1. now \in Versions /\ smoked' = [smoked EXCEPT ![now] = TRUE]
    BY <1>5 DEF Smoke, RelType
  <2>2. RelType' BY <1>5, <2>1 DEF Smoke, RelType
  <2>3. Remembered' BY <1>5 DEF Smoke, Remembered
  <2>4. BytesAreProved' BY <1>5, <2>1 DEF Smoke, BytesAreProved, RelType
  <2>5. RelStands' BY <1>5, <2>1 DEF Smoke, RelStands, RelType
  <2>6. CompleteIsTrue' BY <1>5, <2>1 DEF Smoke, CompleteIsTrue, RelType
  <2> QED BY <2>2, <2>3, <2>4, <2>5, <2>6
<1>6. CASE Draft
  <2>1. now \in Versions /\ release[now] # "published" /\ prepared[now] \in Nat
    BY <1>6 DEF Draft, RelType, RelStands
  <2>2. release' = [release EXCEPT ![now] = IF @ = "none" THEN "draft" ELSE @]
    BY <1>6 DEF Draft
  <2>3. RelType' BY <1>6, <2>1, <2>2 DEF Draft, RelType
  <2>4. Remembered' BY <1>6 DEF Draft, Remembered
  <2>5. BytesAreProved' BY <1>6, <2>1, <2>2 DEF Draft, BytesAreProved, RelType
  <2>6. RelStands' BY <1>6, <2>1, <2>2 DEF Draft, RelStands, RelType
  <2>7. CompleteIsTrue' BY <1>6, <2>1, <2>2 DEF Draft, CompleteIsTrue, RelType
  <2> QED BY <2>3, <2>4, <2>5, <2>6, <2>7
<1>7. CASE Upload
  <2>1. now \in Versions /\ release[now] = "draft"
    BY <1>7 DEF Upload, RelType
  <2>2. PICK asset \in Assets : assets' = [assets EXCEPT ![now][asset] = "ours"]
    BY <1>7 DEF Upload
  <2>3. RelType' BY <1>7, <2>1, <2>2 DEF Upload, RelType, Copies
  <2>4. (Remembered /\ BytesAreProved)' BY <1>7 DEF Upload, Remembered, BytesAreProved
  <2>5. RelStands' BY <1>7 DEF Upload, RelStands
  <2>6. CompleteIsTrue' BY <1>7, <2>1, <2>2 DEF Upload, CompleteIsTrue, RelType
  <2> QED BY <2>3, <2>4, <2>5, <2>6
<1>8. CASE VerifyDraft
  <2>1. UNCHANGED <<local, remote, world>> /\ release[now] = "draft"
        /\ (\/ relAt' \in {"recheck", "consume"} /\ now' = now
            \/ relAt' = "idle" /\ now' = 0) /\ relAt = "upload"
    BY <1>8 DEF VerifyDraft
  <2>2. RelType' BY <2>1 DEF RelType
  <2>3. (Remembered /\ BytesAreProved)' BY <2>1 DEF Remembered, BytesAreProved
  <2>4. RelStands' BY <2>1 DEF RelStands
  <2>5. CompleteIsTrue' BY <2>1, RestingKeepsTruth
  <2> QED BY <2>2, <2>3, <2>4, <2>5
<1>9. CASE Consume
  <2>1. now \in Versions /\ pinned' = [pinned EXCEPT ![now] = prepared[now]] /\ prepared[now] # 0
    BY <1>9 DEF Consume, Valid, RelType
  <2>2. RelType' BY <1>9, <2>1 DEF Consume, RelType
  <2>3. (Remembered /\ BytesAreProved)' BY <1>9 DEF Consume, Remembered, BytesAreProved
  <2>4. RelStands' BY <1>9, <2>1 DEF Consume, RelStands, RelType
  <2>5. CompleteIsTrue' BY <1>9, <2>1 DEF Consume, CompleteIsTrue, RelType
  <2> QED BY <2>2, <2>3, <2>4, <2>5
<1>10. CASE PublishRelease
  <2>1. CASE /\ release[now] = "published" /\ Uploaded
             /\ Goes("production")
             /\ UNCHANGED smoked
    <3>1. UNCHANGED <<local, remote, world>> /\ relAt' = "production" /\ now' = now /\ now \in Versions
          /\ relAt = "publish" /\ Identity
      BY <1>10, <2>1 DEF PublishRelease, RelType
    <3>2. RelType' BY <3>1 DEF RelType
    <3>3. (Remembered /\ BytesAreProved)' BY <3>1 DEF Remembered, BytesAreProved
    <3>4. RelStands' BY <3>1, <2>1 DEF RelStands, Identity, Uploaded
    <3>5. CompleteIsTrue' BY <3>1, RestingKeepsTruth
    <3> QED BY <3>2, <3>3, <3>4, <3>5
  <2>2. CASE /\ release[now] = "draft" /\ CheckedSource(prepared[now])
             /\ smoked' = [smoked EXCEPT ![now] = TRUE]
             /\ relAt' = "draft" /\ final' = TRUE /\ UNCHANGED <<now, goal>>
    <3>1. UNCHANGED <<pinned, complete, prepared, remote, world>> /\ now \in Versions /\ relAt = "publish"
      BY <1>10, <2>2 DEF PublishRelease, RelType
    <3>2. RelType' BY <3>1, <2>2 DEF RelType
    <3>3. (Remembered /\ BytesAreProved)' BY <3>1, <2>2 DEF Remembered, BytesAreProved, RelType
    <3>4. RelStands' BY <3>1, <2>2 DEF RelStands, RelType
    <3>5. CompleteIsTrue' BY <3>1, <2>2 DEF CompleteIsTrue, RelType
    <3> QED BY <3>2, <3>3, <3>4, <3>5
  <2> QED BY <1>10, <2>1, <2>2 DEF PublishRelease
<1>11. CASE Recheck
  <2>1. UNCHANGED <<local, remote, world>> /\ relAt' = "patch" /\ now' = now /\ relAt = "recheck"
    BY <1>11 DEF Recheck
  <2>2. RelType' BY <2>1 DEF RelType
  <2>3. (Remembered /\ BytesAreProved)' BY <2>1 DEF Remembered, BytesAreProved
  <2>4. RelStands' BY <2>1 DEF RelStands
  <2>5. CompleteIsTrue' BY <2>1, RestingKeepsTruth
  <2> QED BY <2>2, <2>3, <2>4, <2>5
<1>12. CASE Patch
  <2>1. now \in Versions /\ release[now] = "draft" /\ smoked[now]
        /\ release' = [release EXCEPT ![now] = "published"]
        /\ tag' = [tag EXCEPT ![now] = IF @ = 0 THEN aims[now] ELSE @]
    BY <1>12 DEF Patch, RelType, RelStands
  <2>2. RelType' BY <1>12, <2>1 DEF Patch, RelType
  <2>3. Remembered' BY <1>12 DEF Patch, Remembered
  <2>4. BytesAreProved' BY <1>12, <2>1 DEF Patch, BytesAreProved, RelType
  <2>5. RelStands' BY <1>12, <2>1 DEF Patch, RelStands
  <2>6. CompleteIsTrue' BY <1>12, <2>1 DEF Patch, CompleteIsTrue, RelType
  <2> QED BY <2>2, <2>3, <2>4, <2>5, <2>6
<1>13. CASE VerifyPublished
  <2>1. UNCHANGED <<local, remote, world>> /\ relAt' = "production" /\ now' = now /\ relAt = "published"
        /\ release[now] = "published" /\ Identity /\ Uploaded
    BY <1>13 DEF VerifyPublished
  <2>2. RelType' BY <2>1 DEF RelType
  <2>3. (Remembered /\ BytesAreProved)' BY <2>1 DEF Remembered, BytesAreProved
  <2>4. RelStands' BY <2>1 DEF RelStands, Identity, Uploaded
  <2>5. CompleteIsTrue' BY <2>1, RestingKeepsTruth
  <2> QED BY <2>2, <2>3, <2>4, <2>5
<1>14. CASE VerifyProduction
  <2>1. UNCHANGED <<local, remote, world>> /\ relAt' = "clean" /\ now' = now /\ relAt = "production"
        /\ live = now /\ now \in Nat
    BY <1>14 DEF VerifyProduction, RelType
  <2>2. RelType' BY <2>1 DEF RelType
  <2>3. (Remembered /\ BytesAreProved)' BY <2>1 DEF Remembered, BytesAreProved
  <2>4. RelStands' BY <2>1 DEF RelStands, Identity, Uploaded
  <2>5. CompleteIsTrue' BY <2>1, RestingKeepsTruth
  <2> QED BY <2>2, <2>3, <2>4, <2>5
<1>15. CASE Complete
  <2>1. now \in Versions /\ complete' = [complete EXCEPT ![now] = TRUE]
    BY <1>15 DEF Complete, RelType
  <2>2. RelType' BY <1>15, <2>1 DEF Complete, RelType
  <2>3. (Remembered /\ BytesAreProved)' BY <1>15 DEF Complete, Remembered, BytesAreProved
  <2>4. RelStands' BY <1>15 DEF Complete, RelStands
  <2>5. /\ release[now] = "published" /\ tag[now] = prepared[now] /\ pinned[now] = prepared[now]
        /\ \A asset \in Assets : assets[now][asset] = "ours"
        /\ prepared[now] \in passedOnce \intersect servedOnce /\ smoked[now] /\ live >= now
    BY <1>15, <2>1 DEF Complete, RelStands, Identity, Uploaded, BytesAreProved
  <2>6. CompleteIsTrue' BY <1>15, <2>1, <2>5 DEF Complete, CompleteIsTrue, RelType
  <2> QED BY <2>2, <2>3, <2>4, <2>6
<1>16. CASE StopRelease
  <2>1. UNCHANGED <<local, remote, world>> /\ relAt' = "idle" /\ now' = 0
    BY <1>16 DEF StopRelease
  <2>2. RelType' BY <2>1 DEF RelType
  <2>3. (Remembered /\ BytesAreProved)' BY <2>1 DEF Remembered, BytesAreProved
  <2>4. RelStands' BY <2>1 DEF RelStands
  <2>5. CompleteIsTrue' BY <2>1, RestingKeepsTruth
  <2> QED BY <2>2, <2>3, <2>4, <2>5
<1>17. CASE Merged \/ Checked \/ DevInstalls
  <2>1. UNCHANGED <<local, release, aims, tag, assets, branch, live, command>>
        /\ passedOnce \subseteq passedOnce' /\ servedOnce \subseteq servedOnce'
    BY <1>17 DEF Merged, Checked, DevInstalls
  <2>2. RelType'
    <3>1. CASE Merged BY <3>1, ReleasingAssumption DEF Merged, RelType, Commits
    <3>2. CASE Checked BY <3>2, ReleasingAssumption DEF Checked, RelType, Commits
    <3>3. CASE DevInstalls BY <3>3, ReleasingAssumption DEF DevInstalls, RelType, Commits
    <3> QED BY <1>17, <3>1, <3>2, <3>3
  <2>3. Remembered'
    <3>1. CASE Merged BY <3>1 DEF Merged, Remembered
    <3>2. CASE Checked BY <3>2, ReleasingAssumption DEF Checked, Remembered, RelType, Commits
    <3>3. CASE DevInstalls BY <3>3 DEF DevInstalls, Remembered
    <3> QED BY <1>17, <3>1, <3>2, <3>3
  <2>4. BytesAreProved' BY <2>1 DEF BytesAreProved
  <2>5. RelStands' BY <2>1 DEF RelStands, Identity, Uploaded
  <2>6. CompleteIsTrue' BY <2>1 DEF CompleteIsTrue
  <2> QED BY <2>2, <2>3, <2>4, <2>5, <2>6
<1>18. CASE ProductionInstalls
  <2>1. UNCHANGED <<local, remote, main, dev, servedOnce, command>> /\ live' \in Nat /\ live' > live
        /\ live \in Nat
    BY <1>18, LatestIsNat DEF ProductionInstalls, RelType
  <2>2. RelType' BY <2>1 DEF RelType
  <2>3. (Remembered /\ BytesAreProved)' BY <2>1 DEF Remembered, BytesAreProved
  <2>4. RelStands' BY <2>1 DEF RelStands, Identity, Uploaded, RelType
  <2>5. CompleteIsTrue'
    <3>1. \A v \in Versions : live >= v => live' >= v
      BY <2>1 DEF Versions
    <3> QED BY <2>1, <3>1 DEF CompleteIsTrue
  <2> QED BY <2>2, <2>3, <2>4, <2>5
<1>19. CASE Meddle
  <2>1. PICK v \in Versions \ Published :
          \/ \E asset \in Assets :
                release[v] = "draft" /\ assets' = [assets EXCEPT ![v][asset] = "other"]
                /\ UNCHANGED <<release, aims, tag>>
          \/ \E c \in 1..main : release[v] = "draft" /\ aims' = [aims EXCEPT ![v] = c]
                /\ UNCHANGED <<release, tag, assets>>
          \/ \E c \in 1..main : tag' = [tag EXCEPT ![v] = c] /\ UNCHANGED <<release, aims, assets>>
          \/ /\ release[v] = "draft"
             /\ release' = [release EXCEPT ![v] = "none"]
             /\ assets' = [assets EXCEPT ![v] = [asset \in Assets |-> "missing"]]
             /\ UNCHANGED <<aims, tag>>
    BY <1>19 DEF Meddle
  <2>2. release[v] # "published"
    BY DEF Published
  <2>3. \A c \in 1..main : c \in Nat
    OBVIOUS
  <2>4. /\ release' \in [Versions -> {"none", "draft", "published"}]
        /\ aims' \in [Versions -> Nat] /\ tag' \in [Versions -> Nat]
        /\ assets' \in [Versions -> [Assets -> Copies]]
    <3>1. release' \in [Versions -> {"none", "draft", "published"}]
      BY <2>1 DEF RelType
    <3>2. aims' \in [Versions -> Nat] /\ tag' \in [Versions -> Nat]
      BY <2>1, <2>3 DEF RelType
    <3>3. [asset \in Assets |-> "missing"] \in [Assets -> Copies]
      BY DEF Copies
    <3>4. \A asset \in Assets : [assets[v] EXCEPT ![asset] = "other"] \in [Assets -> Copies]
      BY DEF RelType, Copies
    <3>5. assets' \in [Versions -> [Assets -> Copies]]
      <4>1. CASE UNCHANGED assets
        BY <4>1 DEF RelType
      <4>2. CASE assets' = [assets EXCEPT ![v] = [asset \in Assets |-> "missing"]]
        BY <4>2, <3>3 DEF RelType
      <4>3. ASSUME NEW asset \in Assets, assets' = [assets EXCEPT ![v][asset] = "other"]
            PROVE  assets' \in [Versions -> [Assets -> Copies]]
        <5> DEFINE row == [assets[v] EXCEPT ![asset] = "other"]
        <5>1. assets' = [assets EXCEPT ![v] = row]
          BY <4>3
        <5>2. row \in [Assets -> Copies]
          BY <3>4
        <5> HIDE DEF row
        <5> QED BY <5>1, <5>2 DEF RelType
      <4> QED BY <2>1, <4>1, <4>2, <4>3
    <3> QED BY <3>1, <3>2, <3>5
  <2>5. release'[v] # "published" /\ \A w \in Versions : release'[w] = "published" <=> release[w] = "published"
    BY <2>1, <2>2 DEF RelType
  <2>6. \A w \in Versions \ {v} : release'[w] = release[w] /\ tag'[w] = tag[w] /\ assets'[w] = assets[w]
    BY <2>1 DEF RelType
  <2>7. UNCHANGED <<local, checks, passedOnce, world, command>>
    BY <1>19 DEF Meddle
  <2> HIDE <2>1
  <2>8. RelType' BY <2>4, <2>7 DEF RelType
  <2>9. Remembered' BY <2>7 DEF Remembered
  <2>10. BytesAreProved' BY <2>5, <2>7 DEF BytesAreProved
  <2>11. RelStands' BY <2>2, <2>5, <2>6, <2>7 DEF RelStands, RelType, Identity, Uploaded
  <2>12. CompleteIsTrue' BY <2>2, <2>5, <2>6, <2>7 DEF CompleteIsTrue, RelType
  <2> QED BY <2>8, <2>9, <2>10, <2>11, <2>12
<1>20. CASE UNCHANGED relVars
  <2>1. UNCHANGED <<local, remote, world, command>>
    BY <1>20 DEF relVars
  <2>2. RelType' BY <2>1 DEF RelType
  <2>3. (Remembered /\ BytesAreProved)' BY <2>1 DEF Remembered, BytesAreProved
  <2>4. RelStands' BY <2>1 DEF RelStands, Identity, Uploaded
  <2>5. CompleteIsTrue' BY <2>1, RestingKeepsTruth
  <2> QED BY <2>2, <2>3, <2>4, <2>5
<1> QED
  BY <1>1, <1>2, <1>3, <1>4, <1>5, <1>6, <1>7, <1>8, <1>9, <1>10, <1>11, <1>12, <1>13, <1>14,
     <1>15, <1>16, <1>17, <1>18, <1>19, <1>20
  DEF RelNext

\* The inductive invariant of a release: where the command stands, what it has verified and what
\* was prepared from which commit.
THEOREM RelInvHolds == RelSpec => []RelInv
  BY RelInvInit, RelInvNext, PTL DEF RelSpec

\* A release marked complete has the pinned commit and assets that were verified, and production
\* serves it or has served a later one (releases are marked as the last step of the command).
THEOREM CompleteReleaseIsTrue == RelSpec => []CompleteIsTrue
<1>1. RelInv => CompleteIsTrue
  BY DEF RelInv
<1> QED BY <1>1, RelInvHolds, PTL

-----------------------------------------------------------------------------
(***************************************************************************)
(* For any order of pushes, reviews, merges and lagging answers: two looks *)
(* at the head of a pull request that find it outside the queue are enough *)
(* to say that it left unmerged. One of them may be of the moment after    *)
(* the entry is made or removed; the second look is not (LookIsTold,       *)
(* OutsideIsTold).                                                         *)
(***************************************************************************)

\* A pull request is in the queue only while it is open, and the command queued no head
\* that is not among those that were pushed; the first of its looks outside was at one of
\* those it queued.
QueueIsTold ==
    /\ pr.queued => pr.state = "open"
    /\ ship.first =< ship.queued /\ ship.queued =< pr.head
    /\ look.made => look.head =< pr.head

\* A look that found it outside the queue was of one that is not there, or that was queued
\* too late to be merged before another look.
LookIsTold ==
    /\ look.made \in BOOLEAN
    /\ look.made /\ ~look.queued => ~pr.lag /\ (pr.queued => pr.fresh)
    /\ look.made /\ ~look.queued /\ ship.outside = 1 /\ ship.first = pr.head
         => ~pr.queued /\ (look.state = "open" => pr.state # "merged")

\* After one such look at the present head the next one is not fooled.
OutsideIsTold ==
    /\ ship.outside \in {0, 1}
    /\ (ship.result = "none" /\ ship.outside = 1 /\ ship.first = pr.head
        /\ ~(look.made /\ look.queued))
         => ~pr.lag /\ (pr.queued => pr.fresh)
    /\ ship.result = "left"
         => ship.outside = 1 /\ (ship.first = pr.head => ~pr.queued /\ pr.state # "merged")

\* The rows, with the ends of the command.
Merging == {"unknown", "conflict", "cleanly"}
Pulls == [head : Nat, state : {"open", "merged", "closed"}, draft : BOOLEAN, queued : BOOLEAN,
          merges : Merging, admission : {"pending", "passed", "failed"}, labelled : BOOLEAN,
          review : Reviews, threads : Threads, lag : BOOLEAN, fresh : BOOLEAN]
Ends == {"merged", "closed", "draft", "left", "conflict", "not admitted", "unreviewed",
         "to answer", "refused", "gave up", "unanswered"}
Memories == [seen : BOOLEAN, unanswered : Nat, refused : Nat, queued : Nat, outside : Nat, first : Nat,
             waited : Nat, unstarted : Nat, answering : Nat, limited : Nat,
             settling : BOOLEAN, result : Ends \union {"none"}]
Fields ==
    /\ pr \in Pulls /\ ship \in Memories
    /\ look.made => look.head \in Nat /\ look.queued \in BOOLEAN

ShipInv == Fields /\ QueueIsTold /\ LookIsTold /\ OutsideIsTold

LEMMA ShipInvInit == ShippingInit => ShipInv
<1> SUFFICES ASSUME ShippingInit PROVE ShipInv
  OBVIOUS
<1>0. pr \in Pulls
  <2>1. 1 \in Nat /\ "unstarted" \in Reviews /\ "none" \in Threads /\ "unknown" \in Merging
        /\ "open" \in {"open", "merged", "closed"}
        /\ "pending" \in {"pending", "passed", "failed"}
    BY DEF Reviews, Threads, Merging
  <2> QED BY <2>1 DEF ShippingInit, Pulls
<1>1. pr.queued = FALSE /\ pr.lag = FALSE /\ pr.state = "open" /\ pr.head = 1
  BY DEF ShippingInit, Pulls, Merging, Reviews, Threads
<1>2. /\ ship \in Memories /\ ship.outside = 0 /\ ship.result = "none"
      /\ ship.first = 0 /\ ship.queued = 0
  BY DEF ShippingInit, Memories, NoHead
<1>3. look.made = FALSE
  BY DEF ShippingInit, Unlooked
<1>4. Fields
  BY <1>0, <1>2, <1>3 DEF Fields
<1>5. QueueIsTold
  BY <1>1, <1>2, <1>3 DEF QueueIsTold
<1>6. LookIsTold
  BY <1>3 DEF LookIsTold
<1>7. OutsideIsTold
  BY <1>2 DEF OutsideIsTold
<1> QED BY <1>4, <1>5, <1>6, <1>7 DEF ShipInv

\* What the command remembers of a look it has used.
LEMMA WaitingKeepsInv ==
    ASSUME ShipInv, UNCHANGED pr, look' = Unlooked, ship' \in Memories,
           ship'.outside \in {0, 1}, ship'.first =< ship'.queued, ship'.queued =< pr.head,
           ship'.result = "none" /\ ship'.outside = 1 /\ ship'.first = pr.head
             => ~pr.lag /\ (pr.queued => pr.fresh),
           ship'.result = "left"
             => ship'.outside = 1 /\ (ship'.first = pr.head => ~pr.queued /\ pr.state # "merged")
    PROVE  ShipInv'
<1>1. look'.made = FALSE
  BY DEF Unlooked
<1>2. Fields'
  BY <1>1 DEF ShipInv, Fields
<1>3. QueueIsTold'
  BY <1>1 DEF ShipInv, QueueIsTold
<1>4. LookIsTold'
  BY <1>1 DEF LookIsTold
<1>5. OutsideIsTold'
  BY DEF OutsideIsTold
<1> QED BY <1>2, <1>3, <1>4, <1>5 DEF ShipInv

\* Waiting, or an end that is not "left", after a look that showed no entry.
LEMMA Kept ==
    ASSUME ShipInv, UNCHANGED pr, look' = Unlooked, ship' \in Memories,
           ship'.outside = ship.outside, ship'.first = ship.first, ship'.queued = ship.queued,
           ship'.result # "left",
           ship'.result = "none" => ship.result = "none" /\ ~(look.made /\ look.queued)
    PROVE  ShipInv'
  BY WaitingKeepsInv DEF ShipInv, OutsideIsTold, QueueIsTold

\* A row that is changed in the fields it has.
LEMMA Ended ==
    ASSUME ship \in Memories, NEW how \in Ends
    PROVE  LET ended == [ship EXCEPT !.result = how]
           IN  /\ ended \in Memories /\ ended.outside = ship.outside /\ ended.result = how
               /\ ended.first = ship.first /\ ended.queued = ship.queued
  BY DEF Memories, Ends

LEMMA CalmKeeps ==
    ASSUME ship \in Memories
    PROVE  /\ Calm(ship) \in Memories /\ Calm(ship).outside = ship.outside
           /\ Calm(ship).result = ship.result /\ Calm(ship).refused = ship.refused
           /\ Calm(ship).first = ship.first /\ Calm(ship).queued = ship.queued
           /\ Calm(ship).settling = ship.settling
  BY DEF Memories, Calm

\* What GitHub and the people at it do to a pull request a look has been made of.
LEMMA HubKeepsInv ==
    ASSUME ShipInv, UNCHANGED <<look, ship>>, pr' \in Pulls, pr.head =< pr'.head,
           pr'.queued => pr.queued /\ pr'.fresh = pr.fresh /\ pr'.state = "open",
           pr'.lag => pr.lag \/ (pr.queued /\ ~pr.fresh),
           pr'.state = "merged" => pr.state = "merged" \/ (pr.queued /\ ~pr.fresh)
    PROVE  ShipInv'
<1> USE DEF ShipInv, Fields
<1>0. pr.head \in Nat /\ pr'.head \in Nat /\ ship.first \in Nat /\ ship.queued \in Nat
  BY DEF Pulls, Memories
<1>1. Fields'
  OBVIOUS
<1>2. QueueIsTold'
  BY <1>0 DEF QueueIsTold
<1>3. ship.first = pr'.head => ship.first = pr.head
  BY <1>0 DEF QueueIsTold
<1>4. LookIsTold'
  BY <1>3 DEF LookIsTold
<1>5. OutsideIsTold'
  BY <1>3 DEF OutsideIsTold
<1> QED BY <1>1, <1>2, <1>4, <1>5

LEMMA LookKeepsInv == ASSUME ShipInv, Look PROVE ShipInv'
<1> USE DEF ShipInv
<1>1. CASE /\ look' = Shown /\ ship' = [ship EXCEPT !.seen = TRUE, !.unanswered = 0]
           /\ pr' = [pr EXCEPT !.lag = FALSE, !.fresh = pr.lag]
  <2>0. ship.result = "none" /\ ~look.made
    BY DEF Look
  <2>1. /\ ship' \in Memories /\ ship'.outside = ship.outside /\ ship'.result = "none"
        /\ ship'.first = ship.first /\ ship'.queued = ship.queued
    BY <1>1, <2>0 DEF Memories, Fields
  <2>2. /\ pr' \in Pulls /\ pr'.lag = FALSE /\ pr'.fresh = pr.lag /\ pr'.queued = pr.queued
        /\ pr'.state = pr.state /\ pr'.head = pr.head
    BY <1>1 DEF Pulls, Fields
  <2>3. /\ look'.made = TRUE /\ look'.head = pr.head
        /\ look'.queued = (IF pr.lag THEN FALSE ELSE pr.queued)
        /\ look'.state = (IF pr.lag THEN "open" ELSE pr.state)
    BY <1>1 DEF Shown
  <2>4. pr.queued \in BOOLEAN /\ pr.lag \in BOOLEAN /\ pr.head \in Nat
    BY DEF Pulls, Fields
  <2>5. Fields'
    BY <2>1, <2>2, <2>3, <2>4 DEF Fields
  <2>6. QueueIsTold'
    BY <2>1, <2>2, <2>3, <2>4 DEF QueueIsTold
  <2>7. ship.outside = 1 /\ ship.first = pr.head => ~pr.lag
    BY <2>0 DEF OutsideIsTold
  <2>8. ~look'.queued => (pr'.queued => pr'.fresh)
    BY <2>2, <2>3, <2>4
  <2>9. LookIsTold'
    BY <2>1, <2>2, <2>3, <2>7, <2>8 DEF LookIsTold
  <2>10. OutsideIsTold'
    BY <2>1, <2>2, <2>3, <2>8 DEF OutsideIsTold
  <2> QED BY <2>5, <2>6, <2>9, <2>10
<1>2. CASE /\ ship' = [ship EXCEPT !.unanswered = @ + 1,
                   !.result = IF ship.unanswered + 1 >= Attempts \/ ~ship.seen THEN "unanswered" ELSE "none"]
           /\ UNCHANGED <<look, pr>>
  <2>1. /\ ship' \in Memories /\ ship'.outside = ship.outside /\ ship'.result # "left"
        /\ ship'.first = ship.first /\ ship'.queued = ship.queued
    <3> DEFINE more == ship.unanswered + 1
               how == IF more >= Attempts \/ ~ship.seen THEN "unanswered" ELSE "none"
    <3>0. more \in Nat
      BY DEF Memories, Fields
    <3>1. how \in Ends \union {"none"} /\ how # "left"
      <4>1. how \in {"unanswered", "none"}
        OBVIOUS
      <4> HIDE DEF how
      <4> QED BY <4>1 DEF Ends
    <3>2. ship' = [ship EXCEPT !.unanswered = more, !.result = how]
      BY <1>2
    <3> HIDE DEF more, how
    <3> QED BY <3>0, <3>1, <3>2 DEF Memories, Fields
  <2>2. ship.result = "none" /\ ~look.made
    BY DEF Look
  <2>3. Fields'
    BY <1>2, <2>1 DEF Fields
  <2>4. QueueIsTold'
    BY <1>2, <2>1 DEF QueueIsTold
  <2>5. LookIsTold'
    BY <1>2, <2>1, <2>2 DEF LookIsTold
  <2>6. OutsideIsTold'
    BY <1>2, <2>1, <2>2 DEF OutsideIsTold
  <2> QED BY <2>3, <2>4, <2>5, <2>6
<1> QED BY <1>1, <1>2 DEF Look

LEMMA EndsKeepsInv ==
    ASSUME ShipInv, NEW how \in Ends, how # "left", ShipEnds(how)
    PROVE  ShipInv'
<1>1. /\ ship' \in Memories /\ ship'.outside = ship.outside /\ ship'.result = how
      /\ ship'.first = ship.first /\ ship'.queued = ship.queued
  BY Ended DEF ShipEnds, ShipInv, Fields
<1>2. how # "none"
  BY DEF Ends
<1> QED BY <1>1, <1>2, Kept DEF ShipEnds, Pause

LEMMA InQueueKeepsInv == ASSUME ShipInv, InQueue PROVE ShipInv'
<1> DEFINE looked == look.head
<1>1. looked \in Nat /\ looked =< pr.head /\ ship.result = "none"
  BY DEF InQueue, Ready, Deciding, ShipInv, Fields, QueueIsTold
<1>2. ship' = [ship EXCEPT !.queued = looked, !.outside = 0, !.first = NoHead]
  BY DEF InQueue, Waits
<1> HIDE DEF looked
<1>3. /\ ship' \in Memories /\ ship'.outside = 0 /\ ship'.result = "none"
      /\ ship'.first = 0 /\ ship'.queued = looked
  BY <1>1, <1>2 DEF Memories, ShipInv, Fields, NoHead
<1>4. ship'.first =< ship'.queued /\ ship'.queued =< pr.head
  BY <1>1, <1>3
<1> QED BY <1>3, <1>4, WaitingKeepsInv DEF InQueue, Waits, Pause

LEMMA LeftKeepsInv == ASSUME ShipInv, LeftQueue PROVE ShipInv'
<1>1. look.made /\ ~look.queued /\ look.state = "open" /\ ship.result = "none"
  BY DEF LeftQueue, Ready, Deciding
<1>2. CASE ship.outside >= 1 /\ ShipEnds("left")
  <2>1. /\ ship' \in Memories /\ ship'.outside = ship.outside /\ ship'.result = "left"
        /\ ship'.first = ship.first /\ ship'.queued = ship.queued
    BY <1>2, Ended DEF Ends, ShipEnds, ShipInv, Fields
  <2>2. ship.outside = 1 /\ (ship.first = pr.head => ~pr.queued /\ pr.state # "merged")
    BY <1>1, <1>2 DEF ShipInv, LookIsTold, OutsideIsTold
  <2> QED BY <1>2, <2>1, <2>2, WaitingKeepsInv DEF ShipEnds, Pause, ShipInv, QueueIsTold
<1>3. CASE Waits([ship EXCEPT !.outside = 1, !.first = look.head])
  <2> DEFINE looked == look.head
  <2>1. looked \in Nat /\ looked =< pr.head /\ ship.queued = looked
    BY <1>1 DEF LeftQueue, ShipInv, Fields, QueueIsTold
  <2>2. ship' = [ship EXCEPT !.outside = 1, !.first = looked]
    BY <1>3 DEF Waits
  <2> HIDE DEF looked
  <2>3. /\ ship' \in Memories /\ ship'.outside = 1 /\ ship'.result = "none"
        /\ ship'.first = looked /\ ship'.queued = looked
    BY <1>1, <2>1, <2>2 DEF Memories, ShipInv, Fields
  <2>4. ~pr.lag /\ (pr.queued => pr.fresh)
    BY <1>1 DEF ShipInv, LookIsTold
  <2> QED BY <1>3, <2>1, <2>3, <2>4, WaitingKeepsInv DEF Waits, Pause
<1> QED BY <1>2, <1>3 DEF LeftQueue

LEMMA AwaitReviewKeepsInv == ASSUME ShipInv, AwaitReview PROVE ShipInv'
<1> DEFINE calm == Calm(ship)
           unstarted == IF look.review = "running" THEN 0
                        ELSE IF look.review = "unstarted" THEN calm.unstarted + 1 ELSE calm.unstarted
           limited == IF look.review = "limited" THEN calm.limited + 1 ELSE calm.limited
           waited == calm.waited + 1
           counted == [calm EXCEPT !.unstarted = unstarted, !.limited = limited, !.waited = waited]
<1>1. ship.result = "none" /\ ~look.queued
  BY DEF AwaitReview, Admitted, Outside, Ready, Deciding
<1>2. /\ calm \in Memories /\ calm.outside = ship.outside /\ calm.result = ship.result
      /\ calm.first = ship.first /\ calm.queued = ship.queued
  BY CalmKeeps DEF ShipInv, Fields
<1>3. ShipEnds("unreviewed") \/ Waits(counted)
  BY DEF AwaitReview
<1> HIDE DEF calm
<1>4. unstarted \in Nat /\ limited \in Nat /\ waited \in Nat
  BY <1>2 DEF Memories
<1> HIDE DEF unstarted, limited, waited
<1>5. /\ counted \in Memories /\ counted.outside = ship.outside /\ counted.result = ship.result
      /\ counted.first = ship.first /\ counted.queued = ship.queued
  BY <1>2, <1>4 DEF Memories
<1> HIDE DEF counted
<1> QED BY <1>1, <1>3, <1>5, Kept, EndsKeepsInv DEF Waits, Pause, Ends

LEMMA AwaitAnswersKeepsInv == ASSUME ShipInv, AwaitAnswers PROVE ShipInv'
<1> DEFINE calm == Calm(ship)
           settling == look.threads = "answered"
           answering == IF look.threads = "its" THEN calm.answering + 1 ELSE calm.answering
           memory == [calm EXCEPT !.settling = settling, !.answering = answering]
<1>1. ship.result = "none" /\ ~look.queued
  BY DEF AwaitAnswers, Admitted, Outside, Ready, Deciding
<1>2. /\ calm \in Memories /\ calm.outside = ship.outside /\ calm.result = ship.result
      /\ calm.first = ship.first /\ calm.queued = ship.queued
  BY CalmKeeps DEF ShipInv, Fields
<1>3. ShipEnds("to answer") \/ Waits(memory)
  BY DEF AwaitAnswers
<1> HIDE DEF calm
<1>4. settling \in BOOLEAN /\ answering \in Nat
  BY <1>2 DEF Memories
<1> HIDE DEF settling, answering
<1>5. /\ memory \in Memories /\ memory.outside = ship.outside /\ memory.result = ship.result
      /\ memory.first = ship.first /\ memory.queued = ship.queued
  BY <1>2, <1>4 DEF Memories
<1> HIDE DEF memory
<1> QED BY <1>1, <1>3, <1>5, Kept, EndsKeepsInv DEF Waits, Pause, Ends

LEMMA AddKeepsInv == ASSUME ShipInv, Add PROVE ShipInv'
<1> DEFINE calm == Calm(ship)
           looked == look.head
           settling == ship.settling /\ ~look.labelled
<1>1. /\ look.made /\ looked \in Nat /\ ship.result = "none" /\ ~look.queued
      /\ ship.queued # looked /\ looked =< pr.head
  BY DEF Add, MayQueue, Admitted, Outside, Ready, Deciding, ShipInv, Fields, QueueIsTold
<1>2. /\ calm \in Memories /\ calm.outside = ship.outside /\ calm.result = ship.result
      /\ calm.refused = ship.refused /\ calm.settling = ship.settling
      /\ calm.first = ship.first /\ calm.queued = ship.queued
  BY CalmKeeps DEF ShipInv, Fields
<1>3. settling \in BOOLEAN
  OBVIOUS
<1>4. CASE /\ Accepts(look.head)
           /\ \E lag \in BOOLEAN : pr' = [pr EXCEPT !.queued = TRUE, !.lag = lag, !.fresh = lag]
           /\ ship' = [calm EXCEPT !.refused = 0, !.queued = looked,
                                   !.settling = calm.settling /\ ~look.labelled]
  <2>1. ship' = [calm EXCEPT !.refused = 0, !.queued = looked, !.settling = settling]
    BY <1>2, <1>4
  <2> HIDE DEF calm, looked, settling
  <2>2. /\ ship' \in Memories /\ ship'.outside = ship.outside /\ ship'.result = "none"
        /\ ship'.first = ship.first /\ ship'.queued = looked
    BY <1>1, <1>2, <1>3, <2>1 DEF Memories
  <2>3. /\ pr' \in Pulls /\ pr'.queued = TRUE /\ pr'.state = pr.state /\ pr'.head = pr.head
    BY <1>4 DEF Pulls, ShipInv, Fields
  <2>4. pr.state = "open" /\ looked = pr.head
    BY <1>4 DEF Accepts, looked
  <2>5. /\ pr.head \in Nat /\ ship.first \in Nat /\ ship.queued \in Nat
        /\ ship.first =< ship.queued /\ ship.queued =< pr.head /\ ship.outside \in {0, 1}
    BY DEF ShipInv, Fields, Pulls, Memories, QueueIsTold, OutsideIsTold
  <2>6. ship'.first # pr'.head
    BY <1>1, <2>2, <2>3, <2>4, <2>5
  <2>7. look' = Unlooked
    BY DEF Add, Pause
  <2>8. Fields' /\ QueueIsTold'
    BY <1>1, <2>2, <2>3, <2>4, <2>5, <2>7 DEF Fields, QueueIsTold, Unlooked
  <2>9. LookIsTold' /\ OutsideIsTold'
    BY <2>2, <2>5, <2>6, <2>7 DEF LookIsTold, OutsideIsTold, Unlooked
  <2> QED BY <2>8, <2>9 DEF ShipInv
<1>5. CASE /\ ship' = [calm EXCEPT !.refused = @ + 1,
                       !.settling = calm.settling /\ ~look.labelled,
                       !.result = IF ship.refused + 1 >= Attempts THEN "refused" ELSE "none"]
           /\ UNCHANGED pr
  <2> DEFINE refused == calm.refused + 1
             how == IF ship.refused + 1 >= Attempts THEN "refused" ELSE "none"
  <2>1. ship' = [calm EXCEPT !.refused = refused, !.settling = settling, !.result = how]
    BY <1>2, <1>5
  <2> HIDE DEF calm
  <2>2. refused \in Nat
    BY <1>2 DEF Memories
  <2>3. how \in Ends \union {"none"} /\ how # "left"
    <3>1. how \in {"refused", "none"}
      OBVIOUS
    <3> HIDE DEF how
    <3> QED BY <3>1 DEF Ends
  <2> HIDE DEF refused, how, settling
  <2>4. /\ ship' \in Memories /\ ship'.outside = ship.outside /\ ship'.result # "left"
        /\ ship'.first = ship.first /\ ship'.queued = ship.queued
    BY <1>2, <1>3, <2>1, <2>2, <2>3 DEF Memories
  <2> QED BY <1>1, <1>5, <2>4, Kept DEF Add, Pause
<1> QED BY <1>4, <1>5 DEF Add

LEMMA HubMovesKeepInv ==
    ASSUME ShipInv,
           PushHead \/ CheckEnds \/ ReviewMoves \/ ThreadMoves \/ Label \/ ClosePull
           \/ QueueMerges \/ QueueRemoves
    PROVE  ShipInv'
<1> USE DEF HubMoved
<1>p. pr \in Pulls /\ (pr.queued => pr.state = "open")
  BY DEF ShipInv, Fields, QueueIsTold
<1>0. /\ Unqueued \in Pulls /\ Unqueued.queued = FALSE /\ Unqueued.lag = FALSE
      /\ Unqueued.state = pr.state /\ Unqueued.head = pr.head
  BY <1>p DEF Pulls, Unqueued
<1>h. pr.head \in Nat /\ pr.head =< pr.head
  BY <1>p DEF Pulls
<1> HIDE DEF Unqueued
<1>1. CASE PushHead
  <2>1. /\ pr' \in Pulls /\ pr'.queued = FALSE /\ pr'.lag = FALSE /\ pr'.state = pr.state
        /\ pr'.head = pr.head + 1
    <3> DEFINE more == pr.head + 1
    <3>0. {pr.review, "unstarted"} \subseteq Reviews /\ {"unknown", "conflict"} \subseteq Merging
      BY <1>p DEF Pulls, Reviews, Merging
    <3>1. PICK review \in Reviews, merges \in Merging :
              pr' = [Unqueued EXCEPT !.head = more, !.admission = "pending",
                                     !.merges = merges, !.review = review]
      BY <1>0, <1>1, <3>0 DEF PushHead
    <3>2. more \in Nat
      BY <1>h
    <3>3. pr' \in Pulls /\ pr'.head = more
      <4> HIDE DEF more
      <4> QED BY <1>0, <3>1, <3>2 DEF Pulls
    <3>4. pr'.queued = FALSE /\ pr'.lag = FALSE /\ pr'.state = pr.state
      BY <1>0, <3>1 DEF Pulls
    <3> QED BY <3>3, <3>4
  <2>2. pr.head =< pr'.head
    BY <1>h, <2>1
  <2> QED BY <1>0, <1>h, <1>p, <1>1, <2>1, <2>2, HubKeepsInv DEF PushHead
<1>2. CASE CheckEnds
  <2>1. /\ pr' \in Pulls /\ pr'.queued = pr.queued /\ pr'.lag = pr.lag /\ pr'.state = pr.state
        /\ pr'.fresh = pr.fresh /\ pr'.head = pr.head
    BY <1>p, <1>2 DEF CheckEnds, Pulls, Merging
  <2> QED BY <1>0, <1>h, <1>p, <1>2, <2>1, HubKeepsInv DEF CheckEnds
<1>3. CASE ReviewMoves
  <2>1. /\ pr' \in Pulls /\ pr'.queued = pr.queued /\ pr'.lag = pr.lag /\ pr'.state = pr.state
        /\ pr'.fresh = pr.fresh /\ pr'.head = pr.head
    <3>1. PICK review \in Reviews, threads \in Threads :
              pr' = [pr EXCEPT !.review = review, !.threads = threads]
      BY <1>p, <1>3 DEF ReviewMoves, Threads, Pulls
    <3> QED BY <1>p, <3>1 DEF Pulls
  <2> QED BY <1>0, <1>h, <1>p, <1>3, <2>1, HubKeepsInv DEF ReviewMoves
<1>4. CASE ThreadMoves
  <2>1. /\ pr' \in Pulls /\ pr'.queued = pr.queued /\ pr'.lag = pr.lag /\ pr'.state = pr.state
        /\ pr'.fresh = pr.fresh /\ pr'.head = pr.head
    <3>1. PICK threads \in Threads : pr' = [pr EXCEPT !.threads = threads]
      BY <1>p, <1>4 DEF ThreadMoves, Threads
    <3> QED BY <1>p, <3>1 DEF Pulls
  <2> QED BY <1>0, <1>h, <1>p, <1>4, <2>1, HubKeepsInv DEF ThreadMoves
<1>5. CASE Label
  <2>1. /\ pr' \in Pulls /\ pr'.queued = pr.queued /\ pr'.lag = pr.lag /\ pr'.state = pr.state
        /\ pr'.fresh = pr.fresh /\ pr'.head = pr.head
    BY <1>p, <1>5 DEF Label, Pulls
  <2> QED BY <1>0, <1>h, <1>p, <1>5, <2>1, HubKeepsInv DEF Label
<1>6. CASE ClosePull
  <2>1. /\ pr' \in Pulls /\ pr'.queued = FALSE /\ pr'.lag = FALSE /\ pr'.state = "closed"
        /\ pr'.head = pr.head
    BY <1>0, <1>6 DEF ClosePull, Pulls
  <2> QED BY <1>0, <1>h, <1>p, <1>6, <2>1, HubKeepsInv DEF ClosePull
<1>7. CASE QueueMerges
  <2>1. /\ pr' \in Pulls /\ pr'.queued = FALSE /\ pr.queued /\ ~pr.fresh /\ pr'.head = pr.head
    BY <1>p, <1>7 DEF QueueMerges, Pulls
  <2> QED BY <1>0, <1>h, <1>p, <1>7, <2>1, HubKeepsInv DEF QueueMerges
<1>8. CASE QueueRemoves
  <2>1. pr' = Unqueued
    BY <1>p, <1>8 DEF QueueRemoves
  <2> QED BY <1>0, <1>h, <1>p, <1>8, <2>1, HubKeepsInv DEF QueueRemoves
<1> QED BY <1>1, <1>2, <1>3, <1>4, <1>5, <1>6, <1>7, <1>8

LEMMA ShipInvNext == ShipInv /\ [ShippingNext]_shippingVars => ShipInv'
<1> SUFFICES ASSUME ShipInv, [ShippingNext]_shippingVars PROVE ShipInv'
  OBVIOUS
<1>1. CASE Look BY <1>1, LookKeepsInv
<1>2. CASE PullFinished BY <1>2, EndsKeepsInv DEF PullFinished, Ends
<1>3. CASE InQueue BY <1>3, InQueueKeepsInv
<1>4. CASE LeftQueue BY <1>4, LeftKeepsInv
<1>5. CASE Admission
  <2>1. CASE Waits(ship)
    BY <1>5, <2>1, Kept DEF Admission, Outside, Ready, Deciding, Waits, Pause, ShipInv, Fields
  <2> QED BY <1>5, <2>1, EndsKeepsInv DEF Admission, Ends
<1>6. CASE AwaitReview BY <1>6, AwaitReviewKeepsInv
<1>7. CASE AwaitAnswers BY <1>7, AwaitAnswersKeepsInv
<1>8. CASE Add BY <1>8, AddKeepsInv
<1>9. CASE GiveUpShipping BY <1>9, EndsKeepsInv DEF GiveUpShipping, Ends
<1>10. CASE PushHead \/ CheckEnds \/ ReviewMoves \/ ThreadMoves \/ Label \/ ClosePull
            \/ QueueMerges \/ QueueRemoves
  BY <1>10, HubMovesKeepInv
<1>11. CASE UNCHANGED shippingVars
  BY <1>11 DEF shippingVars, ShipInv, Fields, QueueIsTold, LookIsTold, OutsideIsTold
<1> QED
  BY <1>1, <1>2, <1>3, <1>4, <1>5, <1>6, <1>7, <1>8, <1>9, <1>10, <1>11 DEF ShippingNext

\* The inductive invariant of the merge queue and of what the command's two looks tell of it.
THEOREM ShipInvHolds == ShippingSpec => []ShipInv
  BY ShipInvInit, ShipInvNext, PTL DEF ShippingSpec

\* When both of its looks outside the queue were at the present head, the command reports
\* that the pull request left the queue only if it is neither merged nor queued (ship.rs:
\* run looks a second time before it gives up).
THEOREM LeftWasNotMerged == ShippingSpec => []LeftMeansUnmerged
<1>1. ShipInv => LeftMeansUnmerged
  BY DEF ShipInv, OutsideIsTold, LeftMeansUnmerged
<1> QED BY <1>1, ShipInvHolds, PTL

-----------------------------------------------------------------------------
(***************************************************************************)
(* For any releases and any number of crashes, updates, rollbacks,         *)
(* restores and lost files: what is served has the databases the release   *)
(* knows, migrated, with the DSP's data wherever they ever had any, and    *)
(* startup refuses only what lost a file.                                  *)
(*                                                                         *)
(* Startup and provisioning are lists of work (Ordered): what is behind    *)
(* them is done (WorkIsDone), and what is on disk between any two steps    *)
(* (DiskHolds) is enough to begin them again. A backup is as sound as the  *)
(* disk was.                                                               *)
(***************************************************************************)

\* What startup and provisioning do, one thing after the other.
Things == {"core", "layout", "paycom", "cortex", "mark cortex", "scorecard", "mark scorecard", "rest"}
Marking(k) == IF k = "cortex" THEN "mark cortex" ELSE "mark scorecard"
Of(work) == {work[i] : i \in DOMAIN work}
Left == Of(todo)

\* A list of work: the core database first, a marker right after what it marks, to serve last.
Ordered(work) ==
    /\ work \in Seq(Things)
    /\ \A i, j \in DOMAIN work : work[i] = work[j] => i = j
    /\ \A i \in DOMAIN work :
          /\ work[i] = "core" => i = 1
          /\ work[Len(work)] = "rest"
          /\ \A k \in Added : work[i] = k => i + 1 \in DOMAIN work /\ work[i + 1] = Marking(k)
          /\ \A k \in Added, j \in DOMAIN work : work[i] = Marking(k) /\ work[j] = k => j < i

Row == [made : BOOLEAN, list : Nat, data : BOOLEAN]
Databases == [Kind -> Row]
Backups == [taken : {TRUE}, db : Databases, marks : SUBSET ({"layout"} \union Added), had : SUBSET Kind]

StorageType ==
    /\ db \in Databases /\ marks \subseteq {"layout"} \union Added
    /\ dspStatus \in {"provisioning", "failed", "active"} /\ onDisk \in Release
    /\ process \in {"down", "starting", "up", "refused"}
    /\ Ordered(todo) /\ had \subseteq Kind /\ lost \subseteq Kind /\ faults \in Nat
    /\ copy \in Backups \/ copy = NoCopy

\* Storage that startup opens, and in which nothing is missing of what was there.
Sound(d, m, h) ==
    /\ d["core"].made /\ d["paycom"].made /\ "layout" \in m
    /\ \A k \in Added : k \in m => d[k].made
    /\ \A k \in h : d[k].made /\ d[k].data /\ (k \in Added => k \in m)

\* What is on disk between any two steps.
DiskHolds ==
    /\ dspStatus = "active" /\ lost = {} => Sound(db, marks, had)
    /\ copy # NoCopy => Sound(copy.db, copy.marks, copy.had)
    /\ lost = {} => \A k \in Added : k \in marks => db[k].made
    /\ had # {} => dspStatus = "active"
    /\ \A k \in had : /\ db[k].made => db[k].data
                      /\ k \in Added /\ db["core"].made => k \in marks

\* Startup works on an active DSP, provisioning on one that is not yet; neither outlives the process.
WorkStands ==
    /\ process = "starting" => todo # <<>> /\ dspStatus = "active"
    /\ process = "up" /\ todo # <<>> => dspStatus # "active"
    /\ process \in {"down", "refused"} => todo = <<>>

\* What is behind startup, provisioning or both.
Open(k) == db[k].made /\ db[k].list >= Lists[onDisk][k] /\ (k \in had => db[k].data)
WorkIsDone ==
    todo # <<>> \/ Serving =>
        /\ \A k \in Kind : k \notin Left /\ Knows(k) => Open(k)
        /\ \A k \in Kind \ Added : k \notin Left => db[k].made
        /\ "layout" \notin Left => "layout" \in marks
        /\ \A k \in Added : Marking(k) \notin Left /\ Knows(k) => k \in marks
        /\ \A k \in Added : Marking(k) \in Left /\ k \notin Left => Knows(k)

StorageInv ==
    StorageType /\ DiskHolds /\ WorkStands /\ WorkIsDone /\ RefusesOnlyLoss


\* The order of the work

LEMMA OrderedTail ==
    ASSUME NEW work, Ordered(work), work # <<>>
    PROVE  Ordered(Tail(work))
<1> DEFINE rest == Tail(work)
<1>1. work \in Seq(Things) /\ Len(work) \in Nat /\ Len(work) > 0 /\ DOMAIN work = 1..Len(work)
  BY DEF Ordered
<1>2. rest \in Seq(Things) /\ Len(rest) = Len(work) - 1 /\ DOMAIN rest = 1..(Len(work) - 1)
      /\ \A i \in DOMAIN rest : rest[i] = work[i + 1] /\ i + 1 \in DOMAIN work
  BY <1>1
<1> HIDE DEF rest
<1>3. \A i, j \in DOMAIN rest : rest[i] = rest[j] => i = j
  <2>1. TAKE i, j \in DOMAIN rest
  <2>2. HAVE rest[i] = rest[j]
  <2>3. i + 1 = j + 1
    BY <1>2, <2>2 DEF Ordered
  <2> QED BY <1>2, <2>3
<1>4. ASSUME NEW i \in DOMAIN rest
      PROVE  /\ rest[i] = "core" => i = 1
             /\ rest[Len(rest)] = "rest"
             /\ \A k \in Added : rest[i] = k => i + 1 \in DOMAIN rest /\ rest[i + 1] = Marking(k)
             /\ \A k \in Added, j \in DOMAIN rest : rest[i] = Marking(k) /\ rest[j] = k => j < i
  <2>1. i \in Nat /\ i + 1 \in Nat /\ i + 1 # 1 /\ i + 1 \in DOMAIN work /\ rest[i] = work[i + 1]
    BY <1>1, <1>2
  <2>2. work[i + 1] # "core"
    BY <2>1 DEF Ordered
  <2>3. Len(rest) \in DOMAIN rest /\ rest[Len(rest)] = work[Len(work)]
    BY <1>1, <1>2
  <2>4. work[Len(work)] = "rest"
    BY <2>1 DEF Ordered
  <2>5. ASSUME NEW k \in Added, rest[i] = k
        PROVE  i + 1 \in DOMAIN rest /\ rest[i + 1] = Marking(k)
    <3>1. i + 2 \in DOMAIN work /\ work[i + 2] = Marking(k)
      <4>1. (i + 1) + 1 \in DOMAIN work /\ work[(i + 1) + 1] = Marking(k)
        BY <2>1, <2>5 DEF Ordered
      <4>2. (i + 1) + 1 = i + 2
        BY <2>1
      <4> QED BY <4>1, <4>2
    <3>2. i + 1 \in DOMAIN rest
      BY <1>1, <1>2, <2>1, <3>1
    <3>3. rest[i + 1] = work[i + 2]
      BY <1>2, <2>1, <3>2
    <3> QED BY <3>1, <3>2, <3>3
  <2>6. ASSUME NEW k \in Added, NEW j \in DOMAIN rest, rest[i] = Marking(k), rest[j] = k
        PROVE  j < i
    <3>1. j + 1 \in DOMAIN work /\ work[j + 1] = k /\ j \in Nat
      BY <1>1, <1>2, <2>6
    <3>2. j + 1 < i + 1
      BY <2>1, <2>6, <3>1 DEF Ordered
    <3> QED BY <2>1, <3>1, <3>2
  <2> QED BY <2>1, <2>2, <2>3, <2>4, <2>5, <2>6
<1>5. Ordered(rest)
  BY <1>2, <1>3, <1>4 DEF Ordered
<1> QED BY <1>5 DEF rest

\* Doing the first thing leaves the others to do.
LEMMA TailLeaves ==
    ASSUME NEW work, Ordered(work), work # <<>>
    PROVE  Ordered(Tail(work)) /\ Of(Tail(work)) = Of(work) \ {Head(work)}
<1>1. Ordered(Tail(work))
  BY OrderedTail
<1>2. Len(work) \in Nat /\ Len(work) > 0 /\ DOMAIN work = 1..Len(work) /\ Head(work) = work[1]
  BY DEF Ordered
<1>3. DOMAIN Tail(work) = 1..(Len(work) - 1) /\ \A i \in DOMAIN Tail(work) : Tail(work)[i] = work[i + 1]
  BY DEF Ordered
<1>4. ASSUME NEW x \in Of(Tail(work)) PROVE x \in Of(work) \ {Head(work)}
  <2>1. PICK i \in DOMAIN Tail(work) : x = Tail(work)[i]
    BY <1>4 DEF Of
  <2>2. i + 1 \in DOMAIN work /\ x = work[i + 1] /\ i + 1 # 1 /\ 1 \in DOMAIN work
    BY <1>2, <1>3, <2>1
  <2>3. x # work[1]
    BY <2>2 DEF Ordered
  <2> QED BY <1>2, <2>2, <2>3 DEF Of
<1>5. ASSUME NEW x \in Of(work) \ {Head(work)} PROVE x \in Of(Tail(work))
  <2>1. PICK i \in DOMAIN work : x = work[i]
    BY DEF Of
  <2>2. i # 1
    BY <1>2, <2>1
  <2>3. i - 1 \in DOMAIN Tail(work) /\ (i - 1) + 1 = i
    BY <1>2, <1>3, <2>1, <2>2
  <2>4. Tail(work)[i - 1] = x
    BY <1>3, <2>1, <2>3
  <2> QED BY <2>3, <2>4 DEF Of
<1> QED BY <1>1, <1>4, <1>5

\* What comes first, and what is then still to come or already behind.
LEMMA FirstOfWork ==
    ASSUME NEW work, Ordered(work), work # <<>>
    PROVE  /\ Head(work) \in Things /\ Head(work) \in Of(work)
           /\ Head(work) # "core" => "core" \notin Of(work)
           /\ \A k \in Added : Head(work) = k =>
                 Marking(k) \in Of(work) /\ Tail(work) # <<>> /\ Head(Tail(work)) = Marking(k)
           /\ \A k \in Added : Head(work) = Marking(k) => k \notin Of(work)
           /\ Head(work) # "rest" => Tail(work) # <<>>
           /\ Head(work) = "rest" => Of(work) = {"rest"} /\ Tail(work) = <<>>
<1>1. /\ work \in Seq(Things) /\ Len(work) \in Nat /\ Len(work) > 0 /\ DOMAIN work = 1..Len(work)
      /\ Head(work) = work[1] /\ 1 \in DOMAIN work
  BY DEF Ordered
<1>2. Head(work) \in Things /\ Head(work) \in Of(work)
  BY <1>1 DEF Of
<1>3. Head(work) # "core" => "core" \notin Of(work)
  BY <1>1 DEF Of, Ordered
<1>4. ASSUME NEW k \in Added, Head(work) = k
      PROVE  Marking(k) \in Of(work) /\ Tail(work) # <<>> /\ Head(Tail(work)) = Marking(k)
  <2>1. 1 + 1 \in DOMAIN work /\ work[1 + 1] = Marking(k)
    BY <1>1, <1>4 DEF Ordered
  <2>2. 2 \in DOMAIN work /\ work[2] = Marking(k)
    BY <2>1
  <2>3. Len(Tail(work)) > 0 /\ Tail(work) \in Seq(Things) /\ Tail(work)[1] = work[2]
    BY <1>1, <2>2
  <2>4. Tail(work) # <<>>
    <3>1. Len(<<>>) = 0
      BY EmptySeq
    <3>2. ASSUME Tail(work) = <<>> PROVE Len(Tail(work)) = Len(<<>>)
      BY <3>2
    <3> QED BY <2>3, <3>1, <3>2
  <2>6. Head(Tail(work)) = Tail(work)[1]
    BY <2>3, <2>4
  <2>5. Marking(k) \in Of(work)
    BY <2>2 DEF Of
  <2> QED BY <2>2, <2>3, <2>4, <2>5, <2>6
<1>5. ASSUME NEW k \in Added, Head(work) = Marking(k), k \in Of(work) PROVE FALSE
  <2>1. PICK j \in DOMAIN work : work[j] = k
    BY <1>5 DEF Of
  <2>2. j < 1
    BY <1>1, <1>5, <2>1 DEF Ordered
  <2> QED BY <1>1, <2>1, <2>2
<1>6. ASSUME Head(work) = "rest" PROVE Of(work) = {"rest"} /\ Tail(work) = <<>>
  <2>1. work[Len(work)] = "rest" /\ Len(work) \in DOMAIN work
    BY <1>1 DEF Ordered
  <2>2. Len(work) = 1
    BY <1>1, <1>6, <2>1 DEF Ordered
  <2>3. DOMAIN work = {1}
    BY <1>1, <2>2
  <2>4. Of(work) = {"rest"}
    BY <1>1, <1>6, <2>3 DEF Of
  <2>5. Tail(work) \in Seq(Things) /\ Len(Tail(work)) = 0
    BY <1>1, <2>2
  <2> QED BY <2>4, <2>5, EmptySeq
<1>7. ASSUME Head(work) # "rest", Tail(work) = <<>> PROVE FALSE
  <2>1. work[Len(work)] = "rest"
    BY <1>1 DEF Ordered
  <2>2. Len(work) # 1
    BY <1>1, <1>7, <2>1
  <2>3. Len(Tail(work)) # Len(<<>>)
    BY <1>1, <2>2, EmptySeq
  <2> QED BY <1>7, <2>3
<1> QED BY <1>2, <1>3, <1>4, <1>5, <1>6, <1>7

LEMMA NothingToDo == Ordered(<<>>) /\ Of(<<>>) = {}
  BY DEF Ordered, Of

\* Both lists are in order, and each is of everything.
LEMMA ListsAreOrdered ==
    /\ Ordered(Opening) /\ Opening # <<>> /\ Things \subseteq Of(Opening)
    /\ Ordered(Provisioning) /\ Provisioning # <<>> /\ Things \subseteq Of(Provisioning)
<1>1. Opening \in Seq(Things) /\ Len(Opening) = 8 /\ DOMAIN Opening = 1..8 /\ Opening # <<>>
  BY DEF Opening, Things
<1>2. Provisioning \in Seq(Things) /\ Len(Provisioning) = 8 /\ DOMAIN Provisioning = 1..8 /\ Provisioning # <<>>
  BY DEF Provisioning, Things
<1>3. /\ Opening[1] = "core" /\ Opening[2] = "layout" /\ Opening[3] = "paycom" /\ Opening[4] = "cortex"
      /\ Opening[5] = "mark cortex" /\ Opening[6] = "scorecard" /\ Opening[7] = "mark scorecard" /\ Opening[8] = "rest"
  BY DEF Opening
<1>4. /\ Provisioning[1] = "core" /\ Provisioning[2] = "paycom" /\ Provisioning[3] = "layout" /\ Provisioning[4] = "cortex"
      /\ Provisioning[5] = "mark cortex" /\ Provisioning[6] = "scorecard" /\ Provisioning[7] = "mark scorecard"
      /\ Provisioning[8] = "rest"
  BY DEF Provisioning
<1>5. \A i \in 1..8 : i = 1 \/ i = 2 \/ i = 3 \/ i = 4 \/ i = 5 \/ i = 6 \/ i = 7 \/ i = 8
  OBVIOUS
<1>6. Ordered(Opening)
  <2>1. \A i, j \in 1..8 : Opening[i] = Opening[j] => i = j
    BY <1>3, <1>5
  <2>2. \A i \in 1..8 : Opening[i] = "core" => i = 1
    BY <1>3, <1>5
  <2>3. \A i \in 1..8, k \in Added : Opening[i] = k => i + 1 \in 1..8 /\ Opening[i + 1] = Marking(k)
    <3>1. \A i \in 1..8 : (Opening[i] = "cortex" => i = 4) /\ (Opening[i] = "scorecard" => i = 6)
      BY <1>3, <1>5
    <3>2. 4 + 1 = 5 /\ 6 + 1 = 7 /\ 5 \in 1..8 /\ 7 \in 1..8
      OBVIOUS
    <3>3. Opening[4 + 1] = Marking("cortex") /\ Opening[6 + 1] = Marking("scorecard")
      BY <1>3, <3>2 DEF Marking
    <3> QED BY <3>1, <3>2, <3>3 DEF Added
  <2>4. \A i, j \in 1..8, k \in Added : Opening[i] = Marking(k) /\ Opening[j] = k => j < i
    <3>1. \A i \in 1..8 : /\ (Opening[i] = "cortex" => i = 4) /\ (Opening[i] = "scorecard" => i = 6)
                         /\ (Opening[i] = "mark cortex" => i = 5) /\ (Opening[i] = "mark scorecard" => i = 7)
      BY <1>3, <1>5
    <3>2. \A k \in Added : (k = "cortex" /\ Marking(k) = "mark cortex")
                           \/ (k = "scorecard" /\ Marking(k) = "mark scorecard")
      BY DEF Added, Marking
    <3>3. 4 < 5 /\ 6 < 7
      OBVIOUS
    <3> QED BY <3>1, <3>2, <3>3, Zenon
  <2> QED BY <1>1, <1>3, <2>1, <2>2, <2>3, <2>4 DEF Ordered
<1>7. Ordered(Provisioning)
  <2>1. \A i, j \in 1..8 : Provisioning[i] = Provisioning[j] => i = j
    BY <1>4, <1>5
  <2>2. \A i \in 1..8 : Provisioning[i] = "core" => i = 1
    BY <1>4, <1>5
  <2>3. \A i \in 1..8, k \in Added : Provisioning[i] = k => i + 1 \in 1..8 /\ Provisioning[i + 1] = Marking(k)
    <3>1. \A i \in 1..8 : (Provisioning[i] = "cortex" => i = 4) /\ (Provisioning[i] = "scorecard" => i = 6)
      BY <1>4, <1>5
    <3>2. 4 + 1 = 5 /\ 6 + 1 = 7 /\ 5 \in 1..8 /\ 7 \in 1..8
      OBVIOUS
    <3>3. Provisioning[4 + 1] = Marking("cortex") /\ Provisioning[6 + 1] = Marking("scorecard")
      BY <1>4, <3>2 DEF Marking
    <3> QED BY <3>1, <3>2, <3>3 DEF Added
  <2>4. \A i, j \in 1..8, k \in Added : Provisioning[i] = Marking(k) /\ Provisioning[j] = k => j < i
    <3>1. \A i \in 1..8 : /\ (Provisioning[i] = "cortex" => i = 4) /\ (Provisioning[i] = "scorecard" => i = 6)
                         /\ (Provisioning[i] = "mark cortex" => i = 5) /\ (Provisioning[i] = "mark scorecard" => i = 7)
      BY <1>4, <1>5
    <3>2. \A k \in Added : (k = "cortex" /\ Marking(k) = "mark cortex")
                           \/ (k = "scorecard" /\ Marking(k) = "mark scorecard")
      BY DEF Added, Marking
    <3>3. 4 < 5 /\ 6 < 7
      OBVIOUS
    <3> QED BY <3>1, <3>2, <3>3, Zenon
  <2> QED BY <1>2, <1>4, <2>1, <2>2, <2>3, <2>4 DEF Ordered
<1>8. Things \subseteq Of(Opening)
  <2>1. 1 \in 1..8 /\ 2 \in 1..8 /\ 3 \in 1..8 /\ 4 \in 1..8 /\ 5 \in 1..8 /\ 6 \in 1..8 /\ 7 \in 1..8 /\ 8 \in 1..8
    OBVIOUS
  <2>2. \A x \in Things : \E i \in 1..8 : Opening[i] = x
    BY <1>3, <2>1, Zenon DEF Things
  <2> QED BY <1>1, <2>2 DEF Of
<1>9. Things \subseteq Of(Provisioning)
  <2>1. 1 \in 1..8 /\ 2 \in 1..8 /\ 3 \in 1..8 /\ 4 \in 1..8 /\ 5 \in 1..8 /\ 6 \in 1..8 /\ 7 \in 1..8 /\ 8 \in 1..8
    OBVIOUS
  <2>2. \A x \in Things : \E i \in 1..8 : Provisioning[i] = x
    BY <1>4, <2>1, Zenon DEF Things
  <2> QED BY <1>2, <2>2 DEF Of
<1> QED BY <1>1, <1>2, <1>6, <1>7, <1>8, <1>9

-----------------------------------------------------------------------------
\* The databases

LEMMA KindsOfWork ==
    /\ Added \subseteq Kind /\ Kind \subseteq Things
    /\ \A k \in Added : Marking(k) \notin Kind /\ Marking(k) # "layout" /\ Marking(k) # "rest" /\ k # "core" /\ k # "paycom"
    /\ \A j, k \in Added : Marking(j) = Marking(k) => j = k
    /\ "core" \in Kind \ Added /\ "paycom" \in Kind \ Added /\ "layout" \notin Kind /\ "rest" \notin Kind
    /\ \A k \in Kind \ Added : k = "core" \/ k = "paycom"
  BY DEF Added, Kind, Things, Marking

LEMMA ListsAreNumbers == ASSUME NEW r \in Release, NEW k \in Kind PROVE Lists[r][k] \in Nat
<1>1. Lists[r] \in [Kind -> Nat]
  BY StorageAssumption DEF Release
<1> QED BY <1>1

LEMMA MigratedRow ==
    ASSUME NEW d \in Row, NEW k \in Kind, onDisk \in Release
    PROVE  /\ Migrated(d, k) \in Row /\ Migrated(d, k).made = d.made /\ Migrated(d, k).data = d.data
           /\ Migrated(d, k).list >= Lists[onDisk][k]
<1> DEFINE want == Lists[onDisk][k]
           list == IF d.list < want THEN want ELSE d.list
<1>1. want \in Nat /\ d.list \in Nat
  BY ListsAreNumbers DEF Row
<1>2. list \in Nat /\ list >= want
  BY <1>1
<1>3. Migrated(d, k) = [d EXCEPT !.list = list]
  BY DEF Migrated
<1> HIDE DEF list
<1> QED BY <1>2, <1>3 DEF Row

LEMMA CreatedRow ==
    ASSUME db \in Databases, NEW k \in Kind, onDisk \in Release
    PROVE  /\ Created(k) \in Row /\ Created(k).made
           /\ Created(k).data = (db[k].made /\ db[k].data)
           /\ Created(k).list >= Lists[onDisk][k]
<1> DEFINE old == IF db[k].made THEN db[k] ELSE Absent
           migrated == Migrated(old, k)
<1>1. Absent \in Row /\ Absent.data = FALSE /\ db[k] \in Row
  BY DEF Absent, Row, Databases
<1>2. old \in Row /\ old.data = (db[k].made /\ db[k].data)
  BY <1>1 DEF Row
<1> HIDE DEF old
<1>3. migrated \in Row /\ migrated.data = old.data /\ migrated.list >= Lists[onDisk][k]
  BY <1>2, MigratedRow
<1>4. Created(k) = [migrated EXCEPT !.made = TRUE]
  BY DEF Created, old
<1> HIDE DEF migrated
<1> QED BY <1>2, <1>3, <1>4 DEF Row

\* A database is opened: what it held it holds, and it may only be made where it holds nothing.
LEMMA OpenedKeepsDisk ==
    ASSUME StorageType, DiskHolds, NEW k \in Kind, NEW row \in Row,
           db' = [db EXCEPT ![k] = row], row.made, row.data = (db[k].made /\ db[k].data),
           db[k].made \/ k \notin had, k = "core" => db[k].made \/ had = {},
           UNCHANGED <<marks, dspStatus, copy, had, lost>>
    PROVE  DiskHolds' /\ db' \in Databases /\ (\A j \in Kind : db[j].made => db'[j].made)
<1>1. db' \in Databases
  BY DEF StorageType, Databases
<1>2. \A j \in Kind : (j # k => db'[j] = db[j]) /\ db'[k] = row
  BY DEF StorageType, Databases
<1>3. had \subseteq Kind /\ Added \subseteq Kind /\ "core" \in Kind /\ "paycom" \in Kind
  BY KindsOfWork DEF StorageType
<1>4. \A j \in Kind : (db[j].made => db'[j].made) /\ (db[j].made /\ db[j].data => db'[j].data)
  BY <1>2
<1>5. \A j \in had : db'[j].made /\ db[j].made => db'[j].data
  BY <1>2, <1>3 DEF DiskHolds
<1>6. \A j \in had : db'[j].made => db'[j].data
  BY <1>2, <1>3 DEF DiskHolds
<1>7. \A j \in had : j \in Added /\ db'["core"].made => j \in marks
  BY <1>2, <1>3 DEF DiskHolds
<1>8. Sound(db, marks, had) => Sound(db', marks, had)
  BY <1>3, <1>4 DEF Sound
<1> QED BY <1>1, <1>3, <1>4, <1>6, <1>7, <1>8 DEF DiskHolds

\* ... and is then behind the work.
LEMMA OpenedIsDone ==
    ASSUME StorageType, WorkIsDone, todo # <<>>, NEW k \in Kind, NEW row \in Row,
           db' = [db EXCEPT ![k] = row], row.made, row.data = (db[k].made /\ db[k].data),
           row.list >= Lists[onDisk][k], DiskHolds, db[k].made \/ k \notin had,
           UNCHANGED <<marks, onDisk, had>>,
           \/ Left' = Left \ {k} /\ (k \in Added => Knows(k))
           \/ k \in Added /\ Left' = Left \ {k, Marking(k)} /\ k \in marks
    PROVE  WorkIsDone'
<1>1. \A j \in Kind : (j # k => db'[j] = db[j]) /\ db'[k] = row
  BY DEF StorageType, Databases
<1>2. k \in had => row.data
  BY DEF DiskHolds
<1>3. \A j \in Kind : (Knows(j))' = Knows(j)
  BY DEF Knows
<1>4. Open(k)'
  BY <1>1, <1>2 DEF Open
<1>5. \A j \in Kind : j # k => Open(j)' = Open(j)
  BY <1>1 DEF Open
<1>6. \A j \in Kind : j # k => (j \in Left' <=> j \in Left)
  BY KindsOfWork
<1>7. "layout" \in Left' <=> "layout" \in Left
  BY KindsOfWork
<1>8. \A j \in Added : j # k => (Marking(j) \in Left' <=> Marking(j) \in Left)
  BY KindsOfWork
<1>9. \A j \in Kind : j \notin Left' /\ Knows(j) => Open(j)'
  BY <1>4, <1>5, <1>6 DEF WorkIsDone
<1>10. \A j \in Kind \ Added : j \notin Left' => db'[j].made
  BY <1>1, <1>6 DEF WorkIsDone
<1>11. \A j \in Added : Marking(j) \notin Left' /\ Knows(j) => j \in marks
  BY <1>8, KindsOfWork DEF WorkIsDone
<1>12. \A j \in Added : Marking(j) \in Left' /\ j \notin Left' => Knows(j)
  BY <1>6, <1>8, KindsOfWork DEF WorkIsDone
<1>13. "layout" \notin Left' => "layout" \in marks
  BY <1>7 DEF WorkIsDone
<1>14. \A j \in Kind : j \notin Left' /\ Knows(j)' => Open(j)'
  BY <1>3, <1>9
<1>15. \A j \in Added : /\ (Marking(j) \notin Left' /\ Knows(j)' => j \in marks')
                        /\ (Marking(j) \in Left' /\ j \notin Left' => Knows(j)')
  BY <1>3, <1>11, <1>12, KindsOfWork
<1> QED BY <1>10, <1>13, <1>14, <1>15, Zenon DEF WorkIsDone

LEMMA StorageInvInit == StorageInit => StorageInv
<1> SUFFICES ASSUME StorageInit PROVE StorageInv
  OBVIOUS
<1>1. Ordered(todo) /\ todo = <<>>
  BY NothingToDo DEF StorageInit
<1>2. Absent \in Row /\ Absent.made = FALSE
  BY DEF Absent, Row
<1>3. 1 \in Release
  BY StorageAssumption DEF Release
<1>4. StorageType
  BY <1>1, <1>2, <1>3 DEF StorageInit, StorageType, Databases
<1>5. DiskHolds
  BY DEF StorageInit, DiskHolds
<1>6. WorkStands /\ WorkIsDone /\ RefusesOnlyLoss
  BY <1>1 DEF StorageInit, WorkStands, WorkIsDone, Serving, RefusesOnlyLoss
<1> QED BY <1>4, <1>5, <1>6 DEF StorageInv

\* Startup refuses, or provisioning gives up: nothing of the disk has changed.
LEMMA StoppingKeepsInv ==
    ASSUME StorageInv, todo' = <<>>, UNCHANGED <<db, marks, onDisk, copy, had, lost>>,
           faults' \in Nat,
           \/ /\ process' \in {"down", "refused"} /\ UNCHANGED dspStatus
              /\ process' = "refused" => lost # {}
           \/ UNCHANGED process /\ dspStatus' = "failed" /\ process = "up" /\ dspStatus # "active"
    PROVE  StorageInv'
<1> USE DEF StorageInv
<1>1. StorageType'
  BY NothingToDo DEF StorageType
<1>2. DiskHolds'
  BY DEF DiskHolds
<1>3. WorkStands' /\ RefusesOnlyLoss'
  BY DEF WorkStands, RefusesOnlyLoss
<1>4. WorkIsDone'
  BY DEF WorkIsDone, Serving
<1> QED BY <1>1, <1>2, <1>3, <1>4

LEMMA BrokenKeepsInv ==
    ASSUME StorageInv, Broken, todo # <<>>, UNCHANGED <<db, marks, onDisk, copy, had, lost, faults>>,
           Starting => lost # {}
    PROVE  StorageInv'
<1>1. process \in {"starting", "up"} /\ faults \in Nat
  BY DEF StorageInv, StorageType, WorkStands
<1>2. CASE Starting
  BY <1>1, <1>2, StoppingKeepsInv DEF Broken, Refuse, Starting
<1>3. CASE ~Starting
  <2>1. process = "up" /\ dspStatus # "active"
    BY <1>1, <1>3 DEF Starting, StorageInv, WorkStands
  <2> QED BY <1>1, <1>3, <2>1, StoppingKeepsInv DEF Broken, GaveUp
<1> QED BY <1>2, <1>3

\* The work goes on where it stood.
LEMMA GoingOn ==
    ASSUME StorageInv, todo # <<>>, todo' # <<>>,
           UNCHANGED <<process, dspStatus, lost>>
    PROVE  WorkStands' /\ RefusesOnlyLoss'
<1>1. process \in {"starting", "up"}
  BY DEF StorageInv, StorageType, WorkStands
<1> QED BY <1>1 DEF StorageInv, WorkStands, RefusesOnlyLoss

-----------------------------------------------------------------------------
\* The steps

LEMMA StartKeepsInv == ASSUME StorageInv, StartProcess PROVE StorageInv'
<1> USE DEF StorageInv
<1>1. UNCHANGED <<db, marks, dspStatus, onDisk, copy, had, lost, faults>> /\ process = "down" /\ todo = <<>>
  BY DEF StartProcess, WorkStands
<1>2. DiskHolds'
  BY <1>1 DEF DiskHolds
<1>3. CASE dspStatus = "active" /\ process' = "starting" /\ todo' = Opening
  <2>1. StorageType'
    BY <1>1, <1>3, ListsAreOrdered DEF StorageType
  <2>2. WorkStands' /\ RefusesOnlyLoss'
    BY <1>1, <1>3, ListsAreOrdered DEF WorkStands, RefusesOnlyLoss
  <2>3. Things \subseteq Left'
    BY <1>3, ListsAreOrdered DEF Left
  <2>4. WorkIsDone'
    BY <2>3, KindsOfWork DEF WorkIsDone, Things, Added, Marking
  <2> QED BY <1>2, <2>1, <2>2, <2>4
<1>4. CASE dspStatus # "active" /\ process' = "up" /\ todo' = <<>>
  <2>1. StorageType'
    BY <1>1, <1>4, NothingToDo DEF StorageType
  <2>2. WorkStands' /\ RefusesOnlyLoss' /\ WorkIsDone'
    BY <1>1, <1>4 DEF WorkStands, RefusesOnlyLoss, WorkIsDone, Serving
  <2> QED BY <1>2, <2>1, <2>2
<1> QED BY <1>3, <1>4 DEF StartProcess

LEMMA ProvisionKeepsInv == ASSUME StorageInv, Provision PROVE StorageInv'
<1> USE DEF StorageInv
<1>1. UNCHANGED <<db, marks, dspStatus, onDisk, process, copy, had, lost, faults>> /\ process = "up"
      /\ dspStatus # "active" /\ todo' = Provisioning
  BY DEF Provision
<1>2. DiskHolds'
  BY <1>1 DEF DiskHolds
<1>3. StorageType'
  BY <1>1, ListsAreOrdered DEF StorageType
<1>4. WorkStands' /\ RefusesOnlyLoss'
  BY <1>1 DEF WorkStands, RefusesOnlyLoss
<1>5. Things \subseteq Left'
  BY <1>1, ListsAreOrdered DEF Left
<1>6. WorkIsDone'
  BY <1>5, KindsOfWork DEF WorkIsDone, Things, Added, Marking
<1> QED BY <1>2, <1>3, <1>4, <1>6

\* While work is under way, what startup finds in the first place is what was there.
LEMMA WorkingOn ==
    ASSUME StorageInv, todo # <<>>
    PROVE  process \in {"starting", "up"} /\ (process = "starting" <=> dspStatus = "active")
           /\ (process = "up" => had = {}) /\ (Starting <=> process = "starting")
  BY DEF StorageInv, StorageType, WorkStands, DiskHolds, Starting

LEMMA OpenFirstKeepsInv == ASSUME StorageInv, NEW k \in Kind, OpenFirst(k) PROVE StorageInv'
<1> USE DEF StorageInv
<1>1. todo # <<>> /\ Head(todo) = k /\ k \notin Added /\ UNCHANGED <<marks, onDisk, copy, had, lost, faults>>
  BY DEF OpenFirst, At
<1>2. CASE Starting /\ ~db[k].made
  <2>1. Broken /\ UNCHANGED db
    BY <1>2 DEF OpenFirst
  <2>2. lost # {}
    BY <1>1, <1>2, WorkingOn, KindsOfWork DEF DiskHolds, Sound
  <2> QED BY <1>1, <2>1, <2>2, BrokenKeepsInv
<1>3. CASE ~(Starting /\ ~db[k].made)
  <2>1. db' = [db EXCEPT ![k] = Created(k)] /\ todo' = Tail(todo) /\ UNCHANGED <<process, dspStatus>>
    BY <1>3 DEF OpenFirst, Next1
  <2>2. /\ Created(k) \in Row /\ Created(k).made /\ Created(k).data = (db[k].made /\ db[k].data)
        /\ Created(k).list >= Lists[onDisk][k]
    BY CreatedRow DEF StorageType
  <2>3. db[k].made \/ had = {}
    BY <1>1, <1>3, WorkingOn
  <2>4. Ordered(todo') /\ Left' = Left \ {k} /\ todo' # <<>>
    BY <1>1, <2>1, TailLeaves, FirstOfWork, KindsOfWork DEF StorageType, Left
  <2>5. DiskHolds' /\ db' \in Databases
    BY <1>1, <2>1, <2>2, <2>3, OpenedKeepsDisk
  <2>6. StorageType'
    BY <1>1, <2>1, <2>4, <2>5 DEF StorageType
  <2>7. WorkIsDone'
    BY <1>1, <2>1, <2>2, <2>3, <2>4, OpenedIsDone
  <2>8. WorkStands' /\ RefusesOnlyLoss'
    BY <1>1, <2>1, <2>4, KindsOfWork, GoingOn
  <2> QED BY <2>5, <2>6, <2>7, <2>8
<1> QED BY <1>2, <1>3

LEMMA LayoutKeepsInv == ASSUME StorageInv, Layout PROVE StorageInv'
<1> USE DEF StorageInv
<1>1. todo # <<>> /\ Head(todo) = "layout" /\ UNCHANGED <<db, dspStatus, onDisk, copy, had, lost, faults>>
  BY DEF Layout, At
<1>2. Ordered(Tail(todo)) /\ Of(Tail(todo)) = Left \ {"layout"} /\ Tail(todo) # <<>>
  BY <1>1, TailLeaves, FirstOfWork DEF StorageType, Left
<1>3. CASE Starting /\ "layout" \notin marks
  <2>1. Refuse /\ UNCHANGED marks /\ dspStatus = "active"
    BY <1>1, <1>3, WorkingOn DEF Layout
  <2>2. lost # {}
    BY <1>3, <2>1 DEF DiskHolds, Sound
  <2>3. faults' \in Nat
    BY <1>1 DEF StorageType
  <2> QED BY <1>1, <2>1, <2>2, <2>3, StoppingKeepsInv DEF Refuse
<1>4. CASE ~(Starting /\ "layout" \notin marks)
  <2>1. todo' = Tail(todo) /\ UNCHANGED process /\ marks' = marks \union {"layout"}
    BY <1>4 DEF Layout, Next1
  <2>2. StorageType'
    BY <1>1, <1>2, <2>1 DEF StorageType
  <2>3. DiskHolds'
    BY <1>1, <2>1, KindsOfWork DEF DiskHolds, Sound
  <2>4. WorkStands' /\ RefusesOnlyLoss'
    BY <1>1, <1>2, <2>1, GoingOn
  <2>5. Left' = Left \ {"layout"}
    BY <1>2, <2>1 DEF Left
  <2>6. \A j \in Kind : Open(j)' = Open(j) /\ Knows(j)' = Knows(j)
    BY <1>1, <2>1 DEF Open, Knows
  <2>7. WorkIsDone'
    BY <1>1, <2>1, <2>5, <2>6, KindsOfWork DEF WorkIsDone
  <2> QED BY <2>2, <2>3, <2>4, <2>7
<1> QED BY <1>3, <1>4

LEMMA OpenAddedKeepsInv == ASSUME StorageInv, NEW k \in Kind, OpenAdded(k) PROVE StorageInv'
<1> USE DEF StorageInv
<1>1. todo # <<>> /\ Head(todo) = k /\ k \in Added /\ UNCHANGED <<marks, onDisk, copy, had, lost, faults>>
  BY DEF OpenAdded, At
<1>2. /\ Ordered(Tail(todo)) /\ Of(Tail(todo)) = Left \ {k} /\ Tail(todo) # <<>>
      /\ Head(Tail(todo)) = Marking(k) /\ "core" \notin Left
  BY <1>1, TailLeaves, FirstOfWork, KindsOfWork DEF StorageType, Left
<1>3. Ordered(Tail(Tail(todo))) /\ Of(Tail(Tail(todo))) = Left \ {k, Marking(k)} /\ Tail(Tail(todo)) # <<>>
  <2>1. Ordered(Tail(Tail(todo))) /\ Of(Tail(Tail(todo))) = Of(Tail(todo)) \ {Marking(k)}
    BY <1>2, TailLeaves
  <2>2. Marking(k) # "rest"
    BY <1>1, KindsOfWork
  <2>3. Tail(Tail(todo)) # <<>>
    BY <1>2, <2>2, FirstOfWork
  <2> QED BY <1>2, <2>1, <2>3
<1>4. /\ Created(k) \in Row /\ Created(k).made /\ Created(k).data = (db[k].made /\ db[k].data)
      /\ Created(k).list >= Lists[onDisk][k]
  BY CreatedRow DEF StorageType
<1>5. k # "core" /\ k # "rest" /\ k # "layout"
  BY <1>1, KindsOfWork
<1>6. CASE ~Knows(k) /\ todo' = Tail(Tail(todo)) /\ UNCHANGED <<db, process, dspStatus>>
  <2>1. StorageType' /\ DiskHolds'
    BY <1>1, <1>3, <1>6 DEF StorageType, DiskHolds
  <2>2. WorkStands' /\ RefusesOnlyLoss'
    BY <1>1, <1>3, <1>5, <1>6, GoingOn
  <2>3. Left' = Left \ {k, Marking(k)}
    BY <1>3, <1>6 DEF Left
  <2>4. \A j \in Kind : Open(j)' = Open(j) /\ Knows(j)' = Knows(j)
    BY <1>1, <1>6 DEF Open, Knows
  <2>5. WorkIsDone'
    BY <1>1, <1>6, <2>3, <2>4, KindsOfWork DEF WorkIsDone
  <2> QED BY <2>1, <2>2, <2>5
<1>7. CASE /\ Knows(k) /\ k \in marks /\ db[k].made /\ db' = [db EXCEPT ![k] = Migrated(@, k)]
           /\ todo' = Tail(Tail(todo)) /\ UNCHANGED <<process, dspStatus>>
  <2>1. db[k] \in Row
    BY DEF StorageType, Databases
  <2>2. /\ Migrated(db[k], k) \in Row /\ Migrated(db[k], k).made
        /\ Migrated(db[k], k).data = (db[k].made /\ db[k].data)
        /\ Migrated(db[k], k).list >= Lists[onDisk][k]
    <3>1. db[k].data \in BOOLEAN
      BY <2>1 DEF Row
    <3> QED BY <1>7, <2>1, <3>1, MigratedRow DEF StorageType
  <2>3. db' = [db EXCEPT ![k] = Migrated(db[k], k)]
    BY <1>7
  <2>4. DiskHolds' /\ db' \in Databases
    BY <1>1, <1>5, <1>7, <2>2, <2>3, OpenedKeepsDisk
  <2>5. StorageType'
    BY <1>1, <1>3, <1>7, <2>4 DEF StorageType
  <2>6. Left' = Left \ {k, Marking(k)}
    BY <1>3, <1>7 DEF Left
  <2>7. WorkIsDone'
    BY <1>1, <1>7, <2>2, <2>3, <2>6, OpenedIsDone
  <2>8. WorkStands' /\ RefusesOnlyLoss'
    BY <1>1, <1>3, <1>5, <1>7, GoingOn
  <2> QED BY <2>4, <2>5, <2>7, <2>8
<1>8. CASE Knows(k) /\ k \in marks /\ ~db[k].made /\ Broken /\ UNCHANGED db
  <2>1. lost # {}
    BY <1>1, <1>8 DEF DiskHolds
  <2> QED BY <1>1, <1>8, <2>1, BrokenKeepsInv
<1>9. CASE /\ Knows(k) /\ k \notin marks /\ db' = [db EXCEPT ![k] = Created(k)]
           /\ todo' = Tail(todo) /\ UNCHANGED <<process, dspStatus>>
  <2>1. k \notin had
    <3>1. db["core"].made
      BY <1>1, <1>2, KindsOfWork DEF WorkIsDone
    <3> QED BY <1>1, <1>9, <3>1 DEF DiskHolds
  <2>2. DiskHolds' /\ db' \in Databases
    BY <1>1, <1>4, <1>5, <1>9, <2>1, OpenedKeepsDisk
  <2>3. StorageType'
    BY <1>1, <1>2, <1>9, <2>2 DEF StorageType
  <2>4. Left' = Left \ {k}
    BY <1>2, <1>9 DEF Left
  <2>5. WorkIsDone'
    BY <1>1, <1>4, <1>9, <2>1, <2>4, OpenedIsDone
  <2>6. WorkStands' /\ RefusesOnlyLoss'
    BY <1>1, <1>2, <1>5, <1>9, GoingOn
  <2> QED BY <2>2, <2>3, <2>5, <2>6
<1> QED BY <1>6, <1>7, <1>8, <1>9 DEF OpenAdded, Next1

LEMMA MarkKeepsInv == ASSUME StorageInv, Mark PROVE StorageInv'
<1> USE DEF StorageInv
<1>1. PICK k \in Added : todo # <<>> /\ Head(todo) = Marking(k) /\ marks' = marks \union {k}
  BY DEF Mark, MarkOf, Added, Marking
<1>2. UNCHANGED <<db, dspStatus, onDisk, process, copy, had, lost, faults>> /\ todo' = Tail(todo)
  BY DEF Mark, Next1
<1>3. /\ Ordered(todo') /\ Left' = Left \ {Marking(k)} /\ todo' # <<>> /\ k \notin Left
      /\ Marking(k) \in Left
  BY <1>1, <1>2, TailLeaves, FirstOfWork, KindsOfWork DEF StorageType, Left
<1>4. Knows(k) /\ db[k].made
  BY <1>1, <1>3, KindsOfWork DEF WorkIsDone, Open
<1>5. StorageType'
  BY <1>1, <1>2, <1>3 DEF StorageType
<1>6. DiskHolds'
  BY <1>1, <1>2, <1>4 DEF DiskHolds, Sound
<1>7. WorkStands' /\ RefusesOnlyLoss'
  BY <1>1, <1>2, <1>3, KindsOfWork, GoingOn
<1>8. \A j \in Kind : Open(j)' = Open(j) /\ Knows(j)' = Knows(j)
  BY <1>2 DEF Open, Knows
<1>9. WorkIsDone'
  BY <1>1, <1>2, <1>3, <1>4, <1>8, KindsOfWork DEF WorkIsDone
<1> QED BY <1>5, <1>6, <1>7, <1>9

LEMMA RestKeepsInv == ASSUME StorageInv, Rest PROVE StorageInv'
<1> USE DEF StorageInv
<1>1. /\ todo # <<>> /\ Head(todo) = "rest" /\ todo' = Tail(todo) /\ process' = "up" /\ dspStatus' = "active"
      /\ UNCHANGED <<db, marks, onDisk, copy, had, lost, faults>>
  BY DEF Rest, At, Next1
<1>2. todo' = <<>> /\ Left = {"rest"} /\ Left' = {}
  BY <1>1, FirstOfWork, NothingToDo DEF StorageType, Left
<1>3. StorageType'
  BY <1>1, <1>2, NothingToDo DEF StorageType
<1>4. lost = {} => Sound(db, marks, had)
  <2>1. db["core"].made /\ db["paycom"].made /\ "layout" \in marks
    BY <1>1, <1>2, KindsOfWork DEF WorkIsDone
  <2>2. lost = {} => \A k \in Added : k \in marks => db[k].made
    BY DEF DiskHolds
  <2>3. had # {} /\ lost = {} => Sound(db, marks, had)
    BY DEF DiskHolds
  <2> QED BY <2>1, <2>2, <2>3 DEF Sound
<1>5. DiskHolds'
  BY <1>1, <1>4 DEF DiskHolds
<1>6. WorkStands' /\ RefusesOnlyLoss'
  BY <1>1, <1>2 DEF WorkStands, RefusesOnlyLoss
<1>7. \A j \in Kind : Open(j)' = Open(j) /\ Knows(j)' = Knows(j)
  BY <1>1 DEF Open, Knows
<1>8. WorkIsDone'
  BY <1>1, <1>2, <1>7, KindsOfWork DEF WorkIsDone
<1> QED BY <1>3, <1>5, <1>6, <1>8

LEMMA UseKeepsInv == ASSUME StorageInv, NEW k \in Kind, Use(k) PROVE StorageInv'
<1> USE DEF StorageInv
<1>1. /\ Serving /\ Knows(k) /\ db' = [db EXCEPT ![k].data = TRUE] /\ had' = had \union {k}
      /\ UNCHANGED <<marks, dspStatus, onDisk, process, todo, copy, lost, faults>>
  BY DEF Use
<1>2. todo = <<>> /\ Left = {} /\ dspStatus = "active"
  BY <1>1, NothingToDo DEF WorkStands, Serving, Left
<1>3. Open(k) /\ (k \in Added => k \in marks)
  BY <1>1, <1>2 DEF WorkIsDone
<1>4. db' \in Databases
  <2>1. [db[k] EXCEPT !.data = TRUE] \in Row
    BY DEF StorageType, Databases, Row
  <2> QED BY <1>1, <2>1 DEF StorageType, Databases
<1>5. \A j \in Kind : /\ db'[j].made = db[j].made /\ db'[j].list = db[j].list
                      /\ (j # k => db'[j].data = db[j].data) /\ db'[k].data = TRUE
  BY <1>1 DEF StorageType, Databases, Row
<1>6. had' \subseteq Kind /\ Added \subseteq Kind /\ "core" \in Kind /\ "paycom" \in Kind
  BY <1>1, KindsOfWork DEF StorageType
<1>7. StorageType'
  BY <1>1, <1>4, <1>6 DEF StorageType
<1>8. DiskHolds'
  <2>1. Sound(db, marks, had) => Sound(db', marks', had')
    <3>1. db'[k].made
      BY <1>3, <1>5 DEF Open
    <3>2. \A j \in had' : j \in had \/ j = k
      BY <1>1
    <3> QED BY <1>1, <1>3, <1>5, <1>6, <3>1, <3>2 DEF Sound
  <2>2. \A j \in had' : /\ db'[j].made => db'[j].data
                        /\ j \in Added /\ db'["core"].made => j \in marks'
    BY <1>1, <1>3, <1>5, <1>6 DEF DiskHolds
  <2>3. lost' = {} => \A j \in Added : j \in marks' => db'[j].made
    BY <1>1, <1>5, <1>6 DEF DiskHolds
  <2>4. dspStatus' = "active" /\ (copy' # NoCopy => Sound(copy'.db, copy'.marks, copy'.had))
    BY <1>1, <1>2 DEF DiskHolds, Sound
  <2> HIDE DEF Sound
  <2> QED BY <1>1, <1>2, <2>1, <2>2, <2>3, <2>4 DEF DiskHolds
<1>9. WorkStands' /\ RefusesOnlyLoss'
  BY <1>1 DEF WorkStands, RefusesOnlyLoss
<1>10. \A j \in Kind : (Open(j) => Open(j)') /\ Knows(j)' = Knows(j)
  BY <1>1, <1>5 DEF Open, Knows
<1>11. WorkIsDone'
  BY <1>1, <1>2, <1>5, <1>10, KindsOfWork DEF WorkIsDone, Left, Serving
<1> QED BY <1>7, <1>8, <1>9, <1>11

LEMMA LoseKeepsInv == ASSUME StorageInv, NEW k \in Kind, Lose(k) PROVE StorageInv'
<1> USE DEF StorageInv
<1>1. /\ process = "down" /\ db' = [db EXCEPT ![k] = Absent] /\ lost' = lost \union {k} /\ faults' = faults + 1
      /\ marks' = (IF k = "core" THEN {} ELSE marks)
      /\ UNCHANGED <<dspStatus, onDisk, process, todo, copy, had>>
  BY DEF Lose
<1>2. Absent \in Row /\ Absent.made = FALSE
  BY DEF Absent, Row
<1>3. db' \in Databases /\ \A j \in Kind : (j # k => db'[j] = db[j]) /\ ~db'[k].made
  BY <1>1, <1>2 DEF StorageType, Databases
<1>4. StorageType'
  <2>1. faults' \in Nat /\ marks' \subseteq {"layout"} \union Added /\ lost' \subseteq Kind
    <3>1. faults \in Nat /\ marks \subseteq {"layout"} \union Added /\ lost \subseteq Kind
      BY DEF StorageType
    <3> HIDE DEF StorageInv
    <3>2. marks' = {} \/ marks' = marks
      BY <1>1
    <3>3. faults' = faults + 1 /\ lost' = lost \union {k}
      BY <1>1
    <3>4. faults' \in Nat
      BY <3>1, <3>3
    <3>5. lost' \subseteq Kind
      BY <3>1, <3>3
    <3> QED BY <3>1, <3>2, <3>4, <3>5
  <2> QED BY <1>1, <1>3, <2>1 DEF StorageType
<1>5. \A j \in had : /\ db'[j].made => db'[j].data
                     /\ j \in Added /\ db'["core"].made => j \in marks'
  BY <1>1, <1>3, KindsOfWork DEF DiskHolds, StorageType
<1>6. DiskHolds'
  BY <1>1, <1>5 DEF DiskHolds
<1>7. WorkStands' /\ RefusesOnlyLoss' /\ WorkIsDone'
  BY <1>1 DEF WorkStands, RefusesOnlyLoss, WorkIsDone, Serving
<1> QED BY <1>4, <1>6, <1>7

LEMMA RestoreKeepsInv == ASSUME StorageInv, Restore PROVE StorageInv'
<1> USE DEF StorageInv
<1>1. /\ db' = copy.db /\ marks' = copy.marks /\ had' = copy.had
      /\ lost' = {} /\ process' = "down" /\ dspStatus' = "active" /\ todo' = <<>>
      /\ UNCHANGED <<onDisk, copy, faults>>
  BY DEF Restore
<1>2. copy # NoCopy /\ copy \in Backups
  BY DEF Restore, NoCopy, StorageType
<1>3. copy.db \in Databases /\ copy.marks \subseteq {"layout"} \union Added /\ copy.had \subseteq Kind
  BY <1>2 DEF Backups
<1>4. StorageType'
  BY <1>1, <1>3, NothingToDo DEF StorageType
<1>5. Sound(copy.db, copy.marks, copy.had)
  BY <1>2 DEF DiskHolds
<1>6. DiskHolds'
  BY <1>1, <1>5 DEF DiskHolds, Sound
<1>7. WorkStands' /\ RefusesOnlyLoss' /\ WorkIsDone'
  BY <1>1 DEF WorkStands, RefusesOnlyLoss, WorkIsDone, Serving
<1> QED BY <1>4, <1>6, <1>7

LEMMA RunningKeepsInv ==
    ASSUME StorageInv, FailStep \/ Stop \/ CrashProcess \/ ChangeRelease \/ Backup
    PROVE  StorageInv'
<1> USE DEF StorageInv
<1>1. CASE FailStep
  <2>1. /\ todo # <<>> /\ todo' = <<>> /\ faults' \in Nat
        /\ UNCHANGED <<db, marks, onDisk, copy, had, lost>>
    BY <1>1 DEF FailStep, StorageType
  <2>2. CASE Starting
    BY <1>1, <2>1, <2>2, StoppingKeepsInv DEF FailStep
  <2>3. CASE ~Starting
    BY <1>1, <2>1, <2>3, WorkingOn, StoppingKeepsInv DEF FailStep
  <2> QED BY <2>2, <2>3
<1>2. CASE Stop
  BY <1>2, StoppingKeepsInv DEF Stop, StorageType
<1>3. CASE CrashProcess
  <2>1. faults' \in Nat
    BY <1>3 DEF CrashProcess, StorageType
  <2> QED BY <1>3, <2>1, StoppingKeepsInv DEF CrashProcess
<1>4. CASE ChangeRelease
  <2>1. /\ onDisk' \in Release /\ process' = "down" /\ todo = <<>>
        /\ UNCHANGED <<db, marks, dspStatus, todo, copy, had, lost, faults>>
    BY <1>4 DEF ChangeRelease, WorkStands
  <2>2. StorageType' /\ DiskHolds'
    BY <2>1 DEF StorageType, DiskHolds
  <2>3. WorkStands' /\ RefusesOnlyLoss' /\ WorkIsDone'
    BY <2>1 DEF WorkStands, RefusesOnlyLoss, WorkIsDone, Serving
  <2> QED BY <2>2, <2>3
<1>5. CASE Backup
  <2>1. /\ dspStatus = "active" /\ lost = {}
        /\ copy' = [taken |-> TRUE, db |-> db, marks |-> marks, had |-> had]
        /\ UNCHANGED <<db, marks, dspStatus, onDisk, process, todo, had, lost, faults>>
    BY <1>5 DEF Backup
  <2>2. copy' \in Backups /\ copy'.db = db /\ copy'.marks = marks /\ copy'.had = had
    BY <2>1 DEF StorageType, Backups
  <2>3. StorageType' /\ DiskHolds'
    BY <2>1, <2>2 DEF StorageType, DiskHolds
  <2>4. WorkStands' /\ RefusesOnlyLoss'
    BY <2>1 DEF WorkStands, RefusesOnlyLoss
  <2>5. \A j \in Kind : Open(j)' = Open(j) /\ Knows(j)' = Knows(j)
    BY <2>1 DEF Open, Knows
  <2>6. WorkIsDone'
    BY <2>1, <2>5, KindsOfWork DEF WorkIsDone, Serving, Left
  <2> QED BY <2>3, <2>4, <2>6
<1> QED BY <1>1, <1>2, <1>3, <1>4, <1>5

LEMMA StorageInvNext == StorageInv /\ [StorageNext]_storageVars => StorageInv'
<1> SUFFICES ASSUME StorageInv, [StorageNext]_storageVars PROVE StorageInv'
  OBVIOUS
<1>1. CASE StartProcess BY <1>1, StartKeepsInv
<1>2. CASE Provision BY <1>2, ProvisionKeepsInv
<1>3. CASE Layout BY <1>3, LayoutKeepsInv
<1>4. CASE Mark BY <1>4, MarkKeepsInv
<1>5. CASE Rest BY <1>5, RestKeepsInv
<1>6. ASSUME NEW k \in Kind, OpenFirst(k) \/ OpenAdded(k) \/ Use(k) \/ Lose(k)
      PROVE  StorageInv'
  BY <1>6, OpenFirstKeepsInv, OpenAddedKeepsInv, UseKeepsInv, LoseKeepsInv
<1>7. CASE FailStep \/ Stop \/ CrashProcess \/ ChangeRelease \/ Backup
  BY <1>7, RunningKeepsInv
<1>8. CASE Restore BY <1>8, RestoreKeepsInv
<1>9. CASE UNCHANGED storageVars
  <2>1. UNCHANGED <<db, marks, dspStatus, onDisk, process, todo, copy, had, lost, faults>>
    BY <1>9 DEF storageVars
  <2>2. \A j \in Kind : Open(j)' = Open(j) /\ Knows(j)' = Knows(j)
    BY <2>1 DEF Open, Knows
  <2>3. WorkIsDone'
    BY <2>1, <2>2, KindsOfWork DEF StorageInv, WorkIsDone, Serving, Left
  <2> QED BY <2>1, <2>3 DEF StorageInv, StorageType, DiskHolds, WorkStands, RefusesOnlyLoss
<1> QED BY <1>1, <1>2, <1>3, <1>4, <1>5, <1>6, <1>7, <1>8, <1>9 DEF StorageNext

\* The inductive invariant of the database files: what is on disk between any two steps of startup,
\* provisioning, update and restore.
THEOREM StorageInvHolds == StorageSpec => []StorageInv
  BY StorageInvInit, StorageInvNext, PTL DEF StorageSpec

\* What is served is whole: every database the release knows is there and migrated, and each
\* that ever held the DSP's data holds it, after any crashes, updates, rollbacks and restores
\* (collectors/mod.rs open and provision, operations.rs restore).
THEOREM DataIsServed == StorageSpec => []ServesItsData
<1>1. StorageInv => ServesItsData
  <2> SUFFICES ASSUME StorageInv, Serving
               PROVE  /\ \A k \in Kind : Knows(k) => db[k].made /\ db[k].list >= Lists[onDisk][k]
                      /\ \A k \in had : Knows(k) => db[k].data
    BY DEF ServesItsData
  <2>1. Left = {}
    BY NothingToDo DEF StorageInv, WorkStands, Serving, Left
  <2>2. \A k \in Kind : Knows(k) => Open(k)
    BY <2>1 DEF StorageInv, WorkIsDone
  <2>3. had \subseteq Kind
    BY DEF StorageInv, StorageType
  <2> QED BY <2>2, <2>3 DEF Open
<1> QED BY <1>1, StorageInvHolds, PTL

\* Startup refuses only storage of which a file was lost (collectors/mod.rs open, db/store.rs).
THEOREM RefusalIsLoss == StorageSpec => []RefusesOnlyLoss
<1>1. StorageInv => RefusesOnlyLoss
  BY DEF StorageInv
<1> QED BY <1>1, StorageInvHolds, PTL
=============================================================================
