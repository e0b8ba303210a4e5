---- MODULE HostSetup ----
(***************************************************************************)
(* The first initialization of a host (host/src/setup): private state is   *)
(* made in a staging directory, sealed with an inventory in a journal, and *)
(* only then moved into place, one rename per placement, configuration     *)
(* last.  A run may fail or be killed between any two steps and is then    *)
(* started again with the same options; once the configuration is in place *)
(* the application may start and change its data before setup has finished.*)
(***************************************************************************)
EXTENDS Naturals, Sequences

CONSTANTS
    Placements,     \* what is moved into place, in order; configuration is the last
    MaxSetupKills   \* bounds how often a run is killed

\* No placement is listed twice.
ASSUME SetupAssumption ==
    /\ Placements \in Seq(STRING) /\ Len(Placements) > 1 /\ MaxSetupKills \in Nat
    /\ \A i, j \in DOMAIN Placements : Placements[i] = Placements[j] => i = j

Names == {Placements[i] : i \in DOMAIN Placements}
Config == Placements[Len(Placements)]

VARIABLES
    journal,    \* .runtime/setup.json: none, or of a run that has or has not prepared
    stageDir,   \* the journal's staging directory exists
    staged,     \* what it holds whole
    private,    \* what is at each destination
    used,       \* the application has started on what was placed
    runtimeIs,  \* the active runtime: the prepared one, or one installed since
    setupAt,    \* where the run stands
    setupKills

setupDisk == <<journal, stageDir, staged, private, used, runtimeIs>>
setupVars == <<setupDisk, setupAt, setupKills>>

\* A run goes on, or it ends with an error or its work.
SetupGoes(where) == setupAt' = where /\ UNCHANGED setupKills
SetupFails == SetupGoes("idle") /\ UNCHANGED setupDisk

\* transaction::fresh
Fresh == \A name \in Names : private[name] = "absent"

\* initialize: under the lock; a journal that is there must be of these options and its
\* staging directory must exist.
Initialize ==
    /\ setupAt = "idle" /\ UNCHANGED setupDisk
    /\ \/ journal = "none" /\ Fresh /\ SetupGoes("stage")
       \/ journal = "unprepared" /\ stageDir /\ Fresh /\ SetupGoes("discard")
       \/ journal = "prepared" /\ stageDir /\ SetupGoes("publish")

\* An unfinished preparation is thrown away, the directory before the journal.
Discard ==
    /\ setupAt = "discard"
    /\ stageDir' = FALSE /\ staged' = {}
    /\ SetupGoes("forget")
    /\ UNCHANGED <<journal, private, used, runtimeIs>>
Forget ==
    /\ setupAt = "forget"
    /\ journal' = "none"
    /\ SetupGoes("stage")
    /\ UNCHANGED <<stageDir, staged, private, used, runtimeIs>>

\* prepare: what it checks of the checkout, then an empty staging directory, its journal,
\* the files, and the journal sealed with their inventory.
Stage ==
    /\ setupAt = "stage"
    /\ \/ SetupFails
       \/ /\ stageDir' = TRUE /\ staged' = {}
          /\ SetupGoes("begin")
          /\ UNCHANGED <<journal, private, used, runtimeIs>>
Begin ==
    /\ setupAt = "begin"
    /\ journal' = "unprepared"
    /\ SetupGoes("prepare")
    /\ UNCHANGED <<stageDir, staged, private, used, runtimeIs>>
Prepare ==
    /\ setupAt = "prepare"
    /\ \E made \in SUBSET Names :
          /\ staged' = made
          /\ SetupGoes(IF made = Names THEN "seal" ELSE "idle")
    /\ UNCHANGED <<journal, stageDir, private, used, runtimeIs>>
Seal ==
    /\ setupAt = "seal"
    /\ journal' = "prepared"
    /\ SetupGoes("publish")
    /\ UNCHANGED <<stageDir, staged, private, used, runtimeIs>>

\* publish: configuration in place proves the earlier renames.  Otherwise the placements go in
\* their order; what is staged, or already moved, must still be what was prepared, and a
\* destination that exists is never replaced.
Finished == Config \notin staged /\ private[Config] = "ours"
AnyPlacement(name) == name \in staged
NextPlacement(name) ==
    \E i \in DOMAIN Placements :
        /\ Placements[i] = name /\ name \in staged
        /\ \A k \in 1..(i - 1) : Placements[k] \notin staged
Publish ==
    /\ setupAt = "publish"
    /\ IF Finished
       THEN SetupGoes("check") /\ UNCHANGED setupDisk
       ELSE \E name \in Names :
              /\ NextPlacement(name)
              /\ \/ /\ private[name] = "absent"
                    /\ private' = [private EXCEPT ![name] = "ours"]
                    /\ staged' = staged \ {name}
                    /\ SetupGoes(IF name = Config THEN "check" ELSE "publish")
                    /\ UNCHANGED <<journal, stageDir, used, runtimeIs>>
                 \/ private[name] # "absent" /\ SetupFails

\* publish: the runtime is still the prepared one; the journal goes before the directory.
CheckRuntime ==
    /\ setupAt = "check"
    /\ IF runtimeIs = "prepared" THEN SetupGoes("close") /\ UNCHANGED setupDisk ELSE SetupFails
Close ==
    /\ setupAt = "close"
    /\ journal' = "none"
    /\ SetupGoes("clean")
    /\ UNCHANGED <<stageDir, staged, private, used, runtimeIs>>
CleanUp ==
    /\ setupAt = "clean"
    /\ stageDir' = FALSE /\ staged' = {}
    /\ SetupGoes("idle")
    /\ UNCHANGED <<journal, private, used, runtimeIs>>

\* The application starts once it has a configuration; the updater may then install another
\* runtime.
UseApplication ==
    /\ private[Config] = "ours"
    /\ used' = TRUE
    /\ UNCHANGED <<journal, stageDir, staged, private, runtimeIs, setupAt, setupKills>>
UpdateRuntime ==
    /\ used
    /\ runtimeIs' = "newer"
    /\ UNCHANGED <<journal, stageDir, staged, private, used, setupAt, setupKills>>
\* Somebody else makes private state of their own.
Intrude ==
    /\ \E name \in Names :
          private[name] = "absent" /\ private' = [private EXCEPT ![name] = "foreign"]
    /\ UNCHANGED <<journal, stageDir, staged, used, runtimeIs, setupAt, setupKills>>

\* The run is killed.  A staging directory made without its journal is forgotten.
KillSetup ==
    /\ setupAt # "idle" /\ setupKills < MaxSetupKills
    /\ setupAt' = "idle" /\ setupKills' = setupKills + 1
    /\ stageDir' = (stageDir /\ journal # "none")
    /\ staged' = IF stageDir' THEN staged ELSE {}
    /\ UNCHANGED <<journal, private, used, runtimeIs>>

SetupInit ==
    /\ journal = "none" /\ stageDir = FALSE /\ staged = {}
    /\ private = [name \in Names |-> "absent"]
    /\ used = FALSE /\ runtimeIs = "prepared"
    /\ setupAt = "idle" /\ setupKills = 0

SetupRun == Initialize \/ Discard \/ Forget \/ Stage \/ Begin \/ Prepare \/ Seal \/ Publish
            \/ CheckRuntime \/ Close \/ CleanUp
SetupNext == SetupRun \/ UseApplication \/ UpdateRuntime \/ Intrude \/ KillSetup
SetupSpec == SetupInit /\ [][SetupNext]_setupVars

----------------------------------------------------------------------------
\* Properties

\* The application never starts on half an environment: once it runs, everything is in place
\* and is what one run prepared, whatever was killed in between.
StartsComplete == used => \A name \in Names : private[name] = "ours"
=============================================================================
