---- MODULE Releasing ----
(***************************************************************************)
(* Releasing a version (host/src/release).  A commit of main is pinned to  *)
(* the version in a journal, its full checks are required or started, the  *)
(* build CI made of it is stamped and prepared in a directory once Dev has *)
(* served it, smoked, drafted on GitHub, published, and complete when      *)
(* Production reports it.  The command may fail or be killed anywhere and  *)
(* is run again; between its steps main, the checks, Dev, Production and   *)
(* the draft change under it.                                              *)
(*                                                                         *)
(* Versions and commits are numbered in their order; 0 stands for none.    *)
(***************************************************************************)
EXTENDS Naturals, FiniteSetsExt

CONSTANTS
    LastVersion, LastCommit,
    Assets,      \* the files of a release
    MaxMeddling  \* bounds what others do to drafts and tags

ASSUME ReleasingAssumption ==
    LastVersion \in Nat \ {0} /\ LastCommit \in Nat \ {0} /\ MaxMeddling \in Nat /\ Assets # {}

Versions == 1..LastVersion
Commits == 1..LastCommit
None == 0

VARIABLES
    pinned,     \* the journal's commit
    complete,   \* the journal says that the release is complete
    prepared,   \* the commit of the prepared bytes
    smoked,     \* the receipt of the smoke check
    release,    \* GitHub: no release, a draft or a published one
    aims,       \* GitHub: the commit the draft targets
    tag,        \* GitHub: the commit of the version's tag
    assets,     \* GitHub: of each asset, whether it is the prepared one
    branch,     \* GitHub: the temporary branch of the version's checks
    checks,     \* GitHub: the newest full run of each commit
    passedOnce, \* the commits whose full checks have passed at some time
    main,       \* GitHub: the head of main
    dev,        \* the commit Dev serves
    servedOnce, \* the commits Dev has served
    live,       \* the version Production reports
    now,        \* the version the command is about
    goal,       \* run, prepare or publish
    final,      \* the draft is ensured for its publication
    relAt,      \* where the command stands
    meddled

local == <<pinned, complete, prepared, smoked>>
remote == <<release, aims, tag, assets, branch, checks, passedOnce>>
world == <<main, dev, servedOnce, live>>
command == <<now, goal, final, relAt>>
relVars == <<local, remote, world, command, meddled>>

Published == {v \in Versions : release[v] = "published"}
Latest == Max(Published \union {None})

\* unfinished: a draft, or work of this checkout that is not complete.
Unfinished == {v \in Versions : \/ release[v] = "draft"
                                \/ (pinned[v] # None \/ prepared[v] # None) /\ ~complete[v]}
\* run: the version that was named; without one the only unfinished one, or the next.
Chosen(named, stage) ==
    IF named THEN Versions
    ELSE IF Cardinality(Unfinished) = 1 THEN Unfinished
    ELSE {v \in Versions : Unfinished = {} /\ stage # "publish" /\ v = Latest + 1}

\* fully_validated: the newest full run of the commit has passed.
FullyValidated(c) == checks[c] = "passed"
TagOfLatest(versions) == IF versions = {} THEN None ELSE tag[Max(versions)]

\* Where the command goes on, and that it may end anywhere: an error, a refusal, a kill.
Goes(where) == relAt' = where /\ UNCHANGED <<now, goal, final>>
RelEnds == relAt' = "idle" /\ now' = None /\ goal' = "run" /\ final' = FALSE
StopRelease == relAt # "idle" /\ RelEnds /\ UNCHANGED <<local, remote, world, meddled>>

\* run and Options::parse: a listed version, or one newer than the latest.  execute takes the
\* lock and looks whether the release is published by now.
Start ==
    /\ relAt = "idle"
    /\ \E named \in BOOLEAN, stage \in {"run", "prepare", "publish"} : \E v \in Chosen(named, stage) :
          /\ release[v] # "none" \/ v > Latest
          /\ release[v] = "published" => stage # "prepare"
          /\ now' = v /\ goal' = stage /\ final' = FALSE
          /\ relAt' = IF release[v] = "published" \/ stage = "publish" THEN "consume" ELSE "pin"
    /\ UNCHANGED <<local, remote, world, meddled>>

\* pin: the journal's commit, or one of main that is asked for; it replaces the pin only while
\* nothing is prepared, and must be newer than the newest other release.
Pin ==
    /\ relAt = "pin"
    /\ \E c \in 1..main :
          /\ c # pinned[now] =>
                /\ pinned[now] # None => prepared[now] = None
                /\ TagOfLatest(Published \ {now}) < c
          /\ pinned' = [pinned EXCEPT ![now] = c]
    /\ Goes(IF prepared[now] = None THEN "suite" ELSE "prepared")
    /\ UNCHANGED <<complete, prepared, smoked, remote, world, meddled>>

\* full_suite: a full run that passed removes the temporary branch; without any run one is
\* started on that branch, and one that is under way is awaited.
Suite ==
    /\ relAt = "suite"
    /\ \/ /\ FullyValidated(pinned[now])
          /\ branch' = [branch EXCEPT ![now] = None]
          /\ UNCHANGED checks
          /\ Goes("build")
       \/ /\ checks[pinned[now]] = "none"
          /\ branch' = [branch EXCEPT ![now] = pinned[now]]
          /\ checks' = [checks EXCEPT ![pinned[now]] = "running"]
          /\ Goes("suite")
    /\ UNCHANGED <<local, release, aims, tag, assets, passedOnce, world, meddled>>

\* prepare: the checks are read again, the build they published is downloaded and attested, and
\* Dev must serve just that.
Built(c) == FullyValidated(c) /\ dev = c

\* prepare: the build is stamped and packed; the directory appears whole or not at all.
PrepareAssets ==
    /\ relAt = "build"
    /\ Built(pinned[now])
    /\ prepared[now] = None
    /\ prepared' = [prepared EXCEPT ![now] = pinned[now]]
    /\ Goes("prepared")
    /\ UNCHANGED <<pinned, complete, smoked, remote, world, meddled>>

\* smoke, after prepare has seen that what is there is of the pinned commit.
Smoke ==
    /\ relAt = "prepared" /\ prepared[now] = pinned[now]
    /\ smoked' = [smoked EXCEPT ![now] = TRUE]
    /\ Goes("draft")
    /\ UNCHANGED <<pinned, complete, prepared, remote, world, meddled>>

\* checked_source: what is released is on main and its newest full run has passed.
CheckedSource(c) == c <= main /\ FullyValidated(c)

\* ensure_draft: the checks still pass; a version nobody drafted is drafted.
Draft ==
    /\ relAt = "draft"
    /\ CheckedSource(prepared[now])
    /\ release' = [release EXCEPT ![now] = IF @ = "none" THEN "draft" ELSE @]
    /\ aims' = IF release[now] = "none" THEN [aims EXCEPT ![now] = prepared[now]] ELSE aims
    /\ Goes("upload")
    /\ UNCHANGED <<local, tag, assets, branch, checks, passedOnce, world, meddled>>

\* (Weakened: a draft is trusted to be what it was.)
IdentityOfDraft == release[now] # "none"

\* verify_identity
Identity ==
    IF release[now] = "published"
    THEN tag[now] = prepared[now]
    ELSE release[now] = "draft" /\ aims[now] = prepared[now] /\ tag[now] \in {None, prepared[now]}

\* verify_assets
Uploaded == \A asset \in Assets : assets[now][asset] = "ours"

\* ensure_draft: what is missing is uploaded, one asset at a time; one that differs stops it.
Upload ==
    /\ relAt = "upload" /\ release[now] = "draft" /\ Identity
    /\ \A asset \in Assets : assets[now][asset] # "other"
    /\ \E asset \in Assets :
          /\ assets[now][asset] = "missing"
          /\ assets' = [assets EXCEPT ![now][asset] = "ours"]
    /\ Goes("upload")
    /\ UNCHANGED <<local, release, aims, tag, branch, checks, passedOnce, world, meddled>>

\* ensure_draft: the draft is listed again and must be whole.  A preparation ends here.
VerifyDraft ==
    /\ relAt = "upload" /\ release[now] = "draft" /\ Identity /\ Uploaded
    /\ CASE final -> Goes("recheck")
         [] ~final /\ goal = "prepare" -> RelEnds
         [] OTHER -> Goes("consume")
    /\ UNCHANGED <<local, remote, world, meddled>>

\* verify_preparation: the bytes are there, whole, and of the journal's commit.
Valid == prepared[now] # None /\ pinned[now] \in {None, prepared[now]}

\* execute: only a valid preparation is published.
Consume ==
    /\ relAt = "consume" /\ Valid
    /\ pinned' = [pinned EXCEPT ![now] = prepared[now]]
    /\ Goes("publish")
    /\ UNCHANGED <<complete, prepared, smoked, remote, world, meddled>>

\* publish: a published release is only verified; a draft's checks are read, it is smoked and
\* ensured again.
PublishRelease ==
    /\ relAt = "publish" /\ Identity
    /\ \/ /\ release[now] = "published" /\ Uploaded
          /\ Goes("production")
          /\ UNCHANGED smoked
       \/ /\ release[now] = "draft" /\ CheckedSource(prepared[now])
          /\ smoked' = [smoked EXCEPT ![now] = TRUE]
          /\ relAt' = "draft" /\ final' = TRUE /\ UNCHANGED <<now, goal>>
    /\ UNCHANGED <<pinned, complete, prepared, remote, world, meddled>>

\* publish: a newer failed or pending run stops the publication.
Recheck ==
    /\ relAt = "recheck"
    /\ CheckedSource(prepared[now])
    /\ Goes("patch")
    /\ UNCHANGED <<local, remote, world, meddled>>

\* The draft is published under its identifier; GitHub makes the missing tag at its target.
Patch ==
    /\ relAt = "patch" /\ release[now] = "draft"
    /\ release' = [release EXCEPT ![now] = "published"]
    /\ tag' = [tag EXCEPT ![now] = IF @ = None THEN aims[now] ELSE @]
    /\ Goes("published")
    /\ UNCHANGED <<local, aims, assets, branch, checks, passedOnce, world, meddled>>

VerifyPublished ==
    /\ relAt = "published" /\ release[now] = "published" /\ Identity /\ Uploaded
    /\ Goes("production")
    /\ UNCHANGED <<local, remote, world, meddled>>

\* verify_production: Production reports this release's runtime.
VerifyProduction ==
    /\ relAt = "production"
    /\ live = now
    /\ Goes("clean")
    /\ UNCHANGED <<local, remote, world, meddled>>

\* clean, and the end of execute.
Complete ==
    /\ relAt = "clean"
    /\ branch' = [branch EXCEPT ![now] = None]
    /\ complete' = [complete EXCEPT ![now] = TRUE]
    /\ RelEnds
    /\ UNCHANGED <<pinned, prepared, smoked, release, aims, tag, assets, checks, passedOnce, world,
                   meddled>>

----------------------------------------------------------------------------
\* What others do meanwhile

Merged ==
    /\ main < LastCommit /\ main' = main + 1
    /\ UNCHANGED <<local, remote, dev, servedOnce, live, command, meddled>>
\* A run of a commit's checks starts, passes, fails, or is started again.
Checked ==
    /\ \E c \in 1..main, how \in {"running", "passed", "failed"} :
          /\ checks[c] # how
          /\ checks' = [checks EXCEPT ![c] = how]
          /\ passedOnce' = IF how = "passed" THEN passedOnce \union {c} ELSE passedOnce
    /\ UNCHANGED <<local, release, aims, tag, assets, branch, world, command, meddled>>
\* Dev installs a commit of main; Production installs a newer whole release.
DevInstalls ==
    /\ dev < main /\ dev' \in (dev + 1)..main /\ servedOnce' = servedOnce \union {dev'}
    /\ UNCHANGED <<local, remote, main, live, command, meddled>>
ProductionInstalls ==
    /\ Latest > live /\ live' = Latest
    /\ UNCHANGED <<local, remote, main, dev, servedOnce, command, meddled>>
\* Somebody changes or removes a draft, or pushes its tag.  What is published is immutable.
Meddle ==
    /\ meddled < MaxMeddling /\ meddled' = meddled + 1
    /\ \E v \in Versions \ Published :
          \/ \E asset \in Assets :
                release[v] = "draft" /\ assets' = [assets EXCEPT ![v][asset] = "other"]
                /\ UNCHANGED <<release, aims, tag>>
          \/ \E c \in 1..main : release[v] = "draft" /\ aims' = [aims EXCEPT ![v] = c]
                /\ UNCHANGED <<release, tag, assets>>
          \/ \E c \in 1..main : tag' = [tag EXCEPT ![v] = c] /\ UNCHANGED <<release, aims, assets>>
          \/ /\ release[v] = "draft"
             /\ release' = [release EXCEPT ![v] = "none"]
             /\ assets' = [assets EXCEPT ![v] = [asset \in Assets |-> "missing"]]
             /\ UNCHANGED <<aims, tag>>
    /\ UNCHANGED <<local, branch, checks, passedOnce, world, command>>

RelInit ==
    /\ pinned = [v \in Versions |-> None] /\ complete = [v \in Versions |-> FALSE]
    /\ prepared = [v \in Versions |-> None] /\ smoked = [v \in Versions |-> FALSE]
    /\ release = [v \in Versions |-> "none"] /\ aims = [v \in Versions |-> None]
    /\ tag = [v \in Versions |-> None]
    /\ assets = [v \in Versions |-> [asset \in Assets |-> "missing"]]
    /\ branch = [v \in Versions |-> None] /\ checks = [c \in Commits |-> "none"]
    /\ passedOnce = {} /\ main = 1 /\ dev = None /\ servedOnce = {} /\ live = None
    /\ now = None /\ goal = "run" /\ final = FALSE /\ relAt = "idle" /\ meddled = 0

RelNext == Start \/ Pin \/ Suite \/ PrepareAssets \/ Smoke \/ Draft \/ Upload \/ VerifyDraft \/ Consume
           \/ PublishRelease \/ Recheck \/ Patch \/ VerifyPublished \/ VerifyProduction \/ Complete \/ StopRelease
           \/ Merged \/ Checked \/ DevInstalls \/ ProductionInstalls \/ Meddle
RelSpec == RelInit /\ [][RelNext]_relVars

----------------------------------------------------------------------------
\* Properties

\* A release that is called complete is what it says, whoever meddled with its draft and however
\* often the command was killed: it is published, its tag is the commit that was pinned and
\* prepared, every asset is the prepared one, that commit passed the full checks and was served
\* by Dev before, and the prepared bytes were smoked.
CompleteIsTrue ==
    \A v \in Versions : complete[v] =>
        /\ release[v] = "published"
        /\ tag[v] = prepared[v] /\ pinned[v] = prepared[v]
        /\ \A asset \in Assets : assets[v][asset] = "ours"
        /\ prepared[v] \in passedOnce \intersect servedOnce
        /\ smoked[v]
        /\ live >= v
=============================================================================
