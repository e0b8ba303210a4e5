-------------------------------- MODULE MCApp --------------------------------
(***************************************************************************)
(* The safety of what members and providers see of the platform: schedules,*)
(* signing in, the team, the platform's own sign-ins and the reading of    *)
(* timecards.  The five share no state, so each behaviour is one part's,   *)
(* which the others watch.                                                 *)
(***************************************************************************)
EXTENDS Schedules, SignIn, Team, ProviderSignIn, TimecardReading

CONSTANT Parts    \* the parts of an instance

\* An interval of half a day and a time of day; a zone that keeps its offset and one whose
\* clocks are set forward on the second day.
MCTimings == {[cadence |-> "interval", period |-> 2, time |-> 1],
              [cadence |-> "daily", period |-> 4, time |-> 2]}
MCZones == {[change |-> 0, before |-> 0, later |-> 0], [change |-> 6, before |-> 1, later |-> 2]}

\* An owner and a person who is not a member yet, a role that may manage the team or only
\* look, and a page that needs a connection.
MCPerson == {"ann", "bob"}
MCPermission == {"members.invite", "members.manage", "roles.manage", "timecard.view"}
Managing == {"members.invite", "members.manage", "roles.manage"}
MCPermissionSets == {Managing, {"members.invite", "timecard.view"}}
MCFeature ==
    [timecard |-> [kind |-> "page", permissions |-> {"timecard.view"}, provides |-> {},
                   requires |-> {"timecards"}],
     paycom |-> [kind |-> "connection", permissions |-> {}, provides |-> {"timecards"},
                 requires |-> {}]]
MCStart == [members |-> [ann |-> "owner", bob |-> "none"], roles |-> [r \in {"lead"} |-> Managing],
            enabled |-> {"timecard", "paycom"}]

\* The last employee's response disagrees with the page; two worked in the period, or nobody.
MCOddities == {{3}}
MCWorkings == {{1, 2}, {}}

VARIABLE part
appVars == <<part, schedVars, signInVars, teamVars, signingVars, readingVars>>

AppInit ==
    /\ part \in Parts
    /\ SchedInit /\ SignInInit /\ TeamInit /\ SigningInit /\ ReadingInit
    /\ part # "schedules" => zone = CHOOSE z \in ZoneChoices : TRUE
    /\ part # "provider" => provider = "paycom"
    /\ part # "reading" => odd = {3} /\ worked = {}

AppNext ==
    \/ /\ part = "schedules" /\ SchedNext
       /\ UNCHANGED <<part, signInVars, teamVars, signingVars, readingVars>>
    \/ /\ part = "account" /\ SignInNext
       /\ UNCHANGED <<part, schedVars, teamVars, signingVars, readingVars>>
    \/ /\ part = "team" /\ TeamNext
       /\ UNCHANGED <<part, schedVars, signInVars, signingVars, readingVars>>
    \/ /\ part = "provider" /\ SigningNext
       /\ UNCHANGED <<part, schedVars, signInVars, teamVars, readingVars>>
    \/ /\ part = "reading" /\ ReadingNext
       /\ UNCHANGED <<part, schedVars, signInVars, teamVars, signingVars>>

AppSpec == AppInit /\ [][AppNext]_appVars
==============================================================================
