---------------------------- MODULE MCLiveReads ----------------------------
(***************************************************************************)
(* What members see while collections run: the pages of a dashboard, and   *)
(* the meals of a day while a sync reads them.  The two share no state, so *)
(* each behaviour is one part's, which the other watches.                  *)
(***************************************************************************)
EXTENDS LiveReads, RouteReading

CONSTANT Parts    \* the parts of an instance

\* A write changes one page: one that changes two is two writes told of at once.  The pages
\* are alike: the first write is of the first page.
OneAtATime == writer' # Page /\ (writes = 0 => 2 \notin writer')

\* Tabs with nothing to do are alike: the first goes first.
FirstTab == tabs[1].at = "idle" /\ tabs[2].at = "idle" => tabs'[2].at = "idle"

\* Two routes from the start, or one to which a second may be added.
MCMornings == {<<1, 1>>, <<1, 0>>}

VARIABLE part
seenVars == <<part, readsVars, routeVars>>

SeenInit ==
    /\ part \in Parts /\ ReadsInit /\ RouteInit
    /\ part # "routes" => moments = <<<<1, 1>>>>

SeenNext ==
    \/ part = "pages" /\ ReadsNext /\ OneAtATime /\ UNCHANGED <<part, routeVars>>
    \/ part = "routes" /\ RouteNext /\ FirstTab /\ UNCHANGED <<part, readsVars>>

SeenSpec == SeenInit /\ [][SeenNext]_seenVars
=============================================================================
