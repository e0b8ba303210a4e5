----------------------------- MODULE MCBrowsers -----------------------------
(***************************************************************************)
(* Small instances of BrowserSessions and of the runtime its browsers come *)
(* from.  BrowserSessions knows of a browser only that it starts, runs and *)
(* stops: the two share no state, so each behaviour is one part's, which   *)
(* the other watches.                                                      *)
(***************************************************************************)
EXTENDS BrowserSessions, BrowserRuntime, TLC

VARIABLE part
browserVars == <<part, vars, runtimeVars>>

BrowsersInit == part \in {"sessions", "runtime"} /\ Init /\ RuntimeInit

\* Everything but expiry, with two tasks at a time.
Offered == \A f \in Flow : flow'[f].op # "sweep"

\* Callers, profiles and commands are alike: the first start is the first to begin and takes
\* the first profile, and the first command is the first to be sent.  Commands go to the
\* browser of the first start, while no other start is under way: those to two browsers do
\* not meet.
InOrder ==
    /\ \A c \in Caller \ {1} : call'[c].at # "idle" => call'[c - 1].at # "idle"
    /\ \A k \in Command \ {1} : command'[k].at # "unsent" => command'[k - 1].at # "unsent"
    /\ call'[1].profile \in {1, Nobody}
    /\ (\E k \in Command : command'[k].at \in {"open", "left"}) =>
            \A c \in Caller \ {1} : call'[c].at \in {"idle", "over"}
    /\ \A k \in Command, c \in Caller \ {1} : ~Send(k, c)

BrowsersNext ==
    \/ part = "sessions" /\ Next /\ Offered /\ UNCHANGED <<part, runtimeVars>>
    \/ part = "runtime" /\ RuntimeNext /\ InOrder /\ UNCHANGED <<part, vars>>

BrowsersSpec == BrowsersInit /\ [][BrowsersNext]_browserVars

TasksAlike == Permutations(Flow \ {Ticker}) \cup Permutations(Session)
=============================================================================
