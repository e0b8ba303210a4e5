------------------------- MODULE MCBrowserSessions -------------------------
(***************************************************************************)
(* Small instances of BrowserSessions.                                     *)
(***************************************************************************)
EXTENDS BrowserSessions, TLC

CONSTANTS c1, s1, s2, f1, f2, ticker

\* The tasks an instance has are of these kinds.
Offered(ops) == \A f \in Flow : flow'[f].op \in ops \cup {"none", "ended"}

\* An owner's requests beside the scheduler's expiry.
OwnerSpec == Init /\ [][Next /\ Offered({"save", "check", "sweep"})]_vars
                  /\ Fairness

\* Jobs and what their owners do, with credentials that stay.
DaySpec == Init /\ [][Next /\ Offered({"job", "verify", "cancel", "check", "sweep"})]_vars
=============================================================================
