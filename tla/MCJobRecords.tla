---------------------------- MODULE MCJobRecords ----------------------------
(***************************************************************************)
(* Small instances of JobRecords and JobTurns: one job with its rows of    *)
(* metrics and audit entries, and the turns of two DSPs.                   *)
(***************************************************************************)
EXTENDS JobRecords, JobTurns, TLC

CONSTANTS d1, d2, c1, c2, j1, j2, j3,
          Parts    \* "records", "turns" or both

MCDspOf  == [c \in Conn |-> IF c = c1 THEN d1 ELSE d2]
MCConnOf == [j \in Job |-> IF j = j3 THEN c2 ELSE c1]

VARIABLE part
recordsVars == <<part, rvars, overtaken>>

RecordsOrTurnsInit ==
    /\ part \in Parts
    /\ RecordsInit /\ overtaken = [d \in Dsp |-> {}]

\* One job through all its attempts, beside a DSP that does nothing.
OneJob ==
    /\ RecordsNext
    /\ job'[j3] = job[j3] /\ Cardinality({j \in Job : job'[j].st # "absent"}) <= 1
    /\ conn'[c2] = conn[c2] /\ dsp'[d2] = dsp[d2] /\ c2 \notin changing' /\ d2 \notin blocked'
    /\ UNCHANGED overtaken

\* Nothing is withdrawn, no process stops, no lease runs out, credentials stay and what is
\* published is a success, so that only the order of the turns is left.
Turns ==
    /\ RecordsNext /\ Observe
    /\ UNCHANGED <<conn, dsp, changing, worker, phase, detached>>
    /\ \A j \in Job : job'[j].lease # "lapsed" /\ ~job'[j].actor
    /\ published' = {j \in Job : job'[j].st = "succeeded"}
    /\ \A j \in Job, a \in 1 .. MaxAttempts : recorder'[j][a] # "cancelled"

RecordsOrTurnsNext ==
    \/ part = "records" /\ OneJob /\ UNCHANGED part
    \/ part = "turns" /\ Turns /\ UNCHANGED part

RecordsOrTurnsSpec == RecordsOrTurnsInit /\ [][RecordsOrTurnsNext]_recordsVars

\* Jobs of one DSP are alike.
JobsAlike == Permutations({j1, j2})
=============================================================================
