\* One job through all its attempts with its metrics and audit entries; and two DSPs that
\* share one browser, the busy one with two jobs.
SPECIFICATION RecordsOrTurnsSpec
CONSTANTS
    Parts = {"records", "turns"}
    d1 = d1
    d2 = d2
    c1 = c1
    c2 = c2
    j1 = j1
    j2 = j2
    j3 = j3
    Dsp = {d1, d2}
    Conn = {c1, c2}
    Job = {j1, j2, j3}
    Slot = {s1}
    DspOf <- MCDspOf
    ConnOf <- MCConnOf
    MaxAttempts = 2
    QueueLimit = 2
    MaxRev = 0
    MaxWorker = 2
    NoJob = NoJob
SYMMETRY JobsAlike
INVARIANTS
    NextAttemptHasNoRow
    SuccessHasData
PROPERTIES
    MetricsSealed
    NobodyPassesTwice
