\* One DSP with a member's batch of two jobs, two slots: every interleaving of requests,
\* scheduler, tasks, a stop and a crash.
SPECIFICATION MemberSpec
CONSTANTS
    d1 = d1
    d2 = d2
    c1 = c1
    c2 = c2
    j1 = j1
    j2 = j2
    j3 = j3
    Dsp = {d1}
    Conn = {c1}
    Job = {j1, j2}
    Slot = {s1, s2}
    DspOf <- MCDspOf
    ConnOf <- MCConnOf
    MaxAttempts = 2
    QueueLimit = 2
    MaxRev = 1
    MaxWorker = 2
    NoJob = NoJob
SYMMETRY BatchSymmetry
INVARIANTS
    TypeOK
    OneCollectionPerDsp
    LeasesAreOurs
    HolderIsNewest
PROPERTIES
    PublicationIsCurrent
    PromiseKept
