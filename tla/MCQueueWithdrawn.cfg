\* Does job_cancelled always mean that someone withdrew the job?
SPECIFICATION Spec
CONSTANTS
    d1 = d1
    d2 = d2
    c1 = c1
    c2 = c2
    j1 = j1
    j2 = j2
    j3 = j3
    Dsp = {d1}
    Conn = {c1}
    Job = {j1}
    Slot = {s1}
    DspOf <- MCDspOf
    ConnOf <- MCConnOf
    MaxAttempts = 2
    QueueLimit = 2
    MaxRev = 1
    MaxWorker = 2
    NoJob = NoJob
PROPERTIES
    CancelledByWithdrawal
