\* Does the task of a collection that succeeded record that outcome?
SPECIFICATION RecordsOrTurnsSpec
CONSTANTS
    Parts = {"records"}
    d1 = d1
    d2 = d2
    c1 = c1
    c2 = c2
    j1 = j1
    j2 = j2
    j3 = j3
    Dsp = {d1, d2}
    Conn = {c1, c2}
    Job = {j1, j2, j3}
    Slot = {s1}
    DspOf <- MCDspOf
    ConnOf <- MCConnOf
    MaxAttempts = 1
    QueueLimit = 2
    MaxRev = 0
    MaxWorker = 2
    NoJob = NoJob
PROPERTIES
    SuccessIsRecorded
