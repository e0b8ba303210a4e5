\* One job, two schedules, two messages and one host, each through every fault.
SPECIFICATION ProgressSpec
CONSTANTS
    d1 = d1
    c1 = c1
    Dsp = {d1}
    Conn = {c1}
    Job = {j1}
    Slot = {s1}
    DspOf <- MCDspOf
    ConnOf <- MCConnOf
    MaxAttempts = 2
    QueueLimit = 2
    MaxRev = 0
    MaxWorker = 2
    NoJob = NoJob
    Day = 4
    Schedule = {1, 2}
    Timings <- MCTimings
    ZoneChoices <- MCZones
    MaxClock = 6
    MaxEdits = 2
    MaxStops = 0
    Invitations = {"i"}
    Resets = {"r"}
    Batch = 1
    Room = 1
    Attempts = 2
    MaxMailStops = 1
    MaxMailRetries = 1
    Last = 2
    MaxMoves = 1
    MaxKills = 1
PROPERTIES
    EveryJobEnds
    EveryOccurrenceRuns
    MailSettles
    Recovers
CHECK_DEADLOCK FALSE
