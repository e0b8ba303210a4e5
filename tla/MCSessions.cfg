\* A connection, its tasks two at a time: jobs, requests, cancellations, suspension; and
\* three starts of browsers on two profiles and two slots, with two commands.
SPECIFICATION BrowsersSpec
CONSTANTS
    Conn = {c1}
    Session = {s1, s2}
    Flow = {f1, f2, ticker}
    Ticker = ticker
    Capacity = 1
    MaxRev = 1
    None = None
    Caller = {1, 2, 3}
    Profile = {1, 2}
    Command = {1, 2}
    Slots = 2
    QueueSize = 1
    Nobody = 0
SYMMETRY TasksAlike
INVARIANTS
    ReadyWasProved
    NoSessionIsLost
    AnswersAreTheirOwn
    OneBrowserEach
CHECK_DEADLOCK FALSE
