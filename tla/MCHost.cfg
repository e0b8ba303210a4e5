\* Setup, updater, releases, a pull request and the databases, each through its faults.
SPECIFICATION PartsSpec
CONSTANTS
    Last = 3
    MaxMoves = 1
    MaxKills = 2
    Placements <- MCPlacements
    MaxSetupKills = 3
    LastVersion = 2
    LastCommit = 2
    Assets = {"a"}
    MaxMeddling = 1
    MaxHeads = 2
    MaxEvents = 4
    Attempts = 2
    Limits <- MCLimits
    Lists <- MCLists
    MaxFaults = 3
INVARIANTS
    OldSurvives
    SettledIsWhole
    StartsComplete
    CompleteIsTrue
    LeftMeansUnmerged
    ServesItsData
    RefusesOnlyLoss
CHECK_DEADLOCK FALSE
