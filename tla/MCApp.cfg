\* Two schedules, one account, a team of two, one provider connection and a roster
\* of three employees, each through its faults.
SPECIFICATION AppSpec
CONSTANTS
    Parts = {"schedules", "account", "team", "provider", "reading"}
    Day = 4
    Schedule = {1, 2}
    Timings <- MCTimings
    ZoneChoices <- MCZones
    MaxClock = 7
    MaxEdits = 2
    MaxStops = 1
    Slot = {1, 2}
    Request = {1, 2}
    Key = {1}
    MaxPassword = 2
    MaxLink = 1
    MaxSecret = 1
    MaxStep = 2
    MaxActs = 6
    Person <- MCPerson
    Elsewhere = {}
    Role = {"lead"}
    Permission <- MCPermission
    PermissionSets <- MCPermissionSets
    Feature <- MCFeature
    Start <- MCStart
    MaxTeamEdits = 3
    MaxAccepts = 2
    MaxSaves = 2
    MaxSubmissions = 5
    MaxLosses = 2
    Employees = 3
    SampledRoster = 3
    SampleSize = 1
    MaxAttempts = 2
    MaxRosters = 2
    Oddities <- MCOddities
    Workings <- MCWorkings
INVARIANTS
    OccurrenceOnce
    SessionsKnowThePassword
    CodeOnce
    OwnerRemains
    RejectedAtMostThrice
    OneRoster
    ProvenFirst
PROPERTIES
    NoneIsSkipped
    JoinsAsInvited
    LostIsNotRepeated
CHECK_DEADLOCK FALSE
