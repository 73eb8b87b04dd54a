\* The place asks for the same bound in another unit after admission.
CONSTANTS
    Ids <- MCIds
    HumanSeparation = "separation"
    Versions = {"1.0"}
    Scopes <- MCScopes
    Restrictions = {"capture_off"}
    NoRestriction = "none"
    Capabilities <- MCIds
    Places = {"clinic"}
    Spaces = {"lobby", "ward"}
    Environments = {"site1", "site2"}
    Builds = {"b1", "b2"}
    Controllers = {"c1", "c2"}
    Embodiments = {"base"}
    Policies <- OtherUnit
    RobotStates <- SteadyRobot
    Mapping <- MCMapping
    Actors = {"r1"}
    Challenges = {n1}
    Calls = {k1}
    RunnerLevels = {2}
    Validity = 2
    ExternalPlans <- NoPlans
    LegacyCallers = FALSE
    MaxTime = 3
    MaxPlans = 2
    MaxRecords = 2
    MaxRestarts = 0
    Doors <- NoDoors
    AcceptedAtDoors = {}
    Tasks <- NoTasks
    AcceptedByFleet = {}
SPECIFICATION LifecycleSpec
INVARIANTS ChangeRequalifies
CHECK_DEADLOCK FALSE
